---------------------------- MODULE ConsoleProofs ----------------------------
(* What the pages of the console promise, for any constants: any terms,      *)
(* parties, fields, files and accounts, and any number of calls under way.   *)
(* Each page has an inductive invariant, of which its own steps are shown to *)
(* keep it; the console runs each page as its module says (a step of the     *)
(* console is a step of that page or leaves it alone), so that the invariant *)
(* holds of the page whatever is done on the others.                         *)
EXTENDS Console, Sequences, TLAPS, FiniteSetTheorems

-----------------------------------------------------------------------------
(* The pages are what the console makes of them                              *)

\* A step that opens or works on another page leaves this one alone.
LEMMA ElsewhereStays ==
    ASSUME Others
    PROVE  /\ route' # "participants" => UNCHANGED listVars
           /\ route' # "participant" => UNCHANGED detailVars
           /\ route' # "claim" => UNCHANGED modalVars
           /\ route' # "submit" => UNCHANGED formVars
           /\ route' # "agreement" => UNCHANGED uploadVars
           /\ route' # "subscribers" => UNCHANGED webhookVars
           /\ route' # "settings" => UNCHANGED deskVars
           /\ route' # "themes" => UNCHANGED themeVars
           /\ route' # "providers" => UNCHANGED realmVars
           /\ route' # "mail" => UNCHANGED mailVars
           /\ route' # "review" => UNCHANGED reviewVars
           /\ route' # "flows" => UNCHANGED flowVars
           /\ route' # "agreements" => UNCHANGED trayVars
           /\ route' # "users" => UNCHANGED userVars
           /\ route' # "events" => UNCHANGED pickerVars
           /\ route' # "credentials" => UNCHANGED offerVars
BY DEF Others

\* A step that opens or works on a page is one of that page's.
LEMMA StepsOfThePage ==
    ASSUME Next
    PROVE  /\ route' = "participants" => Participants!Enter \/ Participants!Work
           /\ route' = "participant" => Detail!Enter \/ Detail!Work
           /\ route' = "claim" => NewClaim!Enter \/ NewClaim!Work
           /\ route' = "submit" => Creation!Enter \/ Creation!Work
           /\ route' = "agreement" => Upload!Enter \/ Upload!Work
           /\ route' = "subscribers" => Webhooks!Enter \/ Webhooks!Work
           /\ route' = "settings" => Settings!Enter \/ Settings!Work
           /\ route' = "themes" => Library!Enter \/ Library!Work
           /\ route' = "providers" => Identity!Enter \/ Identity!Work
           /\ route' = "mail" => Mailer!Enter \/ Mailer!Work
           /\ route' = "review" => Reviewing!Enter \/ Reviewing!Work
           /\ route' = "flows" => Flows!Enter \/ Flows!Work
           /\ route' = "agreements" => Adding!Enter \/ Adding!Work
           /\ route' = "users" => Users!Enter \/ Users!Work
           /\ route' = "events" => Picking!Enter \/ Picking!Work
           /\ route' = "credentials" => Offers!Enter \/ Offers!Work
BY DEF Next, Open, Stay

\* So every step of the console is one of the page, or one that it does not see.
LEMMA PagesStep ==
    ASSUME [Next]_vars
    PROVE  /\ [Participants!Enter \/ Participants!Work]_(Participants!vars)
           /\ [Detail!Enter \/ Detail!Work]_(Detail!vars)
           /\ [NewClaim!Enter \/ NewClaim!Work]_(NewClaim!vars)
           /\ [Creation!Enter \/ Creation!Work]_(Creation!vars)
           /\ [Upload!Enter \/ Upload!Work]_(Upload!vars)
           /\ [Webhooks!Enter \/ Webhooks!Work]_(Webhooks!vars)
           /\ [Settings!Enter \/ Settings!Work]_(Settings!vars)
           /\ [Library!Enter \/ Library!Work]_(Library!vars)
           /\ [Identity!Enter \/ Identity!Work]_(Identity!vars)
           /\ [Mailer!Enter \/ Mailer!Work]_(Mailer!vars)
           /\ [Reviewing!Enter \/ Reviewing!Work]_(Reviewing!vars)
           /\ [Flows!Enter \/ Flows!Work]_(Flows!vars)
           /\ [Adding!Enter \/ Adding!Work]_(Adding!vars)
           /\ [Users!Enter \/ Users!Work]_(Users!vars)
           /\ [Picking!Enter \/ Picking!Work]_(Picking!vars)
           /\ [Offers!Enter \/ Offers!Work]_(Offers!vars)
<1>1. CASE Next
  BY <1>1, ElsewhereStays, StepsOfThePage
  DEF Next, listVars, detailVars, modalVars, formVars, uploadVars, webhookVars, deskVars, themeVars,
      realmVars, mailVars, reviewVars, flowVars, trayVars, userVars, pickerVars, offerVars,
      Participants!vars, Detail!vars, NewClaim!vars, Creation!vars, Upload!vars, Webhooks!vars,
      Settings!vars, Library!vars, Identity!vars, Mailer!vars, Reviewing!vars, Flows!vars,
      Adding!vars, Users!vars, Picking!vars, Offers!vars
<1>2. CASE UNCHANGED vars
  BY <1>2
  DEF vars, listVars, detailVars, modalVars, formVars, uploadVars, webhookVars, deskVars, themeVars,
      realmVars, mailVars, reviewVars, flowVars, trayVars, userVars, pickerVars, offerVars,
      Participants!vars, Detail!vars, NewClaim!vars, Creation!vars, Upload!vars, Webhooks!vars,
      Settings!vars, Library!vars, Identity!vars, Mailer!vars, Reviewing!vars, Flows!vars,
      Adding!vars, Users!vars, Picking!vars, Offers!vars
<1> QED BY <1>1, <1>2

-----------------------------------------------------------------------------
(* ProposalReview: the steps of a review are those of the proposal on the    *)
(* screen.                                                                   *)
ListPage == [at : {"list"}, rows : {Reviewing!Nothing} \cup [Proposals -> Reviewing!Statuses]]
ReviewPage == [at : {"review"}, id : Proposals, loading : BOOLEAN, step : Reviewing!Steps,
               shown : {Reviewing!Nothing} \cup Reviewing!Shown,
               submitting : BOOLEAN, redirecting : BOOLEAN]

\* The calls carry what their kind needs.
ReviewListCalls == [kind : {"list"}, here : BOOLEAN,
                    answer : {Reviewing!Nothing} \cup [Proposals -> Reviewing!Statuses]]
FetchCalls == [kind : {"fetch"}, id : Proposals, here : BOOLEAN,
               answer : {Reviewing!Nothing} \cup Reviewing!Shown]
DecisionCalls == [kind : {"approve", "reject", "complete"}, here : BOOLEAN, id : Proposals,
                  step : Reviewing!Steps, told : Proposals]

\* A call fits the page: a list is asked for by the list alone, what is said to be
\* answered here has its review, and a decision of the first step is on the proposal
\* that was shown.
Fits(c, p) ==
    /\ c \in ReviewListCalls \cup FetchCalls \cup DecisionCalls
    /\ c \in ReviewListCalls => p \in ListPage
    /\ c \notin ReviewListCalls /\ c.here => p \in ReviewPage
    /\ c \in DecisionCalls /\ c.step = "verify-info" => c.id = c.told

\* The strengthening: the step of the page fits what it shows, and every call fits
\* the page, however they crossed.
ReviewIInv ==
    /\ status \in [Proposals -> Reviewing!Statuses] /\ past \subseteq Proposals
    /\ review \in {Reviewing!Closed} \cup ListPage \cup ReviewPage
    /\ \A c \in reviewCalls : Fits(c, review)
    /\ Reviewing!StepIsOfTheShown

-----------------------------------------------------------------------------
\* The three pages differ, as do the three kinds of calls.
LEMMA PagesDiffer ==
    /\ \A p \in ListPage : p # Reviewing!Closed /\ p \notin ReviewPage /\ p.at = "list"
    /\ \A p \in ReviewPage : p # Reviewing!Closed /\ p \notin ListPage /\ p.at = "review"
    /\ Reviewing!Closed \notin ListPage /\ Reviewing!Closed \notin ReviewPage
    /\ Reviewing!Closed.at = "closed"
BY DEF ListPage, ReviewPage, Reviewing!Closed

\* A call is of one kind.
LEMMA CallsDiffer ==
    /\ \A c \in ReviewListCalls : c.kind = "list" /\ c \notin FetchCalls /\ c \notin DecisionCalls
    /\ \A c \in FetchCalls : c.kind = "fetch" /\ c \notin ReviewListCalls /\ c \notin DecisionCalls
    /\ \A c \in DecisionCalls : /\ c.kind \in {"approve", "reject", "complete"}
                                /\ c \notin ReviewListCalls /\ c \notin FetchCalls
BY DEF ReviewListCalls, FetchCalls, DecisionCalls

\* What is answered elsewhere fits any page, and keeps its kind.
LEMMA HereStays ==
    ASSUME NEW p, NEW q, NEW c, Fits(c, p), c \notin ReviewListCalls, NEW here \in BOOLEAN,
           here => q \in ReviewPage
    PROVE  Fits([c EXCEPT !.here = here], q) /\ [c EXCEPT !.here = here] \notin ReviewListCalls
<1> DEFINE d == [c EXCEPT !.here = here]
<1>1. CASE c \in FetchCalls
  <2>1. d \in FetchCalls /\ d.here = here
    BY <1>1 DEF FetchCalls
  <2> QED BY <2>1, CallsDiffer DEF Fits
<1>2. CASE c \in DecisionCalls
  <2>1. d \in DecisionCalls /\ d.here = here /\ d.step = c.step /\ d.id = c.id /\ d.told = c.told
    BY <1>2 DEF DecisionCalls
  <2> QED BY <1>2, <2>1, CallsDiffer DEF Fits
<1> QED BY <1>1, <1>2 DEF Fits

\* What is not asked by the list fits another page when it is not said to be answered there.
LEMMA UnmountedFit ==
    ASSUME ReviewIInv, NEW p
    PROVE  \A d \in Reviewing!Unmounted : Fits(d, p)
<1> SUFFICES ASSUME NEW c \in reviewCalls, c.kind # "list"
             PROVE  Fits([c EXCEPT !.here = FALSE], p)
  BY DEF Reviewing!Unmounted
<1>1. Fits(c, review) /\ c \notin ReviewListCalls
  BY CallsDiffer DEF ReviewIInv
<1> QED BY <1>1, HereStays

\* A decision under way has the shape of one.
LEMMA DecisionAt ==
    ASSUME ReviewIInv, NEW c \in Reviewing!Decisions
    PROVE  c \in DecisionCalls /\ c \in reviewCalls /\ Fits(c, review)
BY CallsDiffer DEF ReviewIInv, Reviewing!Decisions, Fits

\* The invariant is what the review promises.
LEMMA Promised == ReviewIInv => Reviewing!ReviewIsOfTheShown
<1> SUFFICES ASSUME ReviewIInv PROVE Reviewing!InfoDecisionIsOnTheShown
  BY DEF Reviewing!ReviewIsOfTheShown, ReviewIInv
<1> QED BY DecisionAt DEF Reviewing!InfoDecisionIsOnTheShown, Fits

\* At first no page of the reviews is open.
LEMMA ReviewInitIInv == ASSUME Reviewing!ReviewAssumption PROVE Reviewing!Init => ReviewIInv
BY DEF Reviewing!ReviewAssumption, Reviewing!Init, ReviewIInv, Reviewing!StepIsOfTheShown,
    Reviewing!Reviewing, Reviewing!Closed

-----------------------------------------------------------------------------
(* Going from page to page                                                   *)

\* The list, mounted anew.
LEMMA ToListStep ==
    ASSUME ReviewIInv, status' \in [Proposals -> Reviewing!Statuses], past' \subseteq Proposals,
           review' = [at |-> "list", rows |-> Reviewing!Nothing],
           \A c \in reviewCalls' : c \in Reviewing!Unmounted \/ c = Reviewing!List
    PROVE  ReviewIInv'
<1>1. review' \in ListPage
  BY DEF ListPage
<1>2. Reviewing!List \in ReviewListCalls
  BY DEF Reviewing!List, ReviewListCalls
<1>3. ASSUME NEW c \in reviewCalls' PROVE Fits(c, review')
  BY <1>1, <1>2, UnmountedFit, CallsDiffer DEF Fits
<1>4. Reviewing!StepIsOfTheShown'
  BY <1>1, PagesDiffer DEF Reviewing!StepIsOfTheShown, Reviewing!Reviewing
<1> QED BY <1>1, <1>3, <1>4 DEF ReviewIInv

\* A review page, mounted anew.
LEMMA ToReviewStep ==
    ASSUME ReviewIInv, NEW id \in Proposals, UNCHANGED status, past' \subseteq Proposals,
           review' = [at |-> "review", id |-> id, loading |-> TRUE, step |-> "verify-info",
                      shown |-> Reviewing!Nothing, submitting |-> FALSE, redirecting |-> FALSE],
           \A c \in reviewCalls' : c \in Reviewing!Unmounted \/ c = Reviewing!Fetch(id)
    PROVE  ReviewIInv'
<1>1. review' \in ReviewPage /\ review'.shown = Reviewing!Nothing
  BY DEF ReviewPage, Reviewing!Steps
<1>2. Reviewing!Fetch(id) \in FetchCalls
  BY DEF Reviewing!Fetch, FetchCalls
<1>3. ASSUME NEW c \in reviewCalls' PROVE Fits(c, review')
  BY <1>1, <1>2, UnmountedFit, CallsDiffer DEF Fits
<1>4. Reviewing!StepIsOfTheShown'
  BY <1>1 DEF Reviewing!StepIsOfTheShown
<1> QED BY <1>1, <1>3, <1>4 DEF ReviewIInv

\* The list or a review opens.
LEMMA OpenSteps ==
    ASSUME ReviewIInv,
           \/ Reviewing!Enter \/ Reviewing!Redirect
           \/ \E id \in Proposals : Reviewing!handleVerifyClick(id)
    PROVE  ReviewIInv'
<1>1. CASE Reviewing!Enter \/ Reviewing!Redirect
  BY <1>1, ToListStep DEF Reviewing!Enter, Reviewing!Redirect, Reviewing!toList, ReviewIInv
<1>2. ASSUME NEW id \in Proposals, Reviewing!handleVerifyClick(id) PROVE ReviewIInv'
  BY <1>2, ToReviewStep DEF Reviewing!handleVerifyClick, ReviewIInv
<1> QED BY <1>1, <1>2

\* Going back keeps what is shown, and what was asked by the review that shows it.
LEMMA BackStep == ASSUME ReviewIInv, NEW id \in Proposals, Reviewing!Back(id) PROVE ReviewIInv'
<1> DEFINE Kept(c) == [c EXCEPT !.here = 
             c.here /\ Reviewing!Reviewing /\ c \notin Reviewing!Decisions]
<1>1. reviewCalls' = {Kept(c) : c \in {d \in reviewCalls : d.kind # "list"}}
                       \cup {Reviewing!Fetch(id)}
  BY DEF Reviewing!Back
<1>2. Reviewing!Fetch(id) \in FetchCalls
  BY DEF Reviewing!Fetch, FetchCalls
<1>3. review' \in ReviewPage
      /\ (Reviewing!Reviewing => review'.shown = review.shown /\ review'.step = review.step)
      /\ (~Reviewing!Reviewing => review'.shown = Reviewing!Nothing)
  <2>1. CASE Reviewing!Reviewing
    <3>1. review \in ReviewPage
      BY <2>1, PagesDiffer DEF ReviewIInv, Reviewing!Reviewing
    <3> QED BY <2>1, <3>1 DEF Reviewing!Back, ReviewPage
  <2>2. CASE ~Reviewing!Reviewing
    BY <2>2 DEF Reviewing!Back, ReviewPage, Reviewing!Steps
  <2> QED BY <2>1, <2>2
<1>4. ASSUME NEW c \in reviewCalls, c.kind # "list" PROVE Fits(Kept(c), review')
  <2>1. Fits(c, review) /\ c \notin ReviewListCalls
    BY <1>4, CallsDiffer DEF ReviewIInv
  <2>2. (c.here /\ Reviewing!Reviewing /\ c \notin Reviewing!Decisions) \in BOOLEAN
    OBVIOUS
  <2> QED BY <1>3, <2>1, <2>2, HereStays
<1>5. ASSUME NEW c \in reviewCalls' PROVE Fits(c, review')
  <2>1. Fits(Reviewing!Fetch(id), review')
    BY <1>2, <1>3, CallsDiffer DEF Fits
  <2> QED BY <1>1, <1>4, <2>1
<1>6. past' \subseteq Proposals
  <2>1. Reviewing!Reviewing => review \in ReviewPage
    BY PagesDiffer DEF ReviewIInv, Reviewing!Reviewing
  <2> QED BY <2>1 DEF Reviewing!Back, ReviewIInv, ReviewPage
<1>7. Reviewing!StepIsOfTheShown'
  <2>1. Reviewing!Reviewing' /\ (~Reviewing!Reviewing => review'.shown = Reviewing!Nothing)
    BY <1>3, PagesDiffer DEF Reviewing!Reviewing
  <2> QED BY <1>3, <2>1 DEF ReviewIInv, Reviewing!StepIsOfTheShown
<1> QED BY <1>3, <1>5, <1>6, <1>7 DEF ReviewIInv, Reviewing!Back

\* Leaving may have carried out one of the decisions under way.
LEMMA DecidedType ==
    ASSUME ReviewIInv, NEW c \in Reviewing!Decisions, Reviewing!Decided(c)
    PROVE  status' \in [Proposals -> Reviewing!Statuses]
BY DecisionAt DEF Reviewing!Decided, ReviewIInv, DecisionCalls, Reviewing!Statuses

\* The reviews are left.
LEMMA ReviewLeaveStep == ASSUME ReviewIInv, Reviewing!Leave PROVE ReviewIInv'
<1>1. status' \in [Proposals -> Reviewing!Statuses]
  BY DecidedType DEF Reviewing!Leave, ReviewIInv
<1>2. review' = Reviewing!Closed /\ reviewCalls' = {} /\ past' = {}
  BY DEF Reviewing!Leave
<1>3. Reviewing!StepIsOfTheShown'
  BY <1>2, PagesDiffer DEF Reviewing!StepIsOfTheShown, Reviewing!Reviewing
<1> QED BY <1>1, <1>2, <1>3 DEF ReviewIInv

-----------------------------------------------------------------------------
(* Deciding                                                                  *)

\* A review page that takes another value of a field shows and offers the same.
LEMMA SamePage ==
    ASSUME ReviewIInv, review' \in {Reviewing!Closed} \cup ListPage \cup ReviewPage,
           review \in ListPage => review' \in ListPage,
           review \in ReviewPage =>
               /\ review' \in ReviewPage
               /\ review'.shown = review.shown /\ review'.step = review.step,
           Reviewing!Reviewing' => Reviewing!Reviewing,
           status' \in [Proposals -> Reviewing!Statuses], past' = past,
           \A c \in reviewCalls' : c \in reviewCalls \/ Fits(c, review')
    PROVE  ReviewIInv'
<1>1. ASSUME NEW c \in reviewCalls' PROVE Fits(c, review')
  <2>1. CASE c \in reviewCalls
    BY <2>1 DEF ReviewIInv, Fits
  <2> QED BY <2>1
<1>2. Reviewing!StepIsOfTheShown'
  <2>1. Reviewing!Reviewing => review \in ReviewPage
    BY PagesDiffer DEF ReviewIInv, Reviewing!Reviewing
  <2> QED BY <2>1 DEF ReviewIInv, Reviewing!StepIsOfTheShown
<1> QED BY <1>1, <1>2 DEF ReviewIInv

\* The first step decides on what it shows; the second on what the address bar names.
LEMMA DecideStep ==
    ASSUME ReviewIInv, NEW kind \in {"approve", "reject", "complete"}, Reviewing!decide(kind)
    PROVE  ReviewIInv'
<1> DEFINE new == [kind |-> kind, here |-> TRUE, id |-> Reviewing!DecidesOn(kind),
                   step |-> review.step, told |-> review.shown.id]
<1>1. review \in ReviewPage /\ Reviewing!Reviewing /\ review.shown # Reviewing!Nothing
  BY PagesDiffer DEF Reviewing!decide, Reviewing!Reviewing, ReviewIInv
<1>2. review.shown.id \in Proposals /\ review.id \in Proposals /\ review.step \in Reviewing!Steps
  BY <1>1 DEF ReviewPage, Reviewing!Shown
<1>3. new \in DecisionCalls /\ (new.step = "verify-info" => new.id = new.told)
  BY <1>2 DEF DecisionCalls, Reviewing!DecidesOn
<1>4. reviewCalls' = reviewCalls \cup {new} /\ review' = [review EXCEPT !.submitting = TRUE]
      /\ UNCHANGED <<status, past>>
  BY DEF Reviewing!decide
<1> HIDE DEF new
<1>5. /\ review' \in ReviewPage
      /\ review'.shown = review.shown /\ review'.step = review.step
  BY <1>1, <1>4 DEF ReviewPage
<1>6. Fits(new, review')
  BY <1>3, <1>5, CallsDiffer DEF Fits
<1>7. review \notin ListPage /\ status \in [Proposals -> Reviewing!Statuses]
  BY <1>1, PagesDiffer DEF ReviewIInv
<1> QED BY <1>1, <1>4, <1>5, <1>6, <1>7, SamePage

\* Once it has succeeded the browser is at the list.
LEMMA DecisionEndsStep ==
    ASSUME ReviewIInv, NEW c \in reviewCalls, Reviewing!DecisionEnds(c)
    PROVE  ReviewIInv'
<1>1. c \in Reviewing!Decisions /\ status' \in [Proposals -> Reviewing!Statuses]
  BY DecidedType DEF Reviewing!DecisionEnds
<1>2. CASE Reviewing!Reviewing
  <2>1. review \in ReviewPage
    BY <1>2, PagesDiffer DEF ReviewIInv, Reviewing!Reviewing
  <2>2. past' \subseteq Proposals
    BY <1>2, <2>1 DEF Reviewing!DecisionEnds, ReviewIInv, ReviewPage
  <2> QED BY <1>1, <1>2, <2>2, ToListStep DEF Reviewing!DecisionEnds
<1>3. CASE ~Reviewing!Reviewing
  <2>1. review' = review /\ past' = past
      /\ reviewCalls' \subseteq reviewCalls
    BY <1>3 DEF Reviewing!DecisionEnds
  <2>2. review \in {Reviewing!Closed} \cup ListPage \cup ReviewPage
    BY DEF ReviewIInv
  <2> QED BY <1>1, <1>3, <2>1, <2>2, SamePage DEF Reviewing!Reviewing
<1> QED BY <1>2, <1>3

\* A decision fails: the review stays where it is, if it is still there.
LEMMA DecisionFailsStep ==
    ASSUME ReviewIInv, NEW c \in reviewCalls, Reviewing!DecisionFails(c)
    PROVE  ReviewIInv'
<1>1. c \in DecisionCalls /\ Fits(c, review)
  BY DecisionAt DEF Reviewing!DecisionFails
<1>2. status' \in [Proposals -> Reviewing!Statuses] /\ past' = past
      /\ reviewCalls' \subseteq reviewCalls
  BY DecidedType DEF Reviewing!DecisionFails, ReviewIInv
<1>3. CASE c.here
  <2>1. review \in ReviewPage /\ review \notin ListPage /\ Reviewing!Reviewing
    BY <1>1, <1>3, CallsDiffer, PagesDiffer DEF Fits, Reviewing!Reviewing
  <2>2. review' = [review EXCEPT !.submitting = FALSE]
    BY <1>3 DEF Reviewing!DecisionFails
  <2>3. review' \in ReviewPage /\ review'.shown = review.shown /\ review'.step = review.step
    BY <2>1, <2>2 DEF ReviewPage
  <2> QED BY <1>2, <2>1, <2>3, SamePage
<1>4. CASE ~c.here
  <2>1. review' = review /\ review \in {Reviewing!Closed} \cup ListPage \cup ReviewPage
    BY <1>4 DEF Reviewing!DecisionFails, ReviewIInv
  <2> QED BY <1>2, <2>1, SamePage DEF Reviewing!Reviewing
<1> QED BY <1>3, <1>4, <1>1 DEF DecisionCalls

-----------------------------------------------------------------------------
(* The answers                                                               *)

LEMMA ServeStep == ASSUME ReviewIInv, NEW c \in reviewCalls, Reviewing!Serve(c) PROVE ReviewIInv'
<1> DEFINE answer == IF c.kind = "list" THEN status ELSE [id |-> c.id, status |-> status[c.id]]
           new == [c EXCEPT !.answer = answer]
<1>1. Fits(c, review) /\ c \in ReviewListCalls \cup FetchCalls
      /\ status \in [Proposals -> Reviewing!Statuses]
  BY CallsDiffer DEF Reviewing!Serve, ReviewIInv, Fits
<1>2. Fits(new, review)
  <2>1. CASE c \in ReviewListCalls
    <3>1. answer \in [Proposals -> Reviewing!Statuses]
      BY <1>1, <2>1, CallsDiffer
    <3> HIDE DEF answer
    <3>2. new \in ReviewListCalls
      BY <2>1, <3>1 DEF ReviewListCalls
    <3> QED BY <1>1, <2>1, <3>2, CallsDiffer DEF Fits
  <2>2. CASE c \in FetchCalls
    <3>1. c.id \in Proposals /\ c.kind # "list"
      BY <2>2 DEF FetchCalls
    <3>2. answer \in Reviewing!Shown
      BY <1>1, <3>1 DEF Reviewing!Shown
    <3> HIDE DEF answer
    <3>3. new \in FetchCalls /\ new.here = c.here
      BY <2>2, <3>2 DEF FetchCalls
    <3> QED BY <1>1, <2>2, <3>3, CallsDiffer DEF Fits
  <2> QED BY <1>1, <2>1, <2>2
<1>3. reviewCalls' = (reviewCalls \ {c}) \cup {new} /\ UNCHANGED <<status, review, past>>
  BY DEF Reviewing!Serve
<1>4. review \in {Reviewing!Closed} \cup ListPage \cup ReviewPage
  BY DEF ReviewIInv
<1> HIDE DEF new
<1> QED BY <1>1, <1>2, <1>3, <1>4, SamePage DEF Reviewing!Reviewing

\* The list arrives.
LEMMA ListedStep == ASSUME ReviewIInv, NEW c \in reviewCalls, Reviewing!Listed(c) PROVE ReviewIInv'
<1>1. Fits(c, review) /\ c \in ReviewListCalls /\ status \in [Proposals -> Reviewing!Statuses]
  BY CallsDiffer DEF Reviewing!Listed, ReviewIInv, Fits
<1>2. review \in ListPage /\ c.answer \in [Proposals -> Reviewing!Statuses]
  BY <1>1 DEF Fits, ReviewListCalls, Reviewing!Listed
<1>3. review' = [review EXCEPT !.rows = c.answer] /\ reviewCalls' = reviewCalls \ {c}
      /\ UNCHANGED <<status, past>>
  BY DEF Reviewing!Listed
<1>4. review' \in ListPage
  BY <1>2, <1>3 DEF ListPage
<1> QED BY <1>1, <1>2, <1>3, <1>4, PagesDiffer, SamePage DEF Reviewing!Reviewing

\* The step that comes with a proposal is the one it needs.
LEMMA StepForType ==
    ASSUME NEW data \in Reviewing!Shown, NEW step \in Reviewing!Steps
    PROVE  /\ Reviewing!StepFor(data, step) \in Reviewing!Steps
           /\ data.status # "approved" =>
                (Reviewing!StepFor(data, step) = "verify-agreement" <=> data.status = "signed")
BY DEF Reviewing!StepFor, Reviewing!Steps, Reviewing!Shown, Reviewing!Statuses

\* A proposal arrives at its review, with the step that fits it.
LEMMA FetchedStep ==
    ASSUME ReviewIInv, NEW c \in reviewCalls, Reviewing!Fetched(c)
    PROVE  ReviewIInv'
<1> DEFINE step == Reviewing!StepFor(c.answer, review.step)
           Kept(d) == [d EXCEPT !.here = 
             d.here /\ (d \in Reviewing!Decisions => step = review.step)]
           submitting == review.submitting /\ step = review.step
           redirecting == review.redirecting \/ c.answer.status = "approved"
<1>1. Fits(c, review) /\ c \in FetchCalls /\ c.here /\ c.answer \in Reviewing!Shown
  BY CallsDiffer DEF Reviewing!Fetched, ReviewIInv, Fits, FetchCalls
<1>2. review \in ReviewPage
  BY <1>1, CallsDiffer DEF Fits
<1>3. /\ step \in Reviewing!Steps /\ submitting \in BOOLEAN /\ redirecting \in BOOLEAN
      /\ c.answer.status # "approved" => (step = "verify-agreement" <=> c.answer.status = "signed")
  BY <1>1, <1>2, StepForType DEF ReviewPage
<1>4. /\ review' = [review EXCEPT !.shown = c.answer, !.step = step, !.loading = FALSE,
                                  !.submitting = submitting, !.redirecting = redirecting]
      /\ reviewCalls' = {Kept(d) : d \in reviewCalls \ {c}}
      /\ UNCHANGED <<status, past>>
  BY DEF Reviewing!Fetched
<1>5. ASSUME NEW d \in reviewCalls, review' \in ReviewPage PROVE Fits(Kept(d), review')
  <2>1. Fits(d, review) /\ d \notin ReviewListCalls
    BY <1>2, PagesDiffer DEF ReviewIInv, Fits
  <2>2. (
             d.here /\ (d \in Reviewing!Decisions => step = review.step)) \in BOOLEAN
    OBVIOUS
  <2> QED BY <1>5, <2>1, <2>2, HereStays
<1> HIDE DEF step, submitting, redirecting
<1>6. review' \in ReviewPage /\ review'.shown = c.answer /\ review'.step = step
  BY <1>1, <1>2, <1>3, <1>4 DEF ReviewPage
<1>7. Reviewing!StepIsOfTheShown'
  BY <1>3, <1>6 DEF Reviewing!StepIsOfTheShown
<1>8. \A d \in reviewCalls' : Fits(d, review')
  BY <1>4, <1>5, <1>6
<1> QED BY <1>4, <1>6, <1>7, <1>8 DEF ReviewIInv

\* An answer for a review that is gone, or none, changes neither what is shown nor the step.
LEMMA LateSteps ==
    ASSUME ReviewIInv, NEW c \in reviewCalls, Reviewing!FetchedLate(c) \/ Reviewing!FetchFails(c)
    PROVE  ReviewIInv'
<1>1. /\ review' = review \/ review' = [review EXCEPT !.redirecting = TRUE]
         \/ review' = [review EXCEPT !.loading = FALSE]
      /\ review' # review => Reviewing!Reviewing
      /\ reviewCalls' = reviewCalls \ {c} /\ UNCHANGED <<status, past>>
  <2>1. CASE Reviewing!FetchedLate(c)
    BY <2>1 DEF Reviewing!FetchedLate
  <2>2. CASE Reviewing!FetchFails(c)
    <3>1. c.kind = "fetch" /\ c.here => Reviewing!Reviewing
      <4>1. Fits(c, review)
        BY DEF ReviewIInv
      <4> QED BY <4>1, CallsDiffer, PagesDiffer DEF Fits, Reviewing!Reviewing
    <3> QED BY <2>2, <3>1 DEF Reviewing!FetchFails
  <2> QED BY <2>1, <2>2
<1>2. status \in [Proposals -> Reviewing!Statuses]
      /\ review \in {Reviewing!Closed} \cup ListPage \cup ReviewPage
  BY DEF ReviewIInv
<1>3. CASE review' = review
  BY <1>1, <1>2, <1>3, SamePage DEF Reviewing!Reviewing
<1>4. CASE review' # review
  <2>1. review \in ReviewPage /\ review \notin ListPage /\ Reviewing!Reviewing
    BY <1>1, <1>2, <1>4, PagesDiffer DEF Reviewing!Reviewing
  <2>2. review' \in ReviewPage /\ review'.shown = review.shown /\ review'.step = review.step
    BY <1>1, <1>4, <2>1 DEF ReviewPage
  <2> QED BY <1>1, <1>2, <2>1, <2>2, SamePage
<1> QED BY <1>3, <1>4

\* The applicant changes the proposal, not the page.
LEMMA ApplicantStep ==
    ASSUME ReviewIInv, NEW id \in Proposals, Reviewing!Applicant(id)
    PROVE  ReviewIInv'
<1>1. status' \in [Proposals -> Reviewing!Statuses] /\ UNCHANGED <<review, reviewCalls, past>>
      /\ review \in {Reviewing!Closed} \cup ListPage \cup ReviewPage
  BY DEF ReviewIInv, Reviewing!Applicant, Reviewing!Statuses
<1> QED BY <1>1, SamePage DEF Reviewing!Reviewing

-----------------------------------------------------------------------------
\* Every step keeps the step of the page to what it shows, and every call to its page.
LEMMA ReviewIInvStep ==
    ReviewIInv /\ [Reviewing!Enter \/ Reviewing!Work]_(Reviewing!vars) => ReviewIInv'
<1> SUFFICES ASSUME ReviewIInv, [Reviewing!Enter \/ Reviewing!Work]_(Reviewing!vars)
             PROVE  ReviewIInv'
  OBVIOUS
<1>1. CASE Reviewing!Enter \/ Reviewing!Redirect \/ Reviewing!Leave
  BY <1>1, OpenSteps, ReviewLeaveStep
<1>2. ASSUME NEW id \in Proposals,
             Reviewing!handleVerifyClick(id) \/ Reviewing!Back(id) \/ Reviewing!Applicant(id)
      PROVE  ReviewIInv'
  BY <1>2, OpenSteps, BackStep, ApplicantStep
<1>3. ASSUME NEW kind \in {"approve", "reject", "complete"}, Reviewing!decide(kind)
      PROVE  ReviewIInv'
  BY <1>3, DecideStep
<1>4. ASSUME NEW c \in reviewCalls,
             \/ Reviewing!DecisionEnds(c) \/ Reviewing!DecisionFails(c) \/ Reviewing!Serve(c)
             \/ Reviewing!Listed(c)
             \/ Reviewing!Fetched(c) \/ Reviewing!FetchedLate(c) \/ Reviewing!FetchFails(c)
      PROVE  ReviewIInv'
  BY <1>4, DecisionEndsStep, DecisionFailsStep, ServeStep, ListedStep, FetchedStep, LateSteps
<1>5. CASE UNCHANGED Reviewing!vars
  BY <1>5 DEF Reviewing!vars, ReviewIInv, Fits, Reviewing!StepIsOfTheShown, Reviewing!Reviewing
<1> QED BY <1>1, <1>2, <1>3, <1>4, <1>5 DEF Reviewing!Work

\* The step of a review is that of the proposal on the screen, and a decision at
\* its first step goes to it ([id].tsx), whatever reviews and answers cross.
THEOREM ConsoleReviewsTheShown == Spec => []ReviewIsOfTheShown
<1>1. Init => ReviewIInv
  BY PagesAssumption, ReviewInitIInv DEF Init
<1>2. ReviewIInv /\ [Next]_vars => ReviewIInv'
  BY PagesAssumption, PagesStep, ReviewIInvStep
<1>3. ReviewIInv => ReviewIsOfTheShown
  BY Promised DEF ReviewIsOfTheShown
<1> QED BY <1>1, <1>2, <1>3, PTL DEF Spec

-----------------------------------------------------------------------------
(* AgreementForm: an agreement is added with a type that is on offer and with*)
(* credentials of its own.                                                   *)
\* The calls of the form carry what their kind needs.
FormListCalls == [kind : {"list"}, adding : BOOLEAN,
              answer : {Adding!Nothing} \cup [ids : SUBSET (1..MaxAgreements)]]
AddCalls == [kind : {"add"}, type : Adding!AllTypes, options : {TypesOf[m] : m \in BOOLEAN},
             auth : Adding!Auth, fresh : BOOLEAN]
RemoveCalls == [kind : {"remove"}, id : 1..MaxAgreements]
ProbeCalls == [kind : {"connection", "test"}]
Calls == FormListCalls \cup AddCalls \cup RemoveCalls \cup ProbeCalls
FormCallsOK == trayCalls \subseteq Calls /\ (tray = Adding!Closed => trayCalls = {})

\* The strengthening: at every moment the form itself has a type that is on offer,
\* and credentials only if they were typed since the last agreement.
FormFits ==
    tray # Adding!Closed =>
      /\ tray.type \in Adding!agreementTypeOptions(tray).all
      /\ tray.auth.value # Blank => tray.fresh

FormIInv == Adding!TypeOK /\ FormCallsOK /\ FormFits /\ Adding!EachAgreementIsItsOwn

-----------------------------------------------------------------------------
\* Whatever version the registry has, its types are among all, and the first is one.
LEMMA FormOffers ==
    ASSUME Adding!FormAssumption, NEW m \in BOOLEAN
    PROVE  TypesOf[m].all \subseteq Adding!AllTypes /\ TypesOf[m].first \in TypesOf[m].all
BY DEF Adding!FormAssumption, Adding!AllTypes

\* At first no agreement is being added.
LEMMA FormInitIInv == ASSUME Adding!FormAssumption PROVE Adding!Init => FormIInv
BY DEF Adding!FormAssumption, Adding!Init, FormIInv, Adding!TypeOK, FormCallsOK, FormFits,
    Adding!EachAgreementIsItsOwn,
       Adding!TypeIsOnOffer, Adding!CredentialsAreNotReused, Adding!Closed

\* Calls that are no additions, or were there before, ask nothing of the form.
LEMMA CallsStep ==
    ASSUME FormIInv, Adding!TypeOK', tray' # Adding!Closed, FormFits',
           \A c \in trayCalls' : 
              c \in trayCalls \/ c \in FormListCalls \cup RemoveCalls \cup ProbeCalls
    PROVE  FormIInv'
<1>1. FormCallsOK'
  BY DEF FormIInv, FormCallsOK, Calls
<1>2. Adding!EachAgreementIsItsOwn'
  BY DEF FormIInv, Adding!EachAgreementIsItsOwn, Adding!TypeIsOnOffer,
      Adding!CredentialsAreNotReused,
         FormListCalls, RemoveCalls, ProbeCalls
<1> QED BY <1>1, <1>2 DEF FormIInv

\* A form that is open has the shape of one.
LEMMA OpenForm ==
    ASSUME FormIInv, tray # Adding!Closed
    PROVE  tray \in Adding!Form
BY DEF FormIInv, Adding!TypeOK

\* There is a call only where there is a form.
LEMMA CallHasForm ==
    ASSUME FormIInv, NEW c \in trayCalls
    PROVE  tray # Adding!Closed /\ tray \in Adding!Form /\ c \in Calls
BY DEF FormIInv, Adding!TypeOK, FormCallsOK

\* What is kept to the types on offer fits, whatever it was before.
LEMMA ClampedFits ==
    ASSUME Adding!FormAssumption, NEW p \in Adding!Form
    PROVE  /\ Adding!Clamped(p) \in Adding!Form
           /\ Adding!Clamped(p).type \in Adding!agreementTypeOptions(Adding!Clamped(p)).all
           /\ Adding!Clamped(p).auth = p.auth /\ Adding!Clamped(p).fresh = p.fresh
<1>1. p.claimModel \in BOOLEAN
  BY DEF Adding!Form
<1>2. TypesOf[p.claimModel].first \in Adding!AllTypes
  BY <1>1, FormOffers
<1> QED BY <1>1, <1>2, FormOffers DEF Adding!Clamped, Adding!agreementTypeOptions, Adding!Form

\* What a reload sends is a call.
LEMMA ListCallType == \A b \in BOOLEAN : Adding!ListCall(b) \in FormListCalls
BY DEF Adding!ListCall, FormListCalls

\* No open form is the closed one.
LEMMA FormIsOpen == \A p \in Adding!Form : p # Adding!Closed
BY DEF Adding!Form, Adding!Closed

-----------------------------------------------------------------------------
(* What the administrator does                                               *)

LEMMA EnterStep == ASSUME Adding!FormAssumption, FormIInv, Adding!Enter PROVE FormIInv'
<1>1. TypesOf[FALSE].first \in Adding!AllTypes /\ TypesOf[FALSE].first \in TypesOf[FALSE].all
  BY FormOffers
<1>2. tray' \in Adding!Form /\ tray' # Adding!Closed
  BY <1>1, FormIsOpen DEF Adding!Enter, Adding!Form, Adding!Auth, Adding!NoAuth
<1>3. Adding!TypeOK'
  BY <1>2 DEF FormIInv, Adding!TypeOK, Adding!Enter
<1>4. FormFits'
  BY <1>1 DEF FormFits, Adding!Enter, Adding!agreementTypeOptions, Adding!NoAuth
<1>5. \A c \in trayCalls' : c \in FormListCalls \cup ProbeCalls
  <2>1. Adding!ListCall(FALSE) \in FormListCalls /\ [kind |-> "connection"] \in ProbeCalls
    BY ListCallType DEF ProbeCalls
  <2> QED BY <2>1 DEF Adding!Enter
<1> QED BY <1>2, <1>3, <1>4, <1>5, CallsStep

\* Typing, choosing and switching.
LEMMA FillStep ==
    ASSUME Adding!FormAssumption, FormIInv,
           \/ Adding!Fill \/ (\E m \in Methods \cup {"none"} : Adding!chooseMethod(m))
           \/ (\E v \in Credentials : Adding!typeCredential(v))
           \/ (\E v \in Credentials \cup {Blank} : Adding!updateAuthHeader(v))
    PROVE  FormIInv'
<1>1. tray \in Adding!Form /\ tray # Adding!Closed
  BY OpenForm DEF Adding!Fill, Adding!chooseMethod, Adding!typeCredential, Adding!updateAuthHeader
<1>2. Adding!agreementTypeOptions(tray).all \subseteq Adding!AllTypes
  BY <1>1, FormOffers DEF Adding!agreementTypeOptions, Adding!Form
<1>3. trayCalls' = trayCalls /\ UNCHANGED <<stored, added>>
  BY DEF Adding!Fill, Adding!chooseMethod, Adding!typeCredential, Adding!updateAuthHeader
<1>4. tray' \in Adding!Form /\ FormFits'
  <2>1. CASE Adding!Fill
    <3>1. ASSUME NEW t \in Adding!agreementTypeOptions(tray).all, tray' = [tray EXCEPT !.type = t]
          PROVE  tray' \in Adding!Form /\ FormFits'
      BY <1>1, <1>2, <3>1 DEF Adding!Form, FormFits, FormIInv, Adding!agreementTypeOptions
    <3>2. ASSUME NEW m \in {"file", "url"}, tray' = [tray EXCEPT !.mode = m]
          PROVE  tray' \in Adding!Form /\ FormFits'
      BY <1>1, <3>2 DEF Adding!Form, FormFits, FormIInv, Adding!agreementTypeOptions
    <3>3. ASSUME tray' = [tray EXCEPT !.filled = tray.filled \cup {tray.mode}]
          PROVE  tray' \in Adding!Form /\ FormFits'
      <4>1. tray.filled \cup {tray.mode} \in SUBSET {"file", "url"}
        BY <1>1 DEF Adding!Form
      <4> DEFINE modes == tray.filled \cup {tray.mode}
      <4>2. tray' = [tray EXCEPT !.filled = modes] /\ modes \in SUBSET {"file", "url"}
        BY <3>3, <4>1
      <4> HIDE DEF modes
      <4> QED BY <1>1, <4>2 DEF Adding!Form, FormFits, FormIInv, Adding!agreementTypeOptions
    <3> QED BY <2>1, <3>1, <3>2, <3>3 DEF Adding!Fill
  <2>2. ASSUME NEW m \in Methods \cup {"none"}, Adding!chooseMethod(m)
        PROVE  tray' \in Adding!Form /\ FormFits'
    <3>1. [method |-> m, value |-> Blank] \in Adding!Auth
      BY DEF Adding!Auth, Adding!NoAuth
    <3> QED BY <1>1, <2>2, <3>1 DEF Adding!chooseMethod, Adding!Form, FormFits, FormIInv,
        Adding!agreementTypeOptions
  <2>3. ASSUME NEW v \in Credentials \cup {Blank},
               Adding!typeCredential(v) \/ Adding!updateAuthHeader(v)
        PROVE  tray' \in Adding!Form /\ FormFits'
    <3>1. tray.auth \in Adding!Auth
      BY <1>1 DEF Adding!Form
    <3>2. tray.auth.method \in Methods => [tray.auth EXCEPT !.value = v] \in Adding!Auth
      BY <3>1 DEF Adding!Auth, Adding!NoAuth
    <3>3. CASE tray.auth.method \in Methods
      BY <1>1, <2>3, <3>2, <3>3
      DEF Adding!typeCredential, Adding!updateAuthHeader, Adding!Form, FormFits, FormIInv,
          Adding!agreementTypeOptions
    <3> QED BY <2>3, <3>3 DEF Adding!typeCredential, Adding!updateAuthHeader, Adding!FormAssumption
  <2> QED BY <2>1, <2>2, <2>3
<1>5. Adding!TypeOK'
  BY <1>3, <1>4 DEF FormIInv, Adding!TypeOK
<1> QED BY <1>3, <1>4, <1>5, CallsStep, FormIsOpen

\* The two buttons: what is sent is what the form holds, or no credentials at all.
LEMMA AddStep ==
    ASSUME Adding!FormAssumption, FormIInv,
           Adding!handleAddAgreementFile \/ Adding!handleAddAgreementUrl
    PROVE  FormIInv'
<1>1. tray \in Adding!Form /\ tray # Adding!Closed
  BY OpenForm DEF Adding!handleAddAgreementFile, Adding!handleAddAgreementUrl, Adding!MayAdd
<1>2. PICK auth \in {Adding!NoAuth, tray.auth} : Adding!Add(auth)
  BY DEF Adding!handleAddAgreementFile, Adding!handleAddAgreementUrl, Adding!buildAgreementAuth
<1> DEFINE new == [kind |-> "add", type |-> tray.type,
                   options |-> Adding!agreementTypeOptions(tray),
                   auth |-> auth, fresh |-> tray.fresh]
<1>3. auth \in Adding!Auth /\ (auth.value # Blank => tray.fresh)
  BY <1>1 DEF Adding!Form, Adding!Auth, Adding!NoAuth, FormIInv, FormFits
<1>4. new \in AddCalls /\ new.type \in new.options.all /\ (new.auth.value # Blank => new.fresh)
  BY <1>1, <1>3 DEF AddCalls, Adding!Form, Adding!agreementTypeOptions, FormIInv, FormFits
<1>5. trayCalls' = trayCalls \cup {new} /\ UNCHANGED <<stored, added>>
      /\ tray' = [tray EXCEPT !.busy = TRUE]
  BY <1>2 DEF Adding!Add
<1> HIDE DEF new
<1>6. tray' \in Adding!Form /\ tray' # Adding!Closed /\ FormFits'
  BY <1>1, <1>5, FormIsOpen DEF Adding!Form, FormFits, FormIInv, Adding!agreementTypeOptions
<1>7. Adding!TypeOK' /\ FormCallsOK'
  BY <1>4, <1>5, <1>6 DEF FormIInv, Adding!TypeOK, FormCallsOK, Calls
<1>8. Adding!EachAgreementIsItsOwn'
  BY <1>4, <1>5 DEF FormIInv, Adding!EachAgreementIsItsOwn, Adding!TypeIsOnOffer,
      Adding!CredentialsAreNotReused
<1> QED BY <1>6, <1>7, <1>8 DEF FormIInv

\* Removing and testing ask nothing of the form's fields.
LEMMA OtherCallStep ==
    ASSUME Adding!FormAssumption, FormIInv,
           Adding!handleTest \/ \E n \in 1..MaxAgreements : Adding!handleRemoveAgreement(n)
    PROVE  FormIInv'
<1>1. CASE Adding!handleTest
  <2>1. tray \in Adding!Form /\ tray # Adding!Closed
    BY <1>1, OpenForm DEF Adding!handleTest
  <2>2. tray' \in Adding!Form /\ tray' # Adding!Closed /\ FormFits'
    BY <1>1, <2>1, FormIsOpen DEF Adding!handleTest, Adding!Form, FormFits, FormIInv,
        Adding!agreementTypeOptions
  <2>3. Adding!TypeOK' /\ \A c \in trayCalls' : c \in trayCalls \/ c \in ProbeCalls
    BY <1>1, <2>2 DEF Adding!handleTest, FormIInv, Adding!TypeOK, ProbeCalls
  <2> QED BY <2>2, <2>3, CallsStep
<1>2. ASSUME NEW n \in 1..MaxAgreements, Adding!handleRemoveAgreement(n) PROVE FormIInv'
  <2>1. tray # Adding!Closed
    BY <1>2 DEF Adding!handleRemoveAgreement, Adding!Rows
  <2>2. Adding!TypeOK' /\ FormFits' /\ tray' # Adding!Closed
    BY <1>2, <2>1 DEF Adding!handleRemoveAgreement, FormIInv, Adding!TypeOK, FormFits,
        Adding!agreementTypeOptions
  <2>3. \A c \in trayCalls' : c \in trayCalls \/ c \in RemoveCalls
    BY <1>2 DEF Adding!handleRemoveAgreement, RemoveCalls
  <2> QED BY <2>2, <2>3, CallsStep
<1> QED BY <1>1, <1>2

\* The form is left, and nothing is listened to any more.
LEMMA FormLeaveStep == ASSUME FormIInv, Adding!Leave PROVE FormIInv'
<1>1. tray' = Adding!Closed /\ trayCalls' = {} /\ added' = added /\ stored' \subseteq stored
  BY DEF Adding!Leave
<1> QED BY <1>1 DEF FormIInv, Adding!TypeOK, FormCallsOK, FormFits, Adding!EachAgreementIsItsOwn,
    Adding!TypeIsOnOffer,
                    Adding!CredentialsAreNotReused

-----------------------------------------------------------------------------
(* The answers                                                               *)

\* After an addition the credentials are gone and the type is on offer again.
LEMMA AddedStep ==
    ASSUME Adding!FormAssumption, FormIInv, NEW c \in trayCalls, Adding!Added(c)
    PROVE  FormIInv'
<1> DEFINE p == Adding!resetAgreementForm(tray, c.options)
<1>1. tray \in Adding!Form /\ c \in AddCalls
  BY CallHasForm DEF Adding!Added, Calls, FormListCalls, RemoveCalls, ProbeCalls
<1>2. PICK m \in BOOLEAN : c.options = TypesOf[m]
  BY <1>1 DEF AddCalls
<1>3. c.options.first \in Adding!AllTypes /\ Adding!NoAuth \in Adding!Auth
      /\ Adding!NoAuth.value = Blank
  BY <1>2, FormOffers DEF Adding!Auth, Adding!NoAuth
<1>4. p \in Adding!Form /\ p.auth.value = Blank
  BY <1>1, <1>3 DEF Adding!resetAgreementForm, Adding!Form
<1>5. tray' = Adding!Clamped(p) /\ added' = added + 1 /\ stored' = stored \cup {added + 1}
      /\ added < MaxAgreements
      /\ trayCalls' = (trayCalls \ {c}) \cup {Adding!ListCall(TRUE)}
  BY DEF Adding!Added
<1> HIDE DEF p
<1>6. tray' \in Adding!Form /\ tray' # Adding!Closed /\ FormFits'
  BY <1>4, <1>5, ClampedFits, FormIsOpen DEF FormFits
<1>7. Adding!TypeOK'
  <2>1. added \in 0..MaxAgreements /\ stored \subseteq 1..added /\ MaxAgreements \in Nat
    BY DEF FormIInv, Adding!TypeOK, Adding!FormAssumption
  <2>2. added' \in 0..MaxAgreements /\ stored' \subseteq 1..added'
    BY <1>5, <2>1
  <2> QED BY <1>6, <2>2 DEF Adding!TypeOK
<1>8. \A d \in trayCalls' : d \in trayCalls \/ d \in FormListCalls
  BY <1>5, ListCallType
<1> QED BY <1>6, <1>7, <1>8, CallsStep

\* A refused or lost addition leaves the form as it was.
LEMMA AddFailsStep ==
    ASSUME Adding!FormAssumption, FormIInv, NEW c \in trayCalls, Adding!AddFails(c)
    PROVE  FormIInv'
<1>1. tray \in Adding!Form /\ tray' = [tray EXCEPT !.busy = FALSE] /\ trayCalls' = trayCalls \ {c}
  BY CallHasForm DEF Adding!AddFails
<1>2. tray' \in Adding!Form /\ tray' # Adding!Closed /\ FormFits'
  BY <1>1, FormIsOpen DEF Adding!Form, FormFits, FormIInv, Adding!agreementTypeOptions
<1>3. Adding!TypeOK'
  <2>1. CASE UNCHANGED <<stored, added>>
    BY <1>2, <2>1 DEF FormIInv, Adding!TypeOK
  <2>2. CASE added < MaxAgreements /\ added' = added + 1 /\ stored' = stored \cup {added + 1}
    BY <1>2, <2>2 DEF FormIInv, Adding!TypeOK, Adding!FormAssumption
  <2> QED BY <2>1, <2>2 DEF Adding!AddFails
<1> QED BY <1>1, <1>2, <1>3, CallsStep

\* A removal ends.
LEMMA RemovalSteps ==
    ASSUME FormIInv, NEW c \in trayCalls, Adding!Removed(c) \/ Adding!RemoveFails(c)
    PROVE  FormIInv'
<1>1. tray' = tray /\ added' = added /\ stored' \subseteq stored
  BY DEF Adding!Removed, Adding!RemoveFails
<1>2. Adding!TypeOK' /\ FormFits' /\ tray' # Adding!Closed
  BY <1>1, CallHasForm DEF FormIInv, Adding!TypeOK, FormFits, Adding!agreementTypeOptions
<1>3. \A d \in trayCalls' : d \in trayCalls \/ d \in FormListCalls
  BY ListCallType DEF Adding!Removed, Adding!RemoveFails
<1> QED BY <1>2, <1>3, CallsStep

\* Another version has other types: the type is kept to them.
LEMMA ProbeSteps ==
    ASSUME Adding!FormAssumption, FormIInv, NEW c \in trayCalls,
           (\E m \in BOOLEAN : Adding!Probed(c, m)) \/ Adding!ProbeFails(c)
    PROVE  FormIInv'
<1>1. tray \in Adding!Form /\ trayCalls' = trayCalls \ {c} /\ UNCHANGED <<stored, added>>
  BY CallHasForm DEF Adding!Probed, Adding!ProbeFails
<1> DEFINE testing == tray.testing /\ c.kind # "test"
<1>2. tray' \in Adding!Form /\ tray' # Adding!Closed /\ FormFits'
  <2>1. ASSUME NEW m \in BOOLEAN, Adding!Probed(c, m) PROVE tray' \in Adding!Form /\ FormFits'
    <3> DEFINE p == [tray EXCEPT !.claimModel = m, !.testing = testing]
    <3>1. tray' = Adding!Clamped(p)
      BY <2>1 DEF Adding!Probed
    <3>2. p \in Adding!Form /\ p.auth = tray.auth /\ p.fresh = tray.fresh
      BY <1>1 DEF Adding!Form
    <3> HIDE DEF p
    <3>3. tray.auth.value # Blank => tray.fresh
      BY <1>1, CallHasForm DEF FormIInv, FormFits
    <3> QED BY <3>1, <3>2, <3>3, ClampedFits DEF FormFits
  <2>2. ASSUME Adding!ProbeFails(c) PROVE tray' \in Adding!Form /\ FormFits'
    <3>1. tray' = [tray EXCEPT !.testing = testing] /\ testing \in BOOLEAN
      BY <2>2 DEF Adding!ProbeFails
    <3> HIDE DEF testing
    <3>2. tray # Adding!Closed
      BY CallHasForm
    <3> QED BY <1>1, <3>1, <3>2 DEF Adding!Form, FormFits, FormIInv, Adding!agreementTypeOptions
  <2>3. tray' \in Adding!Form /\ FormFits'
    BY <2>1, <2>2
  <2> QED BY <2>3, FormIsOpen
<1>3. Adding!TypeOK'
  BY <1>1, <1>2 DEF FormIInv, Adding!TypeOK
<1> QED BY <1>1, <1>2, <1>3, CallsStep

\* A reload is served and arrives.
LEMMA FormListSteps ==
    ASSUME Adding!FormAssumption, FormIInv, NEW c \in trayCalls, Adding!Serve(c) \/ Adding!Listed(c)
    PROVE  FormIInv'
<1>1. tray \in Adding!Form /\ tray # Adding!Closed /\ c \in FormListCalls
      /\ UNCHANGED <<stored, added>>
  BY CallHasForm DEF Adding!Serve, Adding!Listed, Calls, AddCalls, RemoveCalls, ProbeCalls
<1>2. CASE Adding!Serve(c)
  <2> DEFINE next == [c EXCEPT !.answer = [ids |-> stored]]
  <2>1. stored \in SUBSET (1..MaxAgreements)
    BY DEF FormIInv, Adding!TypeOK, Adding!FormAssumption
  <2>2. next \in FormListCalls
    BY <1>1, <2>1 DEF FormListCalls
  <2>3. trayCalls' = (trayCalls \ {c}) \cup {next} /\ tray' = tray
    BY <1>2 DEF Adding!Serve
  <2> HIDE DEF next
  <2>4. Adding!TypeOK' /\ FormFits'
    BY <1>1, <2>3 DEF FormIInv, Adding!TypeOK, FormFits, Adding!agreementTypeOptions
  <2> QED BY <1>1, <2>2, <2>3, <2>4, CallsStep
<1>3. CASE Adding!Listed(c)
  <2> DEFINE busy == tray.busy /\ ~c.adding
             rows == IF c.answer = Adding!Nothing THEN tray.rows ELSE c.answer.ids
  <2>1. tray' = [tray EXCEPT !.busy = busy, !.rows = rows] /\ trayCalls' = trayCalls \ {c}
    BY <1>3 DEF Adding!Listed
  <2>2. busy \in BOOLEAN
    OBVIOUS
  <2>3. rows \in SUBSET (1..MaxAgreements)
    BY <1>1 DEF Adding!Form, FormListCalls
  <2> HIDE DEF busy, rows
  <2>4. tray' \in Adding!Form /\ FormFits'
    BY <1>1, <2>1, <2>2, <2>3 DEF Adding!Form, FormFits, FormIInv, Adding!agreementTypeOptions
  <2>5. Adding!TypeOK'
    BY <1>1, <2>4 DEF FormIInv, Adding!TypeOK
  <2> QED BY <2>1, <2>4, <2>5, CallsStep, FormIsOpen
<1> QED BY <1>2, <1>3

-----------------------------------------------------------------------------
\* Every step keeps the type on offer and the credentials to their agreement.
LEMMA FormIInvStep ==
    ASSUME Adding!FormAssumption
    PROVE  FormIInv /\ [Adding!Enter \/ Adding!Work]_(Adding!vars) => FormIInv'
<1> SUFFICES ASSUME FormIInv, [Adding!Enter \/ Adding!Work]_(Adding!vars) PROVE FormIInv'
  OBVIOUS
<1>1. CASE Adding!Enter
  BY <1>1, EnterStep
<1>2. CASE \/ Adding!Fill \/ Adding!handleAddAgreementFile \/ Adding!handleAddAgreementUrl
           \/ Adding!handleTest \/ Adding!Leave
  BY <1>2, FillStep, AddStep, OtherCallStep, FormLeaveStep
<1>3. CASE \/ \E m \in Methods \cup {"none"} : Adding!chooseMethod(m)
           \/ \E v \in Credentials : Adding!typeCredential(v)
           \/ \E v \in Credentials \cup {Blank} : Adding!updateAuthHeader(v)
  BY <1>3, FillStep
<1>4. CASE \E n \in 1..MaxAgreements : Adding!handleRemoveAgreement(n)
  BY <1>4, OtherCallStep
<1>5. ASSUME NEW c \in trayCalls,
             \/ Adding!Added(c) \/ Adding!Removed(c) \/ Adding!AddFails(c) \/ Adding!RemoveFails(c)
             \/ \E m \in BOOLEAN : Adding!Probed(c, m)
             \/ Adding!ProbeFails(c) \/ Adding!Serve(c) \/ Adding!Listed(c)
      PROVE  FormIInv'
  BY <1>5, AddedStep, AddFailsStep, RemovalSteps, ProbeSteps, FormListSteps
<1>6. CASE UNCHANGED Adding!vars
  BY <1>6 DEF Adding!vars, FormIInv, Adding!TypeOK, FormCallsOK, FormFits,
      Adding!EachAgreementIsItsOwn, Adding!TypeIsOnOffer,
              Adding!CredentialsAreNotReused, Adding!agreementTypeOptions
<1> QED BY <1>1, <1>2, <1>3, <1>4, <1>5, <1>6 DEF Adding!Work

\* An agreement is added with a type its form offered, and never with credentials
\* typed for the one before (handleAddAgreementUrl, resetAgreementForm).
THEOREM ConsoleAddsAgreementsApart == Spec => []EachAgreementIsItsOwn
<1>1. Init => FormIInv
  BY PagesAssumption, FormInitIInv DEF Init
<1>2. FormIInv /\ [Next]_vars => FormIInv'
  BY PagesAssumption, PagesStep, FormIInvStep
<1>3. FormIInv => EachAgreementIsItsOwn
  BY DEF FormIInv, EachAgreementIsItsOwn
<1> QED BY <1>1, <1>2, <1>3, PTL DEF Spec

-----------------------------------------------------------------------------
(* UserAccounts: nobody hears of a half made account.                        *)
\* The calls of the page carry what their kind needs.
CreateCall == [kind : {"create"}, at : {"post", "find", "assign", "invite"},
               email : Emails, role : Roles, id : Users!AccountIds]
DeleteCall == [kind : {"delete"}, id : Users!AccountIds]
ListCall == [kind : {"list"}, answer : {Users!Nothing} \cup [ids : SUBSET Users!AccountIds]]
UserCallsOK == userCalls \subseteq CreateCall \cup DeleteCall \cup ListCall

\* The strengthening: a creation that has come to the invitation has given its
\* account the role, unless the account is gone by now. Ids are not used twice,
\* so an account made later is never the one it means.
RoleIsGiven ==
    \A c \in userCalls :
      (c.kind = "create" /\ c.at \in {"assign", "invite"}) =>
        /\ c.id <= made
        /\ (c.at = "invite" /\ c.id \in DOMAIN accounts) => c.role \in accounts[c.id].roles

AccountsFit == accounts = [i \in DOMAIN accounts |-> accounts[i]]

UserIInv == Users!TypeOK /\ AccountsFit /\ UserCallsOK /\ RoleIsGiven /\ Users!AccountsAreWhole

-----------------------------------------------------------------------------
\* At first there is the administrator's own account, and nothing under way.
LEMMA UserInitIInv == ASSUME Users!AccountsAssumption PROVE Users!Init => UserIInv
BY DEF Users!AccountsAssumption, Users!Init, UserIInv, Users!TypeOK, AccountsFit, UserCallsOK,
    RoleIsGiven, Users!AccountsAreWhole,
       Users!InvitedHasRole, Users!ReportedIsComplete, Users!Account, Users!Closed, Users!Self,
       Users!Nothing

\* A step that touches neither the accounts nor adds or moves creations, and reports none.
LEMMA Untouched ==
    ASSUME UserIInv, UNCHANGED <<accounts, made>>, reported' = Users!Nothing,
           screen' \in {Users!Closed} \cup Users!Page,
           \A c \in userCalls' : c \in userCalls \/ c \in DeleteCall \cup ListCall
               \/ (c \in CreateCall /\ c.at = "post")
    PROVE  UserIInv'
<1>1. Users!TypeOK' /\ AccountsFit'
  BY DEF UserIInv, Users!TypeOK, AccountsFit
<1>2. UserCallsOK'
  BY DEF UserIInv, UserCallsOK
<1>3. RoleIsGiven'
  BY DEF UserIInv, RoleIsGiven, DeleteCall, ListCall
<1>4. Users!AccountsAreWhole'
  BY DEF UserIInv, Users!AccountsAreWhole, Users!InvitedHasRole, Users!ReportedIsComplete
<1> QED BY <1>1, <1>2, <1>3, <1>4 DEF UserIInv

\* A removal takes one account away and leaves the others, and every creation, as they are.
LEMMA Removal ==
    ASSUME UserIInv, NEW id, accounts' = Users!Without(id), made' = made, reported' = Users!Nothing,
           screen' \in {Users!Closed} \cup Users!Page,
           \A c \in userCalls' : c \in userCalls \/ c \in ListCall
    PROVE  UserIInv'
<1>1. /\ DOMAIN accounts' = DOMAIN accounts \ {id}
      /\ \A i \in DOMAIN accounts' : accounts'[i] = accounts[i]
  BY DEF Users!Without
<1>2. Users!TypeOK' /\ AccountsFit'
  BY <1>1 DEF UserIInv, Users!TypeOK, AccountsFit, Users!Without
<1>3. UserCallsOK' /\ RoleIsGiven'
  BY <1>1 DEF UserIInv, UserCallsOK, RoleIsGiven, ListCall
<1>4. Users!AccountsAreWhole'
  BY <1>1 DEF UserIInv, Users!AccountsAreWhole, Users!InvitedHasRole, Users!ReportedIsComplete
<1> QED BY <1>2, <1>3, <1>4 DEF UserIInv

-----------------------------------------------------------------------------
(* What the administrator does                                               *)

LEMMA PageSteps ==
    ASSUME Users!AccountsAssumption, UserIInv,
           \/ Users!Enter \/ Users!Dialog \/ Users!createUser
           \/ (\E id \in Users!AccountIds : Users!deleteUser(id))
    PROVE  UserIInv'
<1> USE DEF Users!Realm, Users!Quiet
<1>1. CASE Users!Enter
  <2>1. screen' \in Users!Page
    BY <1>1 DEF Users!Enter, Users!Page, Users!Form, Users!newUserData, Users!AccountsAssumption
  <2>2. Users!List \in ListCall
    BY DEF Users!List, ListCall
  <2> QED BY <1>1, <2>1, <2>2, Untouched DEF Users!Enter
<1>2. CASE Users!Dialog
  <2>1. screen \in Users!Page
    BY <1>2 DEF Users!Dialog, UserIInv, Users!TypeOK
  <2>2. screen' \in Users!Page
    BY <1>2, <2>1 DEF Users!Dialog, Users!Page, Users!Form
  <2> QED BY <1>2, <2>2, Untouched DEF Users!Dialog
<1>3. CASE Users!createUser
  <2> DEFINE new == [kind |-> "create", at |-> "post", email |-> screen.form.email,
                     role |-> screen.form.role, id |-> Users!Self]
  <2>1. screen \in Users!Page /\ screen.form.email # Blank
    BY <1>3 DEF Users!createUser, UserIInv, Users!TypeOK
  <2>2. new \in CreateCall /\ new.at = "post"
    BY <2>1 DEF CreateCall, Users!Page, Users!Form, Users!Self, Users!AccountIds,
        Users!AccountsAssumption
  <2>3. userCalls' = userCalls \cup {new}
    BY <1>3 DEF Users!createUser
  <2> HIDE DEF new
  <2> QED BY <1>3, <2>1, <2>2, <2>3, Untouched DEF Users!createUser
<1>4. ASSUME NEW id \in Users!AccountIds, Users!deleteUser(id) PROVE UserIInv'
  <2>1. [kind |-> "delete", id |-> id] \in DeleteCall
    BY DEF DeleteCall
  <2>2. screen' \in {Users!Closed} \cup Users!Page
    BY <1>4 DEF Users!deleteUser, UserIInv, Users!TypeOK
  <2> QED BY <1>4, <2>1, <2>2, Untouched DEF Users!deleteUser
<1> QED BY <1>1, <1>2, <1>3, <1>4

\* Leaving the page keeps its creations going, and may have removed one account.
LEMMA UserLeaveStep == ASSUME UserIInv, Users!Leave PROVE UserIInv'
<1>1. /\ screen' \in {Users!Closed} \cup Users!Page /\ reported' = Users!Nothing /\ made' = made
      /\ \A c \in userCalls' : c \in userCalls
  BY DEF Users!Leave, Users!Quiet
<1>2. CASE UNCHANGED accounts
  BY <1>1, <1>2, Untouched
<1>3. ASSUME NEW id, accounts' = Users!Without(id) PROVE UserIInv'
  BY <1>1, <1>3, Removal
<1> QED BY <1>2, <1>3 DEF Users!Leave

-----------------------------------------------------------------------------
(* CreateUser                                                                *)

\* What a reload and a failure leave of the page.
LEMMA PageAfter ==
    ASSUME Users!TypeOK
    PROVE  /\ Users!Reloading(screen) \in {Users!Closed} \cup Users!Page
           /\ Users!Failed(screen) \in {Users!Closed} \cup Users!Page
           /\ \A c : \A d \in Users!AfterChange(c) : d \in userCalls \/ d \in ListCall
<1>1. /\ Users!Reloading(screen) \in {Users!Closed} \cup Users!Page
      /\ Users!Failed(screen) \in {Users!Closed} \cup Users!Page
  BY DEF Users!TypeOK, Users!Reloading, Users!Failed, Users!Page, Users!Closed
<1>2. Users!List \in ListCall
  BY DEF Users!List, ListCall
<1> QED BY <1>1, <1>2 DEF Users!AfterChange

\* Keycloak's new account has an id no creation can have found before.
LEMMA PostStep ==
    ASSUME Users!AccountsAssumption, UserIInv, NEW c \in CreateCall, c \in userCalls, Users!Post(c)
    PROVE  UserIInv'
<1> DEFINE n == made + 1
           new == [email |-> c.email, roles |-> {}, invited |-> FALSE]
           next == [c EXCEPT !.at = "find"]
<1>1. /\ made \in Nat /\ made < MaxAccounts /\ n \in 0..MaxAccounts /\ made' = n
      /\ DOMAIN accounts \subseteq 0..made /\ n \notin DOMAIN accounts
  BY DEF UserIInv, Users!TypeOK, Users!Post, Users!AccountsAssumption
<1>2. /\ DOMAIN accounts' = DOMAIN accounts \cup {n} /\ accounts'[n] = new
      /\ \A i \in DOMAIN accounts : accounts'[i] = accounts[i]
      /\ AccountsFit'
  BY <1>1 DEF Users!Post, AccountsFit
<1>3. next \in CreateCall /\ next.at = "find"
  BY DEF CreateCall
<1>4. /\ userCalls' = (userCalls \ {c}) \cup {next} /\ screen' = screen /\ reported' = Users!Nothing
  BY DEF Users!Post, Users!At, Users!Quiet
<1>5. new \in Users!Account /\ ~new.invited
  BY DEF Users!Account, CreateCall
<1> HIDE DEF new, next
<1>6. Users!TypeOK'
  BY <1>1, <1>2, <1>4, <1>5 DEF UserIInv, Users!TypeOK
<1>7. UserCallsOK'
  BY <1>3, <1>4 DEF UserIInv, UserCallsOK
<1>8. RoleIsGiven'
  <2>1. \A d \in CreateCall : d.id \in Nat
    BY Users!AccountsAssumption DEF CreateCall, Users!AccountIds
  <2>2. ASSUME NEW d \in userCalls', d.kind = "create", d.at \in {"assign", "invite"}
        PROVE  d \in userCalls /\ d \in CreateCall /\ d.id <= made
    BY <1>3, <1>4, <2>2 DEF UserIInv, UserCallsOK, RoleIsGiven, DeleteCall, ListCall
  <2> QED BY <1>1, <1>2, <2>1, <2>2 DEF UserIInv, RoleIsGiven
<1>9. Users!AccountsAreWhole'
  BY <1>2, <1>4, <1>5 DEF UserIInv, Users!AccountsAreWhole, Users!InvitedHasRole,
      Users!ReportedIsComplete
<1> QED BY <1>2, <1>6, <1>7, <1>8, <1>9 DEF UserIInv

\* The account that has the user name is the one the creation goes on with.
LEMMA FindStep ==
    ASSUME Users!AccountsAssumption, UserIInv, NEW c \in CreateCall, c \in userCalls,
           Users!findUserIDByUsername(c)
    PROVE  UserIInv'
<1>1. PICK i \in DOMAIN accounts : Users!At(c, [c EXCEPT !.at = "assign", !.id = i])
  BY DEF Users!findUserIDByUsername
<1> DEFINE next == [c EXCEPT !.at = "assign", !.id = i]
<1>2. i \in Users!AccountIds /\ i <= made
  BY DEF UserIInv, Users!TypeOK, Users!AccountIds, Users!AccountsAssumption
<1>3. next \in CreateCall /\ next.at = "assign" /\ next.id = i
  BY <1>2 DEF CreateCall
<1>4. userCalls' = (userCalls \ {c}) \cup {next}
      /\ UNCHANGED <<accounts, made, screen>> /\ reported' = Users!Nothing
  BY <1>1 DEF Users!At, Users!findUserIDByUsername, Users!Realm, Users!Quiet
<1> HIDE DEF next
<1>5. Users!TypeOK' /\ AccountsFit' /\ Users!AccountsAreWhole'
  BY <1>4 DEF UserIInv, Users!TypeOK, AccountsFit, Users!AccountsAreWhole, Users!InvitedHasRole,
      Users!ReportedIsComplete
<1>6. UserCallsOK'
  BY <1>3, <1>4 DEF UserIInv, UserCallsOK
<1>7. RoleIsGiven'
  BY <1>2, <1>3, <1>4 DEF UserIInv, RoleIsGiven
<1> QED BY <1>5, <1>6, <1>7 DEF UserIInv

\* The role is given to the account that was found, and no account loses one.
LEMMA AssignStep ==
    ASSUME Users!AccountsAssumption, UserIInv, NEW c \in CreateCall, c \in userCalls,
           Users!assignClientRole(c)
    PROVE  UserIInv'
<1> DEFINE next == [c EXCEPT !.at = "invite"]
           old == accounts[c.id]
<1>1. /\ c.id \in DOMAIN accounts /\ c.id <= made /\ old \in Users!Account
      /\ c.role \in Roles
  BY DEF UserIInv, Users!TypeOK, RoleIsGiven, Users!assignClientRole, CreateCall
<1>2. accounts' = [accounts EXCEPT ![c.id].roles = old.roles \cup {c.role}]
      /\ userCalls' = (userCalls \ {c}) \cup {next}
      /\ UNCHANGED <<made, screen>> /\ reported' = Users!Nothing
  BY DEF Users!assignClientRole, Users!At, Users!Quiet
<1>3. next \in CreateCall /\ next.kind = "create" /\ next.at = "invite"
      /\ next.id = c.id /\ next.role = c.role
  BY DEF CreateCall
<1> HIDE DEF next
<1>4. /\ DOMAIN accounts' = DOMAIN accounts /\ AccountsFit'
      /\ accounts'[c.id] = [old EXCEPT !.roles = old.roles \cup {c.role}]
      /\ \A i \in DOMAIN accounts : i # c.id => accounts'[i] = accounts[i]
  BY <1>1, <1>2 DEF UserIInv, AccountsFit
<1>5. /\ accounts'[c.id] \in Users!Account
      /\ accounts'[c.id].roles = old.roles \cup {c.role}
      /\ accounts'[c.id].invited = old.invited
  BY <1>1, <1>4 DEF Users!Account
<1>6. Users!TypeOK'
  BY <1>2, <1>4, <1>5 DEF UserIInv, Users!TypeOK
<1>7. UserCallsOK'
  BY <1>2, <1>3 DEF UserIInv, UserCallsOK
<1>8. RoleIsGiven'
  BY <1>1, <1>2, <1>3, <1>4, <1>5 DEF UserIInv, RoleIsGiven
<1>9. Users!AccountsAreWhole'
  BY <1>1, <1>2, <1>4, <1>5 DEF UserIInv, Users!AccountsAreWhole, Users!InvitedHasRole,
      Users!ReportedIsComplete
<1> QED BY <1>4, <1>6, <1>7, <1>8, <1>9 DEF UserIInv

\* The invitation goes to an account that has the role, and only then is it reported.
LEMMA InviteStep ==
    ASSUME Users!AccountsAssumption, UserIInv, NEW c \in CreateCall, c \in userCalls,
           Users!Invite(c)
    PROVE  UserIInv'
<1> DEFINE old == accounts[c.id]
<1>1. /\ c.id \in DOMAIN accounts /\ c.role \in old.roles /\ old \in Users!Account
  BY DEF UserIInv, Users!TypeOK, RoleIsGiven, Users!Invite, CreateCall
<1>2. /\ DOMAIN accounts' = DOMAIN accounts /\ AccountsFit'
      /\ accounts'[c.id] = [old EXCEPT !.invited = TRUE]
      /\ \A i \in DOMAIN accounts : i # c.id => accounts'[i] = accounts[i]
  BY <1>1 DEF UserIInv, AccountsFit, Users!Invite
<1>3. /\ accounts'[c.id] \in Users!Account /\ accounts'[c.id].roles = old.roles
      /\ accounts'[c.id].invited
  BY <1>1, <1>2 DEF Users!Account
<1>4. reported' = [id |-> c.id, role |-> c.role] /\ made' = made
      /\ userCalls' = Users!AfterChange(c)
  BY DEF Users!Invite
<1>5. screen' \in {Users!Closed} \cup Users!Page
  <2>1. screen.open => screen \in Users!Page
    BY DEF UserIInv, Users!TypeOK, Users!Closed
  <2> QED
    BY <2>1 DEF Users!Invite, Users!Reloading, Users!Page, Users!Form, Users!newUserData,
        Users!AccountsAssumption, UserIInv, Users!TypeOK
<1>6. Users!TypeOK'
  BY <1>2, <1>3, <1>4, <1>5 DEF UserIInv, Users!TypeOK
<1>7. \A d \in userCalls' : d \in userCalls \/ d \in ListCall
  BY <1>4, PageAfter DEF UserIInv
<1>8. UserCallsOK'
  BY <1>7 DEF UserIInv, UserCallsOK
<1>9. RoleIsGiven'
  <2>1. \A i \in DOMAIN accounts : accounts'[i].roles = accounts[i].roles
    BY <1>2, <1>3
  <2> QED BY <1>2, <1>4, <1>7, <2>1 DEF UserIInv, RoleIsGiven, ListCall
<1>10. Users!AccountsAreWhole'
  BY <1>1, <1>2, <1>3, <1>4 DEF UserIInv, Users!AccountsAreWhole, Users!InvitedHasRole,
      Users!ReportedIsComplete
<1> QED BY <1>2, <1>6, <1>8, <1>9, <1>10 DEF UserIInv

\* A creation, at whichever of its four calls it is.
LEMMA CreationStep ==
    ASSUME Users!AccountsAssumption, UserIInv, NEW c \in userCalls, Users!Creation(c)
    PROVE  UserIInv'
<1>1. c \in CreateCall
  BY DEF Users!Creation, UserIInv, UserCallsOK, DeleteCall, ListCall
<1>2. CASE Users!CreateFails(c)
  BY <1>2, Untouched, PageAfter DEF Users!CreateFails, Users!Realm, Users!Quiet, UserIInv
<1> QED
  BY <1>1, <1>2, PostStep, FindStep, AssignStep, InviteStep DEF Users!Creation

-----------------------------------------------------------------------------
(* Deletions and the list                                                    *)

LEMMA DeletionSteps ==
    ASSUME UserIInv, \/ \E c \in userCalls : Users!DeleteUser(c) \/ Users!DeleteFails(c)
                 \/ \E id \in Users!AccountIds : Users!OthersDelete(id)
    PROVE  UserIInv'
<1>1. ASSUME NEW c \in userCalls, Users!DeleteUser(c) PROVE UserIInv'
  BY <1>1, Removal, PageAfter DEF Users!DeleteUser, Users!Quiet, UserIInv
<1>2. ASSUME NEW c \in userCalls, Users!DeleteFails(c) PROVE UserIInv'
  <2>1. CASE accounts' = accounts
    BY <1>2, <2>1, Untouched, PageAfter DEF Users!DeleteFails, Users!Quiet, UserIInv
  <2>2. ASSUME NEW id, accounts' = Users!Without(id) PROVE UserIInv'
    BY <1>2, <2>2, Removal, PageAfter DEF Users!DeleteFails, Users!Quiet, UserIInv
  <2> QED BY <1>2, <2>1, <2>2 DEF Users!DeleteFails
<1>3. ASSUME NEW id \in Users!AccountIds, Users!OthersDelete(id) PROVE UserIInv'
  BY <1>3, Removal DEF Users!OthersDelete, Users!Quiet, UserIInv, Users!TypeOK
<1> QED BY <1>1, <1>2, <1>3

\* A list of the users is asked for, arrives or fails.
LEMMA UserListSteps ==
    ASSUME Users!AccountsAssumption, UserIInv, NEW c \in userCalls,
           Users!ListUsers(c) \/ Users!Listed(c) \/ Users!ListFails(c)
    PROVE  UserIInv'
<1>1. screen \in {Users!Closed} \cup Users!Page /\ c \in ListCall
  BY DEF UserIInv, Users!TypeOK, Users!ListUsers, Users!Listed, Users!ListFails, UserCallsOK,
      CreateCall, DeleteCall
<1>2. DOMAIN accounts \subseteq Users!AccountIds
  BY DEF UserIInv, Users!TypeOK, Users!AccountIds, Users!AccountsAssumption
<1>3. CASE Users!ListUsers(c)
  <2>1. [c EXCEPT !.answer = [ids |-> DOMAIN accounts]] \in ListCall
    BY <1>1, <1>2 DEF ListCall
  <2> QED BY <1>3, <2>1, Untouched DEF Users!ListUsers, Users!Realm, Users!Quiet, UserIInv,
      Users!TypeOK
<1>4. CASE Users!Listed(c)
  <2>1. c.answer.ids \in SUBSET Users!AccountIds
    BY <1>1, <1>4 DEF Users!Listed, ListCall
  <2>2. screen' \in {Users!Closed} \cup Users!Page
    BY <1>1, <1>4, <2>1 DEF Users!Listed, Users!Page, Users!Closed
  <2> QED BY <1>4, <2>2, Untouched DEF Users!Listed, Users!Realm, Users!Quiet
<1>5. CASE Users!ListFails(c)
  <2>1. screen' \in {Users!Closed} \cup Users!Page
    BY <1>1, <1>5 DEF Users!ListFails, Users!Page, Users!Closed
  <2> QED BY <1>5, <2>1, Untouched DEF Users!ListFails, Users!Realm, Users!Quiet
<1> QED BY <1>3, <1>4, <1>5

-----------------------------------------------------------------------------
\* Every step of the page, of Keycloak and of other administrators keeps accounts whole.
LEMMA UserIInvStep ==
    ASSUME Users!AccountsAssumption
    PROVE  UserIInv /\ [Users!Enter \/ Users!Work]_(Users!vars) => UserIInv'
<1> SUFFICES ASSUME UserIInv, [Users!Enter \/ Users!Work]_(Users!vars) PROVE UserIInv'
  OBVIOUS
<1>1. CASE Users!Enter \/ Users!Dialog \/ Users!createUser
  BY <1>1, PageSteps
<1>2. CASE Users!Leave
  BY <1>2, UserLeaveStep
<1>3. ASSUME NEW id \in Users!AccountIds, Users!deleteUser(id) \/ Users!OthersDelete(id)
      PROVE  UserIInv'
  BY <1>3, PageSteps, DeletionSteps
<1>4. ASSUME NEW c \in userCalls,
             \/ Users!Creation(c) \/ Users!DeleteUser(c) \/ Users!DeleteFails(c)
             \/ Users!ListUsers(c) \/ Users!Listed(c) \/ Users!ListFails(c)
      PROVE  UserIInv'
  BY <1>4, CreationStep, DeletionSteps, UserListSteps
<1>5. CASE UNCHANGED Users!vars
  BY <1>5 DEF Users!vars, UserIInv, Users!TypeOK, AccountsFit, UserCallsOK, RoleIsGiven,
      Users!AccountsAreWhole,
              Users!InvitedHasRole, Users!ReportedIsComplete
<1> QED BY <1>1, <1>2, <1>3, <1>4, <1>5 DEF Users!Work

\* Nobody is invited to an account without a role, and a creation reported as done
\* gave its account both (CreateUser), whatever fails or is deleted beside it.
THEOREM ConsoleMakesWholeAccounts == Spec => []AccountsAreWhole
<1>1. Init => UserIInv
  BY PagesAssumption, UserInitIInv DEF Init
<1>2. UserIInv /\ [Next]_vars => UserIInv'
  BY PagesAssumption, PagesStep, UserIInvStep
<1>3. UserIInv => AccountsAreWhole
  BY DEF UserIInv, AccountsAreWhole
<1> QED BY <1>1, <1>2, <1>3, PTL DEF Spec

-----------------------------------------------------------------------------
(* ParticipantList: the newest request asks for the query of the controls,    *)
(* and only a page that has been measured asks or shows.                      *)
Newest(c, l) == ~c.orphan /\ c.req = l.req

ListFits(l, requests) ==
    /\ l \in Participants!Page
    /\ l.rows # Participants!NoRows => l.rows.query = Participants!QueryOf(l)
    /\ l.size = 0 => l.rows = Participants!NoRows /\ \A c \in requests : c.orphan
    /\ \A c \in requests :
          /\ ~c.orphan => c.req <= l.req
          /\ Newest(c, l) => c.query = Participants!QueryOf(l)
    /\ l.loading /\ l.size # 0 => \E c \in requests : Newest(c, l)

StoreFits(s) == s \in Seq(Participants!Answer) /\ Len(s) <= CacheMax

ListIInv ==
    /\ asked \subseteq Participants!Request /\ StoreFits(listCache)
    /\ listState \in Participants!View
    /\ \/ list = Participants!Closed /\ \A c \in asked : c.orphan
       \/ ListFits(list, asked)

-----------------------------------------------------------------------------
\* A mounted page is not the closed one, and rows are not their absence.
LEMMA ListPageIs ==
    /\ Participants!Closed \notin Participants!Page
    /\ Participants!NoRows \notin Participants!Answer
BY DEF Participants!Closed, Participants!Page, Participants!NoRows, Participants!Answer

\* What the bounds of the list say of its first values.
LEMMA ListFacts ==
    ASSUME Participants!ListAssumption
    PROVE  /\ 1 \in 1..MaxPages /\ 0 \in 0..MaxRequests /\ 0 \notin Sizes
           /\ MaxPages \in Nat /\ MaxRequests \in Nat /\ CacheMax \in Nat /\ 0 < CacheMax
BY DEF Participants!ListAssumption

\* At first the page is closed and nothing is remembered.
LEMMA ListInitIInv == Participants!ListAssumption /\ Participants!Init => ListIInv
<1> SUFFICES ASSUME Participants!ListAssumption, Participants!Init PROVE ListIInv
  OBVIOUS
<1>1. StoreFits(listCache)
  BY ListFacts DEF Participants!Init, StoreFits
<1>2. listState \in Participants!View
  BY ListFacts DEF Participants!Init, Participants!FirstView, Participants!View,
                   Participants!ListAssumption
<1> QED BY <1>1, <1>2 DEF Participants!Init, ListIInv

\* What the controls of a measured page ask for is a query.
LEMMA QueryIs ==
    ASSUME NEW l \in Participants!Page
    PROVE  /\ l.size # 0 => Participants!QueryOf(l) \in Participants!Query
           /\ Participants!QueryOf(l).size = l.size
           /\ l.req \in 0..MaxRequests
           /\ l.rows # Participants!NoRows => l.rows \in Participants!Answer
BY DEF Participants!Page, Participants!QueryOf, Participants!Query, Participants!View

\* The store of answers keeps its bound.
LEMMA StoreIsKept ==
    ASSUME Participants!ListAssumption, StoreFits(listCache), NEW a \in Participants!Answer,
           Participants!cacheParticipantsList(a)
    PROVE  StoreFits(listCache')
<1>1. PICK n \in Nat : n = Len(listCache)
  BY DEF StoreFits
<1>2. listCache \in Seq(Participants!Answer) /\ n <= CacheMax /\ DOMAIN listCache = 1..n
  BY <1>1 DEF StoreFits
<1>3. PICK hit : hit = Participants!Hit(a.query)
  OBVIOUS
<1>4. CASE hit # {}
  <2>1. listCache' = [i \in 1..n |-> IF i \in hit THEN a ELSE listCache[i]]
    BY <1>2, <1>3, <1>4 DEF Participants!cacheParticipantsList
  <2>2. \A i \in 1..n : listCache[i] \in Participants!Answer
    BY <1>1, <1>2
  <2>3. listCache' \in [1..n -> Participants!Answer]
    BY <2>1, <2>2
  <2>4. listCache' \in Seq(Participants!Answer) /\ Len(listCache') = n
    BY <2>3
  <2> QED BY <1>2, <2>4 DEF StoreFits
<1>5. CASE hit = {} /\ n >= CacheMax
  <2>1. listCache' = Append(Tail(listCache), a)
    BY <1>1, <1>3, <1>5 DEF Participants!cacheParticipantsList
  <2>2. n = CacheMax /\ n \in Nat \ {0} /\ listCache # <<>>
    BY <1>1, <1>2, <1>5, ListFacts
  <2>3. Tail(listCache) \in Seq(Participants!Answer) /\ Len(Tail(listCache)) = n - 1
    BY <1>1, <1>2, <2>2
  <2>4. listCache' \in Seq(Participants!Answer) /\ Len(listCache') = n - 1 + 1
    BY <2>1, <2>3
  <2> QED BY <2>2, <2>4 DEF StoreFits
<1>6. CASE hit = {} /\ ~(n >= CacheMax)
  <2>1. listCache' = Append(listCache, a)
    BY <1>1, <1>3, <1>6 DEF Participants!cacheParticipantsList
  <2>2. n + 1 <= CacheMax
    BY <1>6, ListFacts
  <2>3. listCache' \in Seq(Participants!Answer) /\ Len(listCache') = n + 1
    BY <1>1, <1>2, <2>1
  <2> QED BY <2>2, <2>3 DEF StoreFits
<1> QED BY <1>4, <1>5, <1>6

\* What load() shows before its answer answers the query it asks.
LEMMA ShownIs ==
    ASSUME Participants!ListAssumption, StoreFits(listCache), NEW l \in Participants!Page,
           l.req < MaxRequests, NEW q, q = Participants!Shown(l)
    PROVE  /\ q \in Participants!Page /\ q.size = l.size /\ q.req = l.req + 1
           /\ Participants!QueryOf(q) = Participants!QueryOf(l)
           /\ q.rows # Participants!NoRows => q.rows.query = Participants!QueryOf(l)
<1>0. l.req \in 0..MaxRequests /\ MaxRequests \in Nat
  BY ListFacts DEF Participants!Page
<1>1. PICK k \in 0..MaxRequests : k = l.req + 1
  BY <1>0
<1>2. CASE Participants!Hit(Participants!QueryOf(l)) # {}
  <2>1. PICK i \in Participants!Hit(Participants!QueryOf(l)) :
           i = CHOOSE j \in Participants!Hit(Participants!QueryOf(l)) : TRUE
    BY <1>2
  <2>2. PICK a : a = listCache[i]
    OBVIOUS
  <2>3. a.query = Participants!QueryOf(l)
    BY <2>1, <2>2 DEF Participants!Hit
  <2>4. a \in Participants!Answer
    <3>1. i \in DOMAIN listCache /\ listCache \in Seq(Participants!Answer)
      BY <2>1 DEF Participants!Hit, StoreFits
    <3> QED BY <2>2, <3>1
  <2>5. q = [l EXCEPT !.rows = a, !.total = a.total, !.loading = FALSE, !.error = FALSE, !.req = k]
    BY <1>1, <1>2, <2>1, <2>2 DEF Participants!Shown, Participants!Page
  <2>6. a.total \in 1..MaxPages
    BY <2>4 DEF Participants!Answer
  <2>7. /\ q \in Participants!Page /\ q.size = l.size /\ q.req = k /\ q.view = l.view /\ q.rows = a
    BY <2>4, <2>5, <2>6 DEF Participants!Page
  <2> QED BY <1>1, <2>3, <2>7 DEF Participants!QueryOf
<1>3. CASE Participants!Hit(Participants!QueryOf(l)) = {}
  <2>1. q = [l EXCEPT !.rows = Participants!NoRows, !.total = 1, !.loading = TRUE,
                      !.error = FALSE, !.req = k]
    BY <1>1, <1>3 DEF Participants!Shown, Participants!Page
  <2>2. /\ q \in Participants!Page /\ q.size = l.size /\ q.req = k /\ q.view = l.view
        /\ q.rows = Participants!NoRows
    BY <2>1, ListFacts DEF Participants!Page
  <2> QED BY <1>1, <2>2 DEF Participants!QueryOf
<1> QED BY <1>2, <1>3

\* A load of a page that fits but for its rows and its newest request.
LEMMA LoadIs ==
    ASSUME Participants!ListAssumption, ListIInv, list # Participants!Closed,
           NEW l \in Participants!Page, l.size # 0, l.req = list.req,
           Participants!load(l), UNCHANGED listCache, listState' \in Participants!View
    PROVE  ListIInv'
<1>0. /\ ListFits(list, asked) /\ list \in Participants!Page /\ StoreFits(listCache)
      /\ asked \subseteq Participants!Request /\ MaxRequests \in Nat
      /\ l.req \in 0..MaxRequests /\ l.req < MaxRequests
  BY ListFacts, QueryIs DEF ListIInv, ListFits, Participants!load
<1>1. PICK q : q = Participants!Shown(l)
  OBVIOUS
<1>2. /\ q \in Participants!Page /\ q.size = l.size /\ q.req = l.req + 1
      /\ Participants!QueryOf(q) = Participants!QueryOf(l)
      /\ q.rows # Participants!NoRows => q.rows.query = Participants!QueryOf(l)
  BY <1>0, <1>1, ShownIs
<1>3. PICK k \in 1..MaxRequests : k = l.req + 1
  BY <1>0
<1>4. PICK d : d = [req |-> k, query |-> Participants!QueryOf(l),
                    cached |-> Participants!Hit(Participants!QueryOf(l)) # {}, orphan |-> FALSE]
  OBVIOUS
<1>5. d \in Participants!Request /\ d.req = k /\ d.query = Participants!QueryOf(l) /\ ~d.orphan
  BY <1>3, <1>4, QueryIs DEF Participants!Request
<1>6. list' = q /\ asked' = asked \cup {d}
  BY <1>1, <1>3, <1>4 DEF Participants!load
<1>7. \A c \in asked : ~c.orphan => c.req < k
  <2>1. ASSUME NEW c \in asked, ~c.orphan PROVE c.req < k
    <3>1. c.req <= l.req /\ c.req \in 1..MaxRequests
      BY <1>0, <2>1 DEF ListFits, Participants!Request
    <3> QED BY <1>0, <1>3, <3>1
  <2> QED BY <2>1
<1>8. \A c \in asked' : /\ ~c.orphan => c.req <= q.req
                        /\ Newest(c, q) => c.query = Participants!QueryOf(q)
  <2>1. ASSUME NEW c \in asked, ~c.orphan PROVE c.req <= q.req /\ c.req # q.req
    <3>1. c.req \in 1..MaxRequests /\ c.req < k
      BY <1>0, <1>7, <2>1 DEF Participants!Request
    <3> QED BY <1>2, <1>3, <3>1
  <2>2. d.req <= q.req
    BY <1>2, <1>3, <1>5
  <2> QED BY <1>2, <1>5, <1>6, <2>1, <2>2 DEF Newest
<1>9. \E c \in asked' : Newest(c, q)
  BY <1>2, <1>3, <1>5, <1>6 DEF Newest
<1>10. ListFits(q, asked')
  BY <1>2, <1>8, <1>9 DEF ListFits
<1>11. ListFits(list, asked)'
  BY <1>6, <1>10 DEF ListFits, Participants!QueryOf, Newest
<1>12. asked' \subseteq Participants!Request /\ StoreFits(listCache')
  BY <1>0, <1>5, <1>6
<1> QED BY <1>11, <1>12 DEF ListIInv, StoreFits

\* A page that asks nothing new.
LEMMA StillFits ==
    ASSUME NEW l, NEW requests, ListFits(l, requests), NEW q \in Participants!Page,
           q.rows = l.rows, q.req = l.req, q.loading = l.loading, q.size = l.size,
           Participants!QueryOf(q) = Participants!QueryOf(l)
    PROVE  ListFits(q, requests)
BY DEF ListFits, Newest

\* Whatever the administrator changes, the page renders with its query.
LEMMA RenderedIs ==
    ASSUME Participants!ListAssumption, ListIInv, list # Participants!Closed,
           NEW l \in Participants!Page, l.req = list.req, l.rows = list.rows,
           l.loading = list.loading, l.size = list.size \/ l.size # 0,
           Participants!Rendered(l), UNCHANGED listCache
    PROVE  ListIInv'
<1>0. /\ ListFits(list, asked) /\ list \in Participants!Page
      /\ listState' \in Participants!View
  BY DEF ListIInv, ListFits, Participants!Rendered, Participants!Page
<1>1. CASE Participants!QueryOf(l) # Participants!QueryOf(list) /\ l.size # 0
  BY <1>0, <1>1, LoadIs DEF Participants!Rendered
<1>2. CASE ~(Participants!QueryOf(l) # Participants!QueryOf(list) /\ l.size # 0)
  <2>1. list' = l /\ asked' = asked
    BY <1>2 DEF Participants!Rendered
  <2>2. ListFits(l, asked)
    <3>1. CASE Participants!QueryOf(l) = Participants!QueryOf(list)
      <4>1. l.size = list.size
        BY <1>0, <3>1, QueryIs
      <4> QED BY <1>0, <3>1, <4>1, StillFits
    <3>2. CASE l.size = 0
      <4>1. /\ list.size = 0 /\ l.rows = Participants!NoRows
            /\ \A c \in asked : c.orphan
        BY <1>0, <3>2 DEF ListFits
      <4> QED BY <3>2, <4>1 DEF ListFits, Newest
    <3> QED BY <1>2, <3>1, <3>2
  <2>3. ListFits(list, asked)'
    BY <2>1, <2>2 DEF ListFits, Participants!QueryOf, Newest
  <2> QED BY <1>0, <2>1, <2>3 DEF ListIInv, StoreFits
<1> QED BY <1>1, <1>2

\* The controls: whatever is typed, filtered, turned or measured, load() follows.
LEMMA ListOperator ==
    ASSUME Participants!ListAssumption, ListIInv,
           \/ Participants!ApplyTerm \/ Participants!Refresh
           \/ \E n \in Sizes : Participants!Measure(n)
           \/ \E text \in Terms : Participants!Type(text)
           \/ \E f \in Filters : Participants!ChangeFilter(f)
           \/ \E n \in 1..MaxPages : Participants!GoToPage(n)
    PROVE  ListIInv'
<1>0. /\ list # Participants!Closed => list \in Participants!Page /\ list.view \in Participants!View
      /\ listState \in Participants!View
  BY DEF ListIInv, ListFits, Participants!Page
\* A change of the view.
<1>v. ASSUME list # Participants!Closed, NEW v \in Participants!View, NEW b \in BOOLEAN,
             NEW l, l = [list EXCEPT !.view = v, !.debounce = b],
             Participants!Rendered(l), UNCHANGED listCache
      PROVE  ListIInv'
  <2>1. /\ l \in Participants!Page /\ l.req = list.req /\ l.rows = list.rows
        /\ l.loading = list.loading /\ l.size = list.size
    BY <1>0, <1>v DEF Participants!Page
  <2> QED BY <1>v, <2>1, RenderedIs
<1>1. CASE Participants!ApplyTerm
  <2>1. list # Participants!Closed /\ list \in Participants!Page
    BY <1>0, <1>1 DEF Participants!ApplyTerm
  <2>2. PICK v : v = [list.view EXCEPT !.term = list.view.search, !.page = 1]
    OBVIOUS
  <2>3. v \in Participants!View
    BY <1>0, <2>1, <2>2, ListFacts DEF Participants!View
  <2>4. PICK l : l = [list EXCEPT !.view = v, !.debounce = FALSE]
    OBVIOUS
  <2>5. l = [list EXCEPT !.view.term = list.view.search, !.view.page = 1, !.debounce = FALSE]
    BY <2>1, <2>2, <2>4 DEF Participants!Page
  <2>6. Participants!Rendered(l) /\ UNCHANGED listCache
    BY <1>1, <2>5 DEF Participants!ApplyTerm
  <2> QED BY <1>v, <2>1, <2>3, <2>4, <2>6
<1>2. CASE Participants!Refresh
  <2>1. list # Participants!Closed /\ list \in Participants!Page /\ list.size # 0
          /\ listState' \in Participants!View
    BY <1>0, <1>2 DEF Participants!Refresh
  <2> QED BY <1>2, <2>1, LoadIs DEF Participants!Refresh
<1>3. ASSUME NEW n \in Sizes, Participants!Measure(n) PROVE ListIInv'
  <2>1. list # Participants!Closed /\ list \in Participants!Page /\ n # 0
    BY <1>0, <1>3, ListFacts DEF Participants!Measure
  <2>2. PICK m \in 1..MaxPages : m = IF list.size = 0 THEN list.view.page ELSE 1
    BY <1>0, <2>1, ListFacts DEF Participants!View
  <2>3. PICK v : v = [list.view EXCEPT !.page = m]
    OBVIOUS
  <2>4. v \in Participants!View
    BY <1>0, <2>1, <2>3 DEF Participants!View
  <2>5. PICK l : l = [list EXCEPT !.size = n, !.view = v]
    OBVIOUS
  <2>6. /\ l \in Participants!Page /\ l.req = list.req /\ l.rows = list.rows
        /\ l.loading = list.loading /\ l.size = n
    BY <2>1, <2>4, <2>5 DEF Participants!Page
  <2>7. l = [list EXCEPT !.size = n,
                         !.view.page = IF list.size = 0 THEN list.view.page ELSE 1]
    BY <2>1, <2>2, <2>3, <2>5 DEF Participants!Page
  <2>8. Participants!Rendered(l) /\ UNCHANGED listCache
    BY <1>3, <2>7 DEF Participants!Measure
  <2> QED BY <2>1, <2>6, <2>8, RenderedIs
<1>4. ASSUME NEW text \in Terms, Participants!Type(text) PROVE ListIInv'
  <2>1. list # Participants!Closed /\ list \in Participants!Page
    BY <1>0, <1>4 DEF Participants!Type
  <2>2. PICK v : v = [list.view EXCEPT !.search = text]
    OBVIOUS
  <2>3. v \in Participants!View
    BY <1>0, <2>1, <2>2 DEF Participants!View
  <2>4. PICK l : l = [list EXCEPT !.view = v, !.debounce = TRUE]
    OBVIOUS
  <2>5. l = [list EXCEPT !.view.search = text, !.debounce = TRUE]
    BY <2>1, <2>2, <2>4 DEF Participants!Page
  <2>6. Participants!Rendered(l) /\ UNCHANGED listCache
    BY <1>4, <2>5 DEF Participants!Type
  <2> QED BY <1>v, <2>1, <2>3, <2>4, <2>6
<1>5. ASSUME NEW f \in Filters, Participants!ChangeFilter(f) PROVE ListIInv'
  <2>1. list # Participants!Closed /\ list \in Participants!Page /\ list.debounce \in BOOLEAN
    BY <1>0, <1>5 DEF Participants!ChangeFilter, Participants!Page
  <2>2. PICK v : v = [list.view EXCEPT !.filter = f, !.page = 1]
    OBVIOUS
  <2>3. v \in Participants!View
    BY <1>0, <2>1, <2>2, ListFacts DEF Participants!View
  <2>4. PICK l : l = [list EXCEPT !.view = v, !.debounce = list.debounce]
    OBVIOUS
  <2>5. l = [list EXCEPT !.view.filter = f, !.view.page = 1]
    BY <2>1, <2>2, <2>4 DEF Participants!Page
  <2>6. Participants!Rendered(l) /\ UNCHANGED listCache
    BY <1>5, <2>5 DEF Participants!ChangeFilter
  <2> QED BY <1>v, <2>1, <2>3, <2>4, <2>6
<1>6. ASSUME NEW n \in 1..MaxPages, Participants!GoToPage(n) PROVE ListIInv'
  <2>1. list # Participants!Closed /\ list \in Participants!Page /\ list.debounce \in BOOLEAN
    BY <1>0, <1>6 DEF Participants!GoToPage, Participants!Page
  <2>2. PICK v : v = [list.view EXCEPT !.page = n]
    OBVIOUS
  <2>3. v \in Participants!View
    BY <1>0, <2>1, <2>2 DEF Participants!View
  <2>4. PICK l : l = [list EXCEPT !.view = v, !.debounce = list.debounce]
    OBVIOUS
  <2>5. l = [list EXCEPT !.view.page = n]
    BY <2>1, <2>2, <2>4 DEF Participants!Page
  <2>6. Participants!Rendered(l) /\ UNCHANGED listCache
    BY <1>6, <2>5 DEF Participants!GoToPage
  <2> QED BY <1>v, <2>1, <2>3, <2>4, <2>6
<1> QED BY <1>1, <1>2, <1>3, <1>4, <1>5, <1>6

\* A request is gone, and the newest one was answered or is still there.
LEMMA RequestEnds ==
    ASSUME ListIInv, NEW c \in asked, asked' = asked \ {c}, UNCHANGED listState,
           StoreFits(listCache'),
           \/ ~Newest(c, list) /\ list' = list
           \/ /\ list # Participants!Closed
              /\ list' \in Participants!Page /\ ~list'.loading /\ list'.req = list.req
              /\ list'.size = list.size /\ list'.view = list.view
              /\ list'.rows # Participants!NoRows => list'.rows.query = Participants!QueryOf(list)
              /\ list.size # 0
    PROVE  ListIInv'
<1>1. asked' \subseteq Participants!Request /\ StoreFits(listCache)' /\ listState' \in Participants!View
  BY DEF ListIInv, StoreFits
<1>2. CASE list = Participants!Closed
  <2>1. list \notin Participants!Page
    BY <1>2, ListPageIs
  <2>2. list' = list /\ \A d \in asked : d.orphan
    BY <1>2, <2>1 DEF ListIInv, ListFits
  <2> QED BY <1>1, <1>2, <2>2 DEF ListIInv
<1>3. CASE ListFits(list, asked) /\ ~Newest(c, list) /\ list' = list
  <2>1. ListFits(list, asked \ {c})
    BY <1>3 DEF ListFits
  <2>2. ListFits(list, asked)'
    BY <1>3, <2>1 DEF ListFits, Participants!QueryOf, Newest
  <2> QED BY <1>1, <2>2 DEF ListIInv
<1>4. CASE /\ ListFits(list, asked)
           /\ list' \in Participants!Page /\ ~list'.loading /\ list'.req = list.req
           /\ list'.size = list.size /\ list'.view = list.view
           /\ list'.rows # Participants!NoRows => list'.rows.query = Participants!QueryOf(list)
           /\ list.size # 0
  <2>1. Participants!QueryOf(list)' = Participants!QueryOf(list)
    BY <1>4 DEF Participants!QueryOf
  <2>2. \A d \in asked' : /\ ~d.orphan => d.req <= list'.req
                          /\ Newest(d, list) => d.query = Participants!QueryOf(list)
    BY <1>4 DEF ListFits
  <2>3. ListFits(list, asked)'
    BY <1>4, <2>1, <2>2 DEF ListFits, Newest
  <2> QED BY <1>1, <2>3 DEF ListIInv
<1> QED BY <1>2, <1>3, <1>4 DEF ListIInv

\* An answer arrives, in time or late.
LEMMA AnsweredIs ==
    ASSUME Participants!ListAssumption, ListIInv, NEW c \in asked,
           NEW total \in 1..MaxPages, NEW some \in BOOLEAN,
           Participants!Answered(c, [query |-> c.query, total |-> total, some |-> some])
    PROVE  ListIInv'
<1>0. /\ c \in Participants!Request /\ c.query \in Participants!Query /\ StoreFits(listCache)
      /\ asked' = asked \ {c} /\ UNCHANGED listState
  BY DEF ListIInv, Participants!Request, Participants!Answered
<1>1. PICK a : a = [query |-> c.query, total |-> total, some |-> some]
  OBVIOUS
<1>2. a \in Participants!Answer /\ a.query = c.query /\ a.total = total
  BY <1>0, <1>1 DEF Participants!Answer
<1>3. CASE ~Participants!IsNewest(c)
  <2>1. ~Newest(c, list) /\ list' = list /\ listCache' = listCache
    BY <1>3 DEF Participants!Answered, Participants!IsNewest, Newest
  <2> QED BY <1>0, <2>1, RequestEnds
<1>4. CASE Participants!IsNewest(c)
  <2>1. StoreFits(listCache')
    BY <1>0, <1>1, <1>2, <1>4, StoreIsKept DEF Participants!Answered
  <2>2. CASE c.orphan
    <3>1. list' = list /\ ~Newest(c, list)
      BY <1>4, <2>2 DEF Participants!Answered, Newest
    <3> QED BY <1>0, <2>1, <3>1, RequestEnds
  <2>3. CASE ~c.orphan
    <3>1. ListFits(list, asked) /\ Newest(c, list) /\ list \in Participants!Page
      BY <1>4, <2>3 DEF ListIInv, ListFits, Newest, Participants!IsNewest
    <3>2. c.query = Participants!QueryOf(list) /\ list.size # 0 /\ list # Participants!Closed
      BY <2>3, <3>1, ListPageIs DEF ListFits
    <3>3. PICK q : q = [list EXCEPT !.loading = FALSE, !.total = total, !.rows = a]
      OBVIOUS
    <3>4. list' = q
      BY <1>1, <1>2, <1>4, <2>3, <3>3 DEF Participants!Answered
    <3>5. /\ q \in Participants!Page /\ ~q.loading /\ q.req = list.req
          /\ q.size = list.size /\ q.view = list.view /\ q.rows = a
      BY <1>2, <3>1, <3>3 DEF Participants!Page
    <3> QED BY <1>0, <1>2, <2>1, <3>2, <3>4, <3>5, RequestEnds
  <2> QED BY <1>0, <2>2, <2>3 DEF Participants!Request
<1> QED BY <1>3, <1>4

\* A request fails, in time or late.
LEMMA ListFails ==
    ASSUME Participants!ListAssumption, ListIInv, NEW c \in asked, Participants!Failed(c)
    PROVE  ListIInv'
<1>0. /\ c \in Participants!Request /\ StoreFits(listCache')
      /\ asked' = asked \ {c} /\ UNCHANGED listState
  BY DEF ListIInv, Participants!Request, Participants!Failed, StoreFits
<1>1. CASE c.orphan \/ ~Participants!IsNewest(c)
  <2>1. list' = list /\ ~Newest(c, list)
    BY <1>1 DEF Participants!Failed, Participants!IsNewest, Newest
  <2> QED BY <1>0, <2>1, RequestEnds
<1>2. CASE ~c.orphan /\ Participants!IsNewest(c)
  <2>1. ListFits(list, asked) /\ Newest(c, list) /\ list \in Participants!Page
    BY <1>2 DEF ListIInv, ListFits, Newest, Participants!IsNewest
  <2>2. /\ list.size # 0 /\ list # Participants!Closed
        /\ list.rows # Participants!NoRows => list.rows.query = Participants!QueryOf(list)
    BY <1>2, <2>1, ListPageIs DEF ListFits
  <2>3. CASE c.cached
    <3>1. PICK q : q = [list EXCEPT !.loading = FALSE]
      OBVIOUS
    <3>2. list' = q
      BY <1>2, <2>3, <3>1 DEF Participants!Failed
    <3>3. /\ q \in Participants!Page /\ ~q.loading /\ q.req = list.req
          /\ q.size = list.size /\ q.view = list.view /\ q.rows = list.rows
      BY <2>1, <3>1 DEF Participants!Page
    <3> QED BY <1>0, <2>2, <3>2, <3>3, RequestEnds
  <2>4. CASE ~c.cached
    <3>1. PICK q : q = [list EXCEPT !.loading = FALSE, !.error = TRUE,
                                    !.rows = Participants!NoRows, !.total = 1]
      OBVIOUS
    <3>2. list' = q
      BY <1>2, <2>4, <3>1 DEF Participants!Failed
    <3>3. /\ q \in Participants!Page /\ ~q.loading /\ q.req = list.req
          /\ q.size = list.size /\ q.view = list.view /\ q.rows = Participants!NoRows
      BY <2>1, <3>1, ListFacts DEF Participants!Page
    <3> QED BY <1>0, <2>2, <3>2, <3>3, RequestEnds
  <2> QED BY <2>3, <2>4
<1> QED BY <1>1, <1>2

\* Every step of the page keeps its rows to its query.
LEMMA ListIInvStep ==
    ASSUME Participants!ListAssumption, ListIInv,
           [Participants!Enter \/ Participants!Work]_(Participants!vars)
    PROVE  ListIInv'
<1>1. CASE UNCHANGED Participants!vars
  BY <1>1 DEF Participants!vars, ListIInv, ListFits, StoreFits, Newest, Participants!QueryOf
<1>2. CASE Participants!Enter
  <2>1. PICK q : q = [open |-> TRUE, view |-> listState, size |-> 0, debounce |-> FALSE,
                      rows |-> Participants!NoRows, total |-> 1, loading |-> TRUE,
                      error |-> FALSE, req |-> 0]
    OBVIOUS
  <2>2. /\ q \in Participants!Page /\ q.size = 0 /\ q.rows = Participants!NoRows
    BY <2>1, ListFacts DEF Participants!Page, ListIInv
  <2>3. \A c \in asked : c.orphan
    BY <1>2, ListPageIs DEF Participants!Enter, ListIInv, ListFits
  <2>4. list' = q /\ UNCHANGED <<asked, listCache, listState>>
    BY <1>2, <2>1 DEF Participants!Enter
  <2>5. ListFits(q, asked)
    BY <2>2, <2>3 DEF ListFits, Newest
  <2>6. ListFits(list, asked)'
    BY <2>4, <2>5 DEF ListFits, Participants!QueryOf, Newest
  <2> QED BY <2>4, <2>6 DEF ListIInv, StoreFits
<1>3. CASE Participants!Leave
  <2>1. /\ list' = Participants!Closed /\ UNCHANGED <<listCache, listState>>
        /\ asked' = {[c EXCEPT !.orphan = TRUE] :
                       c \in {d \in asked : d.orphan \/ d.req = list.req}}
    BY <1>3 DEF Participants!Leave
  <2>2. ASSUME NEW c \in asked, NEW d, d = [c EXCEPT !.orphan = TRUE]
        PROVE  d \in Participants!Request /\ d.orphan
    BY <2>2 DEF ListIInv, Participants!Request
  <2>3. \A d \in asked' : d \in Participants!Request /\ d.orphan
    BY <2>1, <2>2
  <2> QED BY <2>1, <2>3 DEF ListIInv, StoreFits
<1>4. CASE \E c \in asked :
              \/ Participants!Failed(c)
              \/ \E total \in 1..MaxPages, some \in BOOLEAN :
                    Participants!Answered(c, [query |-> c.query, total |-> total, some |-> some])
  BY <1>4, AnsweredIs, ListFails
<1> QED BY <1>1, <1>2, <1>3, <1>4, ListOperator DEF Participants!Work

\* So the rows answer the query, and a skeleton is waiting for its answer.
LEMMA ListIInvHolds ==
    ASSUME ListIInv
    PROVE  /\ Participants!TypeOK /\ Participants!RowsAnswerTheQuery
           /\ Participants!SkeletonIsAnswered
<1>1. list # Participants!Closed => ListFits(list, asked)
  BY DEF ListIInv
<1> QED BY <1>1 DEF ListIInv, ListFits, StoreFits, Newest, Participants!TypeOK,
               Participants!RowsAnswerTheQuery, Participants!SkeletonIsAnswered

-----------------------------------------------------------------------------
(* ParticipantDetail: a page without a party waits for one load or has failed,*)
(* and only a page with a party has forms; a claim form differs from the      *)
(* claim it was opened with by what was typed.                                *)
PatchOf == {f \in UNION {[K -> Names \cup Notes] : K \in SUBSET Detail!Field} :
               /\ "name" \in DOMAIN f => f["name"] \in Names
               /\ "note" \in DOMAIN f => f["note"] \in Notes}
MaybeParty == {Detail!Nothing} \cup Detail!Party
PartyLoad == [kind : {"load"}, over : MaybeParty, answer : MaybeParty, here : BOOLEAN]
PartySave == [kind : {"party", "claim"}, body : [fields : PatchOf, aka : SUBSET Aliases],
              typed : SUBSET Detail!Field, here : BOOLEAN]

\* The draft of a claim is the claim, but for what was typed.
DraftOf(p) ==
    p.claim # Detail!Nothing =>
       p.draft # Detail!Nothing /\ (p.draft.note = p.claim.note \/ "note" \in p.draft.typed)

\* The three states of a mounted page.
Waits(p, cs) ==
    /\ p.shown = Detail!Nothing /\ p.loading /\ ~p.failed
    /\ p.edit = Detail!Nothing /\ p.claim = Detail!Nothing
    /\ \E c \in cs : /\ c.kind = "load" /\ c.here /\ c.over = Detail!Nothing
                     /\ \A d \in cs : d.here => d = c
HasFailed(p, cs) ==
    /\ p.shown = Detail!Nothing /\ p.failed
    /\ p.edit = Detail!Nothing /\ p.claim = Detail!Nothing
    /\ \A c \in cs : ~c.here
Shows(p, cs) ==
    /\ p.shown # Detail!Nothing /\ ~p.failed /\ cache # Detail!Nothing
    /\ \A c \in cs : c.kind = "load" /\ c.here => c.over # Detail!Nothing

OwnClaim(c) == c.kind = "claim" => DOMAIN c.body.fields \subseteq c.typed

DetailFits(p, cs) ==
    /\ p \in Detail!Page /\ DraftOf(p)
    /\ Waits(p, cs) \/ HasFailed(p, cs) \/ Shows(p, cs)

DetailIInv ==
    /\ party \in Detail!Party /\ others \in 0..MaxOthers /\ claimModel \in BOOLEAN
    /\ cache \in MaybeParty
    /\ calls \subseteq PartyLoad \cup PartySave
    /\ \A c \in calls : OwnClaim(c)
    /\ \/ page = Detail!Closed /\ \A c \in calls : ~c.here
       \/ DetailFits(page, calls)

\* There is room for what is under way.
CallsHaveRoom == IsFiniteSet(calls) /\ Cardinality(calls) <= MaxCalls

-----------------------------------------------------------------------------
\* A mounted page, a party and a form are not their absence.
LEMMA DetailPageIs ==
    /\ Detail!Closed \notin Detail!Page /\ Detail!Nothing \notin Detail!Party
    /\ Detail!Nothing \notin Detail!Form /\ Detail!Nothing \notin Detail!Claim
    /\ Detail!Nothing \notin Detail!ClaimForm
    /\ \A c \in PartyLoad : c.kind = "load" /\ c \notin PartySave
    /\ \A c \in PartySave : c.kind # "load" /\ c \notin PartyLoad
BY DEF Detail!Closed, Detail!Page, Detail!Nothing, Detail!Party, Detail!Form, Detail!Claim,
       Detail!ClaimForm, PartyLoad, PartySave

\* At first the page is closed and the cache is empty.
LEMMA DetailInitIInv == Detail!DetailAssumption /\ Detail!Init => DetailIInv
BY DEF Detail!Init, Detail!DetailAssumption, DetailIInv, MaybeParty, Detail!Party

\* A party merged with another answer is a party (mergeParty).
LEMMA MergedIs ==
    ASSUME NEW prev \in MaybeParty, NEW next \in Detail!Party
    PROVE  Detail!mergeParty(prev, next) \in Detail!Party
BY DEF Detail!mergeParty, MaybeParty, Detail!Party

\* Of a form, the fields that are sent are a patch of those fields.
LEMMA PatchIs ==
    ASSUME NEW K \in SUBSET Detail!Field, NEW f,
           "name" \in K => f["name"] \in Names, "note" \in K => f["note"] \in Notes
    PROVE  Detail!Restricted(f, K) \in PatchOf /\ DOMAIN Detail!Restricted(f, K) = K
<1>1. PICK g : g = [k \in K |-> f[k]]
  OBVIOUS
<1>2. \A k \in K : f[k] \in Names \cup Notes
  BY DEF Detail!Field
<1>3. g \in [K -> Names \cup Notes] /\ DOMAIN g = K
  BY <1>1, <1>2
<1>4. g \in UNION {[J -> Names \cup Notes] : J \in SUBSET Detail!Field}
  BY <1>3
<1>5. ("name" \in K => g["name"] \in Names) /\ ("note" \in K => g["note"] \in Notes)
  BY <1>1
<1> QED BY <1>1, <1>3, <1>4, <1>5 DEF PatchOf, Detail!Restricted

\* What a save makes of the registry's party is a party.
LEMMA WrittenIs ==
    ASSUME party \in Detail!Party, NEW c \in PartySave PROVE Detail!Written(c) \in Detail!Party
<1>1. c.body.fields \in PatchOf /\ c.body.aka \subseteq Aliases
  BY DEF PartySave
<1>2. PICK f, a : f = c.body.fields /\ a = c.body.aka
  OBVIOUS
<1>3. /\ "name" \in DOMAIN f => f["name"] \in Names
      /\ "note" \in DOMAIN f => f["note"] \in Notes
  BY <1>1, <1>2 DEF PatchOf
<1>4. PICK w : w = Detail!Written(c)
  OBVIOUS
<1>5. w = [k \in {"name", "note", "aka"} |->
            IF k = "aka" THEN IF claimModel THEN party.aka \cup a ELSE a
            ELSE IF k \in DOMAIN f THEN f[k] ELSE party[k]]
  BY <1>2, <1>4 DEF Detail!Written, Detail!Field
<1>6. party.name \in Names /\ party.note \in Notes /\ party.aka \subseteq Aliases
      /\ party["name"] = party.name /\ party["note"] = party.note
  BY DEF Detail!Party
<1>7. w["name"] \in Names /\ w["note"] \in Notes /\ w["aka"] \in SUBSET Aliases
  BY <1>1, <1>2, <1>3, <1>5, <1>6
<1>8. w = [name |-> w["name"], note |-> w["note"], aka |-> w["aka"]]
  BY <1>5
<1> QED BY <1>4, <1>7, <1>8 DEF Detail!Party

\* A page that loads again keeps its forms and shows what the cache has.
LEMMA ReloadedIs ==
    ASSUME cache \in MaybeParty, NEW p \in Detail!Page, NEW q, q = Detail!Reloaded(p)
    PROVE  /\ q \in Detail!Page /\ ~q.failed /\ q.edit = p.edit /\ q.claim = p.claim
           /\ q.draft = p.draft
           /\ cache # Detail!Nothing => q.shown = cache
           /\ cache = Detail!Nothing => q.shown = p.shown /\ q.loading
BY DEF Detail!Reloaded, Detail!Page, MaybeParty

\* What load() sends.
LEMMA LoadCallIs ==
    ASSUME cache \in MaybeParty
    PROVE  /\ Detail!LoadCall \in PartyLoad /\ OwnClaim(Detail!LoadCall)
           /\ Detail!LoadCall.over = cache /\ Detail!LoadCall.here
           /\ Detail!LoadCall.kind = "load"
BY DEF Detail!LoadCall, PartyLoad, OwnClaim, MaybeParty

\* What the administrator does on a page that shows its party.
LEMMA DetailEdits ==
    ASSUME DetailIInv, UNCHANGED <<party, others, claimModel, cache>>, page # Detail!Closed,
           page.shown # Detail!Nothing, NEW q \in Detail!Page, page' = q,
           q.shown = page.shown, q.failed = page.failed, DraftOf(q),
           NEW S \in SUBSET PartySave, calls' = calls \cup S, \A c \in S : OwnClaim(c)
    PROVE  DetailIInv'
<1>1. DetailFits(page, calls) /\ Shows(page, calls)
  BY DEF DetailIInv, DetailFits, Waits, HasFailed
<1>2. Shows(q, calls \cup S)
  BY <1>1, DetailPageIs DEF Shows
<1>3. DetailFits(page, calls)'
  BY <1>2 DEF DetailFits, DraftOf, Shows
<1> QED BY <1>3 DEF DetailIInv, MaybeParty, OwnClaim

\* Whatever is done with the two forms.
LEMMA DetailEditsIInv ==
    ASSUME DetailIInv,
           \/ Detail!StartEdit \/ Detail!CancelEdit \/ Detail!SaveParty
           \/ Detail!EditClaim \/ Detail!CloseClaim \/ Detail!SaveClaim
           \/ \E v \in Names : Detail!TypeParty("name", v)
           \/ \E v \in Notes : Detail!TypeParty("note", v) \/ Detail!TypeClaim(v)
           \/ \E a \in Aliases : Detail!AddAlias(a)
    PROVE  DetailIInv'
<1>0. /\ page # Detail!Closed => page \in Detail!Page /\ DraftOf(page)
      /\ Detail!Ready => page # Detail!Closed /\ page.shown # Detail!Nothing
      /\ page # Detail!Closed /\ page.claim # Detail!Nothing => page.shown # Detail!Nothing
      /\ Detail!Ready => page.shown \in Detail!Party
  <2>1. page # Detail!Closed => DetailFits(page, calls)
    BY DEF DetailIInv
  <2>2. page # Detail!Closed => page \in Detail!Page /\ DraftOf(page)
    BY <2>1 DEF DetailFits
  <2>3. page # Detail!Closed /\ page.claim # Detail!Nothing => page.shown # Detail!Nothing
    BY <2>1 DEF DetailFits, Waits, HasFailed, Shows
  <2>4. Detail!Ready => page # Detail!Closed /\ page.shown # Detail!Nothing
    BY DEF Detail!Ready
  <2>5. Detail!Ready => page.shown \in Detail!Party
    BY <2>2, <2>4 DEF Detail!Page
  <2> QED BY <2>2, <2>3, <2>4, <2>5
<1>e. {} \in SUBSET PartySave /\ calls = calls \cup {}
  OBVIOUS
<1>1. CASE Detail!StartEdit
  <2>1. PICK q : q = [page EXCEPT !.edit = Detail!initForm(page.shown)]
    OBVIOUS
  <2>2. Detail!initForm(page.shown) \in Detail!Form
    BY <1>0, <1>1 DEF Detail!StartEdit, Detail!initForm, Detail!Party, Detail!Form
  <2>3. /\ q \in Detail!Page /\ q.shown = page.shown /\ q.failed = page.failed
        /\ q.claim = page.claim /\ q.draft = page.draft
    BY <1>0, <1>1, <2>1, <2>2 DEF Detail!StartEdit, Detail!Page
  <2>4. DraftOf(q)
    BY <1>0, <1>1, <2>3 DEF Detail!StartEdit, DraftOf
  <2> QED BY <1>0, <1>1, <1>e, <2>1, <2>3, <2>4, DetailEdits DEF Detail!StartEdit
<1>2. CASE Detail!CancelEdit
  <2>1. PICK q : q = [page EXCEPT !.edit = Detail!Nothing]
    OBVIOUS
  <2>3. /\ q \in Detail!Page /\ q.shown = page.shown /\ q.failed = page.failed
        /\ q.claim = page.claim /\ q.draft = page.draft
    BY <1>0, <1>2, <2>1 DEF Detail!CancelEdit, Detail!Page
  <2>4. DraftOf(q)
    BY <1>0, <1>2, <2>3 DEF Detail!CancelEdit, DraftOf
  <2> QED BY <1>0, <1>2, <1>e, <2>1, <2>3, <2>4, DetailEdits DEF Detail!CancelEdit
<1>3. CASE Detail!SaveParty
  <2>0. /\ page \in Detail!Page /\ page.edit # Detail!Nothing /\ page.edit \in Detail!Form
        /\ page.shown \in Detail!Party /\ Detail!Ready
    BY <1>0, <1>3 DEF Detail!SaveParty, Detail!Page
  <2>1. CASE page' = [page EXCEPT !.edit = Detail!Nothing] /\ UNCHANGED calls
    <3>1. PICK q : q = [page EXCEPT !.edit = Detail!Nothing]
      OBVIOUS
    <3>3. /\ q \in Detail!Page /\ q.shown = page.shown /\ q.failed = page.failed
          /\ q.claim = page.claim /\ q.draft = page.draft
      BY <2>0, <3>1 DEF Detail!Page
    <3>4. DraftOf(q)
      BY <1>0, <2>0, <3>3 DEF DraftOf
    <3> QED BY <1>0, <1>3, <1>e, <2>0, <2>1, <3>1, <3>3, <3>4, DetailEdits DEF Detail!SaveParty
  <2>2. CASE page' # [page EXCEPT !.edit = Detail!Nothing] \/ calls' # calls
    <3>1. PICK f \in PatchOf, a \in SUBSET Aliases :
             /\ page' = [page EXCEPT !.saving = TRUE]
             /\ calls' = calls \cup {[kind |-> "party", body |-> [fields |-> f, aka |-> a],
                                      typed |-> page.edit.typed, here |-> TRUE]}
      <4>0. page.edit["name"] \in Names /\ page.edit["note"] \in Notes
              /\ page.edit.aka \in SUBSET Aliases /\ page.shown.aka \in SUBSET Aliases
        BY <2>0 DEF Detail!Form, Detail!Party
      <4>1. PICK K \in SUBSET Detail!Field : K = {k \in {"name"} : page.edit[k] # page.shown[k]}
        BY DEF Detail!Field
      <4>2. /\ Detail!Restricted(page.edit, K) \in PatchOf
            /\ Detail!Restricted(page.edit, Detail!Field) \in PatchOf
        BY <4>0, PatchIs
      <4>3. Detail!PartyPatch(page) = [fields |-> Detail!Restricted(page.edit, K),
                                       aka |-> page.edit.aka]
        BY <4>1 DEF Detail!PartyPatch
      <4>4. PICK b : b = (IF claimModel THEN Detail!PartyPatch(page)
                     ELSE [fields |-> Detail!Restricted(page.edit, Detail!Field),
                           aka |-> page.shown.aka])
        OBVIOUS
      <4>5. /\ page' = [page EXCEPT !.saving = TRUE]
            /\ calls' = calls \cup {[kind |-> "party", body |-> b,
                                     typed |-> page.edit.typed, here |-> TRUE]}
        BY <1>3, <2>2, <4>4 DEF Detail!SaveParty
      <4> QED BY <4>0, <4>2, <4>3, <4>4, <4>5
    <3>2. PICK d : d = [kind |-> "party", body |-> [fields |-> f, aka |-> a],
                        typed |-> page.edit.typed, here |-> TRUE]
      OBVIOUS
    <3>3. page.edit.typed \in SUBSET Detail!Field
      BY <2>0 DEF Detail!Form
    <3>4. d \in PartySave /\ OwnClaim(d)
      BY <3>2, <3>3 DEF PartySave, OwnClaim
    <3>5. PICK q : q = [page EXCEPT !.saving = TRUE]
      OBVIOUS
    <3>6. /\ q \in Detail!Page /\ q.shown = page.shown /\ q.failed = page.failed
          /\ q.claim = page.claim /\ q.draft = page.draft
      BY <2>0, <3>5 DEF Detail!Page
    <3>7. DraftOf(q)
      BY <1>0, <2>0, <3>6 DEF DraftOf
    <3>8. {d} \in SUBSET PartySave /\ calls' = calls \cup {d} /\ \A c \in {d} : OwnClaim(c)
      BY <3>1, <3>2, <3>4
    <3>9. page' = q /\ UNCHANGED <<party, others, claimModel, cache>> /\ page.shown # Detail!Nothing
      BY <1>0, <1>3, <2>0, <3>1, <3>5 DEF Detail!SaveParty
    <3> QED BY <1>0, <2>0, <3>6, <3>7, <3>8, <3>9, DetailEdits
  <2> QED BY <2>1, <2>2
<1>4. CASE Detail!EditClaim
  <2>1. PICK q : q = [page EXCEPT !.claim = [note |-> page.shown.note],
                                  !.draft = [note |-> page.shown.note, typed |-> {}]]
    OBVIOUS
  <2>2. page \in Detail!Page /\ page.shown \in Detail!Party /\ page.shown.note \in Notes
    BY <1>0, <1>4 DEF Detail!EditClaim, Detail!Party
  <2>3. PICK m, d : m = [note |-> page.shown.note] /\ d = [note |-> page.shown.note, typed |-> {}]
    OBVIOUS
  <2>4. m \in Detail!Claim /\ d \in Detail!ClaimForm /\ m.note = d.note
    BY <2>2, <2>3 DEF Detail!Claim, Detail!ClaimForm
  <2>5. /\ q \in Detail!Page /\ q.shown = page.shown /\ q.failed = page.failed
        /\ q.claim = m /\ q.draft = d
    BY <2>1, <2>2, <2>3, <2>4 DEF Detail!Page
  <2>6. DraftOf(q)
    BY <2>4, <2>5, DetailPageIs DEF DraftOf
  <2> QED BY <1>0, <1>4, <1>e, <2>1, <2>5, <2>6, DetailEdits DEF Detail!EditClaim
<1>5. CASE Detail!CloseClaim
  <2>1. PICK q : q = [page EXCEPT !.claim = Detail!Nothing, !.draft = Detail!Nothing,
                                  !.patching = FALSE]
    OBVIOUS
  <2>2. /\ q \in Detail!Page /\ q.shown = page.shown /\ q.failed = page.failed
        /\ q.claim = Detail!Nothing
    BY <1>0, <1>5, <2>1 DEF Detail!CloseClaim, Detail!Page
  <2>3. DraftOf(q)
    BY <2>2 DEF DraftOf
  <2> QED BY <1>0, <1>5, <1>e, <2>1, <2>2, <2>3, DetailEdits DEF Detail!CloseClaim
<1>6. CASE Detail!SaveClaim
  <2>0. /\ page \in Detail!Page /\ page.claim \in Detail!Claim /\ page.draft \in Detail!ClaimForm
        /\ page.shown # Detail!Nothing /\ page # Detail!Closed
        /\ page.draft.note = page.claim.note \/ "note" \in page.draft.typed
    BY <1>0, <1>6 DEF Detail!SaveClaim, Detail!Page, DraftOf
  <2>1. CASE /\ page' = [page EXCEPT !.claim = Detail!Nothing, !.draft = Detail!Nothing]
             /\ UNCHANGED calls
    <3>1. PICK q : q = [page EXCEPT !.claim = Detail!Nothing, !.draft = Detail!Nothing]
      OBVIOUS
    <3>2. /\ q \in Detail!Page /\ q.shown = page.shown /\ q.failed = page.failed
          /\ q.claim = Detail!Nothing
      BY <2>0, <3>1 DEF Detail!Page
    <3>3. DraftOf(q)
      BY <3>2 DEF DraftOf
    <3> QED BY <1>6, <1>e, <2>0, <2>1, <3>1, <3>2, <3>3, DetailEdits DEF Detail!SaveClaim
  <2>2. CASE /\ page' = [page EXCEPT !.patching = TRUE]
             /\ calls' = calls \cup {[kind |-> "claim",
                             body |-> [fields |-> Detail!ClaimPatch(page), aka |-> {}],
                             typed |-> page.draft.typed, here |-> TRUE]}
    <3>1. page.draft["note"] = page.draft.note /\ page.claim["note"] = page.claim.note
            /\ page.draft.note \in Notes /\ page.draft.typed \in SUBSET Detail!Field
      BY <2>0 DEF Detail!Claim, Detail!ClaimForm
    <3>2. PICK K \in SUBSET Detail!Field : K = {k \in {"note"} : page.draft[k] # page.claim[k]}
      BY DEF Detail!Field
    <3>3. K \subseteq page.draft.typed /\ "name" \notin K
      BY <2>0, <3>1, <3>2
    <3>4. PICK f \in PatchOf : f = Detail!ClaimPatch(page) /\ DOMAIN f = K
      BY <3>1, <3>2, <3>3, PatchIs DEF Detail!ClaimPatch
    <3>5. PICK d : d = [kind |-> "claim", body |-> [fields |-> f, aka |-> {}],
                        typed |-> page.draft.typed, here |-> TRUE]
      OBVIOUS
    <3>6. d \in PartySave /\ d.body.fields = f /\ d.typed = page.draft.typed
      BY <3>1, <3>5 DEF PartySave
    <3>7. OwnClaim(d)
      BY <3>3, <3>4, <3>6 DEF OwnClaim
    <3>8. PICK q : q = [page EXCEPT !.patching = TRUE]
      OBVIOUS
    <3>9. /\ q \in Detail!Page /\ q.shown = page.shown /\ q.failed = page.failed
          /\ q.claim = page.claim /\ q.draft = page.draft
      BY <2>0, <3>8 DEF Detail!Page
    <3>10. DraftOf(q)
      BY <2>0, <1>0, <3>9 DEF DraftOf
    <3>11. {d} \in SUBSET PartySave /\ calls' = calls \cup {d} /\ \A c \in {d} : OwnClaim(c)
      BY <2>2, <3>4, <3>5, <3>6, <3>7
    <3>12. page' = q /\ UNCHANGED <<party, others, claimModel, cache>>
      BY <1>6, <2>2, <3>8 DEF Detail!SaveClaim
    <3> QED BY <2>0, <3>9, <3>10, <3>11, <3>12, DetailEdits
  <2> QED BY <1>6, <2>1, <2>2 DEF Detail!SaveClaim
<1>7. ASSUME NEW k \in Detail!Field, NEW v, (k = "name" /\ v \in Names) \/ (k = "note" /\ v \in Notes),
             Detail!TypeParty(k, v)
      PROVE  DetailIInv'
  <2>0. page \in Detail!Page /\ page.edit \in Detail!Form
    BY <1>0, <1>7 DEF Detail!TypeParty, Detail!Page
  <2>1. PICK e : e = [page.edit EXCEPT ![k] = v, !.typed = @ \cup {k}]
    OBVIOUS
  <2>2. e \in Detail!Form
    <3>1. CASE k = "name"
      BY <1>7, <2>0, <2>1, <3>1 DEF Detail!Form, Detail!Field
    <3>2. CASE k = "note"
      BY <1>7, <2>0, <2>1, <3>2 DEF Detail!Form, Detail!Field
    <3> QED BY <3>1, <3>2 DEF Detail!Field
  <2>3. PICK q : q = [page EXCEPT !.edit = e]
    OBVIOUS
  <2>4. /\ q \in Detail!Page /\ q.shown = page.shown /\ q.failed = page.failed
        /\ q.claim = page.claim /\ q.draft = page.draft
    BY <2>0, <2>2, <2>3 DEF Detail!Page
  <2>5. DraftOf(q)
    BY <1>0, <1>7, <2>4 DEF DraftOf, Detail!TypeParty
  <2>6. page' = q
    BY <1>7, <2>0, <2>1, <2>3 DEF Detail!TypeParty, Detail!Page
  <2> QED BY <1>0, <1>7, <1>e, <2>4, <2>5, <2>6, DetailEdits DEF Detail!TypeParty
<1>8. ASSUME NEW v \in Notes, Detail!TypeClaim(v) PROVE DetailIInv'
  <2>0. /\ page \in Detail!Page /\ page.draft \in Detail!ClaimForm
        /\ page.shown # Detail!Nothing /\ page # Detail!Closed
    BY <1>0, <1>8 DEF Detail!TypeClaim, Detail!Page, DraftOf
  <2>1. PICK e : e = [page.draft EXCEPT !.note = v, !.typed = @ \cup {"note"}]
    OBVIOUS
  <2>2. e \in Detail!ClaimForm /\ "note" \in e.typed
    BY <2>0, <2>1 DEF Detail!ClaimForm, Detail!Field
  <2>3. PICK q : q = [page EXCEPT !.draft = e]
    OBVIOUS
  <2>4. /\ q \in Detail!Page /\ q.shown = page.shown /\ q.failed = page.failed
        /\ q.claim = page.claim /\ q.draft = e
    BY <2>0, <2>2, <2>3 DEF Detail!Page
  <2>5. DraftOf(q)
    BY <2>2, <2>4, DetailPageIs DEF DraftOf
  <2>6. page' = q
    BY <1>8, <2>0, <2>1, <2>3 DEF Detail!TypeClaim, Detail!Page
  <2> QED BY <1>8, <1>e, <2>0, <2>4, <2>5, <2>6, DetailEdits DEF Detail!TypeClaim
<1>9. ASSUME NEW a \in Aliases, Detail!AddAlias(a) PROVE DetailIInv'
  <2>0. page \in Detail!Page /\ page.edit \in Detail!Form
    BY <1>0, <1>9 DEF Detail!AddAlias, Detail!Page
  <2>1. PICK e : e = [page.edit EXCEPT !.aka = @ \cup {a}]
    OBVIOUS
  <2>2. e \in Detail!Form
    BY <2>0, <2>1 DEF Detail!Form
  <2>3. PICK q : q = [page EXCEPT !.edit = e]
    OBVIOUS
  <2>4. /\ q \in Detail!Page /\ q.shown = page.shown /\ q.failed = page.failed
        /\ q.claim = page.claim /\ q.draft = page.draft
    BY <2>0, <2>2, <2>3 DEF Detail!Page
  <2>5. DraftOf(q)
    BY <1>0, <1>9, <2>4 DEF DraftOf, Detail!AddAlias
  <2>6. page' = q
    BY <1>9, <2>0, <2>1, <2>3 DEF Detail!AddAlias, Detail!Page
  <2> QED BY <1>0, <1>9, <1>e, <2>4, <2>5, <2>6, DetailEdits DEF Detail!AddAlias
<1>10. "name" \in Detail!Field /\ "note" \in Detail!Field
  BY DEF Detail!Field
<1> QED BY <1>1, <1>2, <1>3, <1>4, <1>5, <1>6, <1>7, <1>8, <1>9, <1>10

\* What the registry, other administrators and the way to and from do.
LEMMA DetailServed ==
    ASSUME DetailIInv, NEW c \in calls, Detail!Serve(c) PROVE DetailIInv'
<1>1. c \in PartyLoad /\ UNCHANGED <<party, others, claimModel, cache, page>>
  BY DetailPageIs DEF Detail!Serve, DetailIInv
<1>2. PICK d : d = [c EXCEPT !.answer = party]
  OBVIOUS
<1>3. d \in PartyLoad /\ d.kind = "load" /\ c.kind = "load" /\ d.here = c.here /\ d.over = c.over
  BY <1>1, <1>2 DEF PartyLoad, DetailIInv, MaybeParty
<1>4. calls' = (calls \ {c}) \cup {d}
  BY <1>2 DEF Detail!Serve
<1>5. OwnClaim(d)
  BY <1>3 DEF OwnClaim
<1>6. CASE page = Detail!Closed
  BY <1>1, <1>3, <1>4, <1>5, <1>6, DetailPageIs DEF DetailIInv, MaybeParty, OwnClaim, DetailFits
<1>7. CASE DetailFits(page, calls)
  <2>1. ASSUME Waits(page, calls) PROVE Waits(page, (calls \ {c}) \cup {d})
    <3>1. PICK e \in calls : /\ e.kind = "load" /\ e.here /\ e.over = Detail!Nothing
                             /\ \A g \in calls : g.here => g = e
      BY <2>1 DEF Waits
    <3>2. CASE c = e
      <4>1. \A g \in (calls \ {c}) \cup {d} : g.here => g = d
        BY <3>1, <3>2
      <4> QED BY <1>3, <2>1, <3>1, <3>2, <4>1 DEF Waits
    <3>3. CASE c # e
      <4>1. ~d.here
        BY <1>3, <3>1, <3>3
      <4> QED BY <2>1, <3>1, <3>3, <4>1 DEF Waits
    <3> QED BY <3>2, <3>3
  <2>2. ASSUME HasFailed(page, calls) PROVE HasFailed(page, (calls \ {c}) \cup {d})
    BY <1>3, <2>2 DEF HasFailed
  <2>3. ASSUME Shows(page, calls) PROVE Shows(page, (calls \ {c}) \cup {d})
    BY <1>3, <2>3 DEF Shows
  <2>4. DetailFits(page, (calls \ {c}) \cup {d})
    BY <1>7, <2>1, <2>2, <2>3 DEF DetailFits
  <2>5. DetailFits(page, calls)'
    BY <1>1, <1>4, <2>4 DEF DetailFits, DraftOf, Waits, HasFailed, Shows
  <2> QED BY <1>1, <1>3, <1>4, <1>5, <2>5 DEF DetailIInv, MaybeParty, OwnClaim
<1> QED BY <1>6, <1>7 DEF DetailIInv

\* A call is gone whose answer changes nothing that others of the page wait for.
LEMMA DetailArrived ==
    ASSUME DetailIInv, NEW c \in calls, Detail!Arrive(c) PROVE DetailIInv'
<1>1. /\ c \in PartyLoad /\ c.over \in MaybeParty /\ c.answer \in Detail!Party
      /\ calls' = calls \ {c} /\ UNCHANGED <<party, others, claimModel>>
  BY DetailPageIs DEF Detail!Arrive, DetailIInv, PartyLoad, MaybeParty
<1>2. PICK m : m = Detail!mergeParty(c.over, c.answer)
  OBVIOUS
<1>3. m \in Detail!Party /\ m # Detail!Nothing /\ cache' = m
  BY <1>1, <1>2, MergedIs, DetailPageIs DEF Detail!Arrive
<1>4. /\ \A d \in calls' : OwnClaim(d)
      /\ calls' \subseteq PartyLoad \cup PartySave
      /\ party' \in Detail!Party /\ others' \in 0..MaxOthers /\ claimModel' \in BOOLEAN
      /\ cache' \in MaybeParty
  BY <1>1, <1>3 DEF DetailIInv, MaybeParty
<1>5. CASE ~c.here
  <2>1. page' = page
    BY <1>5 DEF Detail!Arrive
  <2>2. CASE page = Detail!Closed
    BY <1>1, <1>4, <2>1, <2>2, DetailPageIs DEF DetailIInv, DetailFits, OwnClaim
  <2>3. CASE DetailFits(page, calls)
    <3>1. /\ Waits(page, calls) => Waits(page, calls)'
          /\ HasFailed(page, calls) => HasFailed(page, calls)'
          /\ Shows(page, calls) => Shows(page, calls)'
      BY <1>1, <1>3, <1>5, <2>1 DEF Waits, HasFailed, Shows
    <3>2. DetailFits(page, calls)'
      BY <2>1, <2>3, <3>1 DEF DetailFits, DraftOf
    <3> QED BY <1>4, <3>2 DEF DetailIInv, OwnClaim
  <2> QED BY <2>2, <2>3 DEF DetailIInv
<1>6. CASE c.here
  <2>1. DetailFits(page, calls) /\ page \in Detail!Page
    BY <1>6 DEF DetailIInv, DetailFits
  <2>2. PICK q : q = [page EXCEPT !.shown = m, !.loading = FALSE]
    OBVIOUS
  <2>3. /\ q \in Detail!Page /\ q.shown = m /\ q.failed = page.failed
        /\ q.claim = page.claim /\ q.draft = page.draft
    BY <1>3, <2>1, <2>2 DEF Detail!Page
  <2>4. page' = q
    BY <1>2, <1>6, <2>2 DEF Detail!Arrive
  <2>5. DraftOf(q)
    BY <2>1, <2>3 DEF DetailFits, DraftOf
  <2>6. ~HasFailed(page, calls)
    BY <1>6 DEF HasFailed
  <2>7. ~page.failed /\ \A d \in calls' : d.kind = "load" /\ d.here => d.over # Detail!Nothing
    BY <1>1, <1>6, <2>1, <2>6 DEF DetailFits, Waits, Shows
  <2>8. Shows(page, calls)' /\ DetailFits(page, calls)'
    BY <1>3, <2>3, <2>4, <2>5, <2>7 DEF DetailFits, DraftOf, Shows
  <2> QED BY <1>4, <2>8 DEF DetailIInv, OwnClaim
<1> QED BY <1>1, <1>5, <1>6 DEF PartyLoad

\* A load fails.
LEMMA DetailLost ==
    ASSUME DetailIInv, NEW c \in calls, Detail!LoadFails(c) PROVE DetailIInv'
<1>1. /\ c \in PartyLoad /\ c.kind = "load" /\ calls' = calls \ {c}
      /\ UNCHANGED <<party, others, claimModel, cache>>
  BY DetailPageIs DEF Detail!LoadFails, DetailIInv
<1>4. /\ \A d \in calls' : OwnClaim(d)
      /\ calls' \subseteq PartyLoad \cup PartySave
      /\ party' \in Detail!Party /\ others' \in 0..MaxOthers /\ claimModel' \in BOOLEAN
      /\ cache' \in MaybeParty
  BY <1>1 DEF DetailIInv, MaybeParty
<1>5. CASE ~c.here
  <2>1. page' = page
    BY <1>5 DEF Detail!LoadFails
  <2>2. CASE page = Detail!Closed
    BY <1>1, <1>4, <2>1, <2>2, DetailPageIs DEF DetailIInv, DetailFits, OwnClaim
  <2>3. CASE DetailFits(page, calls)
    <3>1. /\ Waits(page, calls) => Waits(page, calls)'
          /\ HasFailed(page, calls) => HasFailed(page, calls)'
          /\ Shows(page, calls) => Shows(page, calls)'
      BY <1>1, <1>5, <2>1 DEF Waits, HasFailed, Shows
    <3>2. DetailFits(page, calls)'
      BY <2>1, <2>3, <3>1 DEF DetailFits, DraftOf
    <3> QED BY <1>4, <3>2 DEF DetailIInv, OwnClaim
  <2> QED BY <2>2, <2>3 DEF DetailIInv
<1>6. CASE c.here /\ c.over # Detail!Nothing
  <2>1. DetailFits(page, calls) /\ page \in Detail!Page
    BY <1>6 DEF DetailIInv, DetailFits
  <2>2. PICK q : q = [page EXCEPT !.loading = FALSE]
    OBVIOUS
  <2>3. /\ q \in Detail!Page /\ q.shown = page.shown /\ q.failed = page.failed
        /\ q.claim = page.claim /\ q.draft = page.draft
    BY <2>1, <2>2 DEF Detail!Page
  <2>4. page' = q
    BY <1>6, <2>2 DEF Detail!LoadFails
  <2>5. DraftOf(q)
    BY <2>1, <2>3 DEF DetailFits, DraftOf
  <2>6. Shows(page, calls)
    BY <1>6, <2>1 DEF DetailFits, HasFailed, Waits
  <2>7. Shows(page, calls)' /\ DetailFits(page, calls)'
    BY <1>1, <2>3, <2>4, <2>5, <2>6 DEF DetailFits, DraftOf, Shows
  <2> QED BY <1>4, <2>7 DEF DetailIInv, OwnClaim
<1>7. CASE c.here /\ c.over = Detail!Nothing
  <2>1. DetailFits(page, calls) /\ page \in Detail!Page
    BY <1>7 DEF DetailIInv, DetailFits
  <2>2. PICK q : q = [page EXCEPT !.loading = FALSE, !.shown = Detail!Nothing, !.failed = TRUE]
    OBVIOUS
  <2>3. /\ q \in Detail!Page /\ q.shown = Detail!Nothing /\ q.failed
        /\ q.claim = page.claim /\ q.edit = page.edit
    BY <2>1, <2>2 DEF Detail!Page
  <2>4. page' = q
    BY <1>7, <2>2 DEF Detail!LoadFails
  <2>5. Waits(page, calls)
    BY <1>1, <1>7, <2>1 DEF DetailFits, HasFailed, Shows
  <2>6. HasFailed(page, calls)'
    BY <1>1, <1>7, <2>3, <2>4, <2>5 DEF Waits, HasFailed
  <2>7. DetailFits(page, calls)'
    BY <2>3, <2>4, <2>5, <2>6 DEF DetailFits, DraftOf, Waits
  <2> QED BY <1>4, <2>7 DEF DetailIInv, OwnClaim
<1> QED BY <1>1, <1>5, <1>6, <1>7 DEF PartyLoad

\* A save succeeds, and the page loads again.
LEMMA DetailSaved ==
    ASSUME DetailIInv, NEW c \in calls, Detail!SaveSucceeds(c) PROVE DetailIInv'
<1>1. c \in PartySave /\ c.kind # "load" /\ UNCHANGED <<others, claimModel, cache>>
  BY DetailPageIs DEF Detail!SaveSucceeds, DetailIInv
<1>2. party' \in Detail!Party
  BY <1>1, WrittenIs DEF Detail!SaveSucceeds, DetailIInv
<1>3. /\ others' \in 0..MaxOthers /\ claimModel' \in BOOLEAN /\ cache' \in MaybeParty
      /\ cache \in MaybeParty
  BY <1>1 DEF DetailIInv, MaybeParty
<1>4. CASE ~c.here
  <2>1. page' = page /\ calls' = calls \ {c}
    BY <1>4 DEF Detail!SaveSucceeds
  <2>2. (\A d \in calls' : OwnClaim(d)) /\ calls' \subseteq PartyLoad \cup PartySave
    BY <2>1 DEF DetailIInv
  <2>3. CASE page = Detail!Closed
    BY <1>2, <1>3, <2>1, <2>2, <2>3, DetailPageIs DEF DetailIInv, DetailFits, OwnClaim
  <2>4. CASE DetailFits(page, calls)
    <3>1. /\ Waits(page, calls) => Waits(page, calls)'
          /\ HasFailed(page, calls) => HasFailed(page, calls)'
          /\ Shows(page, calls) => Shows(page, calls)'
      BY <1>1, <1>4, <2>1 DEF Waits, HasFailed, Shows
    <3>2. DetailFits(page, calls)'
      BY <2>1, <2>4, <3>1 DEF DetailFits, DraftOf
    <3> QED BY <1>2, <1>3, <2>2, <3>2 DEF DetailIInv, OwnClaim
  <2> QED BY <2>3, <2>4 DEF DetailIInv
<1>5. CASE c.here
  <2>1. DetailFits(page, calls) /\ page \in Detail!Page
    BY <1>5 DEF DetailIInv, DetailFits
  <2>2. Shows(page, calls)
    BY <1>1, <1>5, <2>1 DEF DetailFits, Waits, HasFailed
  <2>3. PICK p : p = (IF c.kind = "party"
                      THEN [page EXCEPT !.edit = Detail!Nothing, !.saving = FALSE]
                      ELSE [page EXCEPT !.claim = Detail!Nothing, !.draft = Detail!Nothing,
                                        !.patching = FALSE])
    OBVIOUS
  <2>4. p \in Detail!Page
    BY <2>1, <2>3 DEF Detail!Page
  <2>5. DraftOf(p)
    <3>1. \/ p.claim = page.claim /\ p.draft = page.draft
          \/ p.claim = Detail!Nothing
      BY <2>1, <2>3 DEF Detail!Page
    <3> QED BY <2>1, <3>1 DEF DetailFits, DraftOf
  <2>6. PICK q : q = Detail!Reloaded(p)
    OBVIOUS
  <2>7. /\ q \in Detail!Page /\ ~q.failed /\ q.claim = p.claim /\ q.draft = p.draft
        /\ q.shown = cache
    BY <1>3, <2>2, <2>4, <2>6, ReloadedIs DEF Shows
  <2>8. page' = q /\ calls' = (calls \ {c}) \cup {Detail!LoadCall}
    BY <1>5, <2>3, <2>6 DEF Detail!SaveSucceeds
  <2>9. (\A d \in calls' : OwnClaim(d)) /\ calls' \subseteq PartyLoad \cup PartySave
    BY <1>3, <2>8, LoadCallIs DEF DetailIInv
  <2>10. Shows(page, calls)'
    BY <1>1, <1>3, <2>2, <2>7, <2>8, LoadCallIs DEF Shows
  <2>11. DetailFits(page, calls)'
    BY <2>5, <2>7, <2>8, <2>10 DEF DetailFits, DraftOf
  <2> QED BY <1>2, <1>3, <2>9, <2>11 DEF DetailIInv, OwnClaim
<1> QED BY <1>1, <1>4, <1>5 DEF PartySave

\* A save fails, and its form stays.
LEMMA DetailUnsaved ==
    ASSUME DetailIInv, NEW c \in calls, Detail!SaveFails(c) PROVE DetailIInv'
<1>1. /\ c \in PartySave /\ c.kind # "load" /\ UNCHANGED <<others, claimModel, cache>>
      /\ calls' = calls \ {c}
  BY DetailPageIs DEF Detail!SaveFails, DetailIInv
<1>2. party' \in Detail!Party
  BY <1>1, WrittenIs DEF Detail!SaveFails, DetailIInv
<1>3. /\ others' \in 0..MaxOthers /\ claimModel' \in BOOLEAN /\ cache' \in MaybeParty
      /\ (\A d \in calls' : OwnClaim(d)) /\ calls' \subseteq PartyLoad \cup PartySave
  BY <1>1 DEF DetailIInv, MaybeParty
<1>4. CASE page = Detail!Closed
  <2>1. page' = page
    BY <1>4, DetailPageIs DEF Detail!SaveFails, DetailIInv, DetailFits
  <2> QED BY <1>1, <1>2, <1>3, <1>4, <2>1, DetailPageIs DEF DetailIInv, DetailFits, OwnClaim
<1>5. CASE DetailFits(page, calls)
  <2>1. PICK q : q = page'
    OBVIOUS
  <2>2. /\ q \in Detail!Page /\ q.shown = page.shown /\ q.failed = page.failed
        /\ q.loading = page.loading /\ q.edit = page.edit
        /\ q.claim = page.claim /\ q.draft = page.draft
    <3>1. page \in Detail!Page
      BY <1>5 DEF DetailFits
    <3> QED BY <2>1, <3>1 DEF Detail!SaveFails, Detail!Page
  <2>3. /\ Waits(page, calls) => Waits(page, calls)'
        /\ HasFailed(page, calls) => HasFailed(page, calls)'
        /\ Shows(page, calls) => Shows(page, calls)'
    BY <1>1, <2>1, <2>2 DEF Waits, HasFailed, Shows
  <2>4. DetailFits(page, calls)'
    BY <1>5, <2>1, <2>2, <2>3 DEF DetailFits, DraftOf
  <2> QED BY <1>2, <1>3, <2>4 DEF DetailIInv, OwnClaim
<1> QED BY <1>4, <1>5 DEF DetailIInv

\* Every step of the page and of its neighbours at the registry keeps it.
LEMMA DetailIInvStep ==
    ASSUME Detail!DetailAssumption, DetailIInv, [Detail!Enter \/ Detail!Work]_(Detail!vars)
    PROVE  DetailIInv'
<1>1. CASE UNCHANGED Detail!vars
  BY <1>1 DEF Detail!vars, DetailIInv, DetailFits, DraftOf, Waits, HasFailed, Shows, MaybeParty,
              OwnClaim
<1>2. CASE Detail!Enter
  <2>1. PICK p : p = [open |-> TRUE, shown |-> Detail!Nothing, loading |-> TRUE,
                      failed |-> FALSE, edit |-> Detail!Nothing, saving |-> FALSE,
                      claim |-> Detail!Nothing, draft |-> Detail!Nothing, patching |-> FALSE]
    OBVIOUS
  <2>2. /\ p \in Detail!Page /\ p.shown = Detail!Nothing /\ p.edit = Detail!Nothing
        /\ p.claim = Detail!Nothing
    BY <2>1 DEF Detail!Page
  <2>3. /\ \A c \in calls : ~c.here
        /\ cache \in MaybeParty
    BY <1>2, DetailPageIs DEF Detail!Enter, DetailIInv, DetailFits
  <2>4. PICK q : q = Detail!Reloaded(p)
    OBVIOUS
  <2>5. /\ q \in Detail!Page /\ ~q.failed /\ q.edit = Detail!Nothing /\ q.claim = Detail!Nothing
        /\ cache # Detail!Nothing => q.shown = cache
        /\ cache = Detail!Nothing => q.shown = Detail!Nothing /\ q.loading
    BY <2>2, <2>3, <2>4, ReloadedIs
  <2>6. /\ page' = q /\ calls' = calls \cup {Detail!LoadCall} /\ claimModel' \in BOOLEAN
        /\ UNCHANGED <<party, others, cache>>
    BY <1>2, <2>1, <2>4 DEF Detail!Enter
  <2>7. (\A d \in calls' : OwnClaim(d)) /\ calls' \subseteq PartyLoad \cup PartySave
    BY <2>3, <2>6, LoadCallIs DEF DetailIInv
  <2>8. cache # Detail!Nothing => Shows(page, calls)'
    BY <2>3, <2>5, <2>6, LoadCallIs DEF Shows
  <2>9. cache = Detail!Nothing => Waits(page, calls)'
    BY <2>3, <2>5, <2>6, LoadCallIs DEF Waits
  <2>10. DetailFits(page, calls)'
    BY <2>5, <2>6, <2>8, <2>9 DEF DetailFits, DraftOf
  <2> QED BY <2>6, <2>7, <2>10 DEF DetailIInv, OwnClaim, MaybeParty
<1>3. CASE Detail!Leave
  <2>1. /\ page' = Detail!Closed /\ calls' = {[c EXCEPT !.here = FALSE] : c \in calls}
        /\ UNCHANGED <<party, others, claimModel, cache>>
    BY <1>3 DEF Detail!Leave
  <2>2. ASSUME NEW c \in calls, NEW d, d = [c EXCEPT !.here = FALSE]
        PROVE  d \in PartyLoad \cup PartySave /\ ~d.here /\ OwnClaim(d)
    <3>1. CASE c \in PartyLoad
      <4>1. d \in PartyLoad /\ ~d.here
        BY <2>2, <3>1 DEF PartyLoad
      <4> QED BY <4>1, DetailPageIs DEF OwnClaim
    <3>2. CASE c \in PartySave
      <4>1. d \in PartySave /\ ~d.here /\ d.kind = c.kind /\ d.body = c.body /\ d.typed = c.typed
        BY <2>2, <3>2 DEF PartySave
      <4>2. OwnClaim(c)
        BY <2>2 DEF DetailIInv
      <4> QED BY <4>1, <4>2 DEF OwnClaim
    <3> QED BY <2>2, <3>1, <3>2 DEF DetailIInv
  <2>3. \A d \in calls' : d \in PartyLoad \cup PartySave /\ ~d.here /\ OwnClaim(d)
    BY <2>1, <2>2
  <2> QED BY <2>1, <2>3 DEF DetailIInv, OwnClaim, MaybeParty
<1>4. CASE Detail!ListAnswers
  <2>1. page = Detail!Closed /\ \A c \in calls : ~c.here
    BY <1>4, DetailPageIs DEF Detail!ListAnswers, DetailIInv, DetailFits
  <2> QED BY <1>4, <2>1 DEF Detail!ListAnswers, DetailIInv, OwnClaim, MaybeParty
<1>5. CASE Detail!OthersWrite
  <2>1. party' \in Detail!Party
    <3>1. PICK k \in Detail!Field, r \in Detail!Party : party' = [party EXCEPT ![k] = r[k]]
      BY <1>5 DEF Detail!OthersWrite
    <3>2. party \in Detail!Party
      BY DEF DetailIInv
    <3>3. CASE k = "name"
      BY <3>1, <3>2, <3>3 DEF Detail!Party
    <3>4. CASE k = "note"
      BY <3>1, <3>2, <3>4 DEF Detail!Party
    <3> QED BY <3>1, <3>3, <3>4 DEF Detail!Field
  <2>2. others' \in 0..MaxOthers
    BY <1>5 DEF Detail!OthersWrite, DetailIInv, Detail!DetailAssumption
  <2> QED
    BY <1>5, <2>1, <2>2 DEF Detail!OthersWrite, DetailIInv, OwnClaim, MaybeParty, DetailFits,
                            DraftOf, Waits, HasFailed, Shows
<1>6. CASE \E c \in calls : \/ Detail!Serve(c) \/ Detail!Arrive(c) \/ Detail!LoadFails(c)
                            \/ Detail!SaveSucceeds(c) \/ Detail!SaveFails(c)
  BY <1>6, DetailServed, DetailArrived, DetailLost, DetailSaved, DetailUnsaved
<1> QED BY <1>1, <1>2, <1>3, <1>4, <1>5, <1>6, DetailEditsIInv DEF Detail!Work

-----------------------------------------------------------------------------
\* The page counts its calls as the library does.
LEMMA DetailCount == \A S : Detail!Cardinality(S) = Cardinality(S)
BY DEF Detail!Cardinality, Cardinality

\* At first no call is under way.
LEMMA CallsInitRoom == Detail!DetailAssumption /\ Detail!Init => CallsHaveRoom
BY FS_EmptySet DEF Detail!DetailAssumption, Detail!Init, CallsHaveRoom

\* One more where there was room, one in the place of another, or no more.
LEMMA CallsCount ==
    ASSUME Detail!DetailAssumption, CallsHaveRoom, NEW c, NEW d
    PROVE  /\ Detail!Room => IsFiniteSet(calls \cup {d}) /\ Cardinality(calls \cup {d}) <= MaxCalls
           /\ IsFiniteSet(calls \ {c}) /\ Cardinality(calls \ {c}) <= MaxCalls
           /\ c \in calls => /\ IsFiniteSet((calls \ {c}) \cup {d})
                             /\ Cardinality((calls \ {c}) \cup {d}) <= MaxCalls
<1>0. MaxCalls \in Nat /\ IsFiniteSet(calls) /\ Cardinality(calls) \in Nat
        /\ Cardinality(calls) <= MaxCalls
  BY FS_CardinalityType DEF Detail!DetailAssumption, CallsHaveRoom
<1>1. ASSUME Detail!Room
      PROVE  IsFiniteSet(calls \cup {d}) /\ Cardinality(calls \cup {d}) <= MaxCalls
  <2>1. Cardinality(calls) < MaxCalls
    BY <1>1, DetailCount DEF Detail!Room
  <2>2. IsFiniteSet(calls \cup {d}) /\ (\/ Cardinality(calls \cup {d}) = Cardinality(calls)
                                       \/ Cardinality(calls \cup {d}) = Cardinality(calls) + 1)
    BY <1>0, FS_AddElement
  <2> QED BY <1>0, <2>1, <2>2
<1>2. /\ IsFiniteSet(calls \ {c}) /\ Cardinality(calls \ {c}) \in Nat
      /\ Cardinality(calls \ {c}) <= MaxCalls
      /\ c \in calls => Cardinality(calls \ {c}) + 1 <= MaxCalls
  <2>1. /\ IsFiniteSet(calls \ {c})
        /\ Cardinality(calls \ {c}) = IF c \in calls THEN Cardinality(calls) - 1 ELSE Cardinality(calls)
    BY <1>0, FS_RemoveElement
  <2>2. Cardinality(calls \ {c}) \in Nat
    BY <2>1, FS_CardinalityType
  <2> QED BY <1>0, <2>1, <2>2
<1>3. /\ IsFiniteSet((calls \ {c}) \cup {d})
      /\ \/ Cardinality((calls \ {c}) \cup {d}) = Cardinality(calls \ {c})
         \/ Cardinality((calls \ {c}) \cup {d}) = Cardinality(calls \ {c}) + 1
  BY <1>2, FS_AddElement
<1> QED BY <1>0, <1>1, <1>2, <1>3

\* No step has more calls under way than there is room for.
LEMMA CallsRoomStep ==
    ASSUME Detail!DetailAssumption, CallsHaveRoom, [Detail!Enter \/ Detail!Work]_(Detail!vars)
    PROVE  CallsHaveRoom'
<1>1. CASE UNCHANGED calls
  BY <1>1 DEF CallsHaveRoom
<1>2. CASE \E d : Detail!Room /\ calls' = calls \cup {d}
  BY <1>2, CallsCount DEF CallsHaveRoom
<1>3. CASE \E c : calls' = calls \ {c}
  BY <1>3, CallsCount DEF CallsHaveRoom
<1>4. CASE \E c \in calls : \E d : calls' = (calls \ {c}) \cup {d}
  <2>0. PICK c \in calls : \E d : calls' = (calls \ {c}) \cup {d}
    BY <1>4
  <2>1. PICK d : calls' = (calls \ {c}) \cup {d}
    BY <2>0
  <2>2. /\ IsFiniteSet((calls \ {c}) \cup {d})
        /\ Cardinality((calls \ {c}) \cup {d}) <= MaxCalls
    BY CallsCount
  <2> QED BY <2>1, <2>2 DEF CallsHaveRoom
<1>5. CASE Detail!Leave
  <2>1. PICK f : f = [c \in calls |-> [c EXCEPT !.here = FALSE]]
    OBVIOUS
  <2>2. calls' = {[c EXCEPT !.here = FALSE] : c \in calls}
    BY <1>5 DEF Detail!Leave
  <2>3. f \in Surjection(calls, calls')
    BY <2>1, <2>2 DEF Surjection
  <2>4. IsFiniteSet(calls') /\ Cardinality(calls') <= Cardinality(calls)
    BY <2>3, FS_Surjection DEF CallsHaveRoom
  <2>5. Cardinality(calls') \in Nat /\ Cardinality(calls) \in Nat /\ MaxCalls \in Nat
    BY <2>4, FS_CardinalityType DEF CallsHaveRoom, Detail!DetailAssumption
  <2> QED BY <2>4, <2>5 DEF CallsHaveRoom
<1>6. CASE Detail!Enter
  BY <1>2, <1>6 DEF Detail!Enter
<1>7. CASE Detail!SaveParty
  BY <1>1, <1>2, <1>7 DEF Detail!SaveParty
<1>8. CASE Detail!SaveClaim
  BY <1>1, <1>2, <1>8 DEF Detail!SaveClaim
<1>9. ASSUME NEW c \in calls,
             \/ Detail!Serve(c) \/ Detail!Arrive(c) \/ Detail!LoadFails(c)
             \/ Detail!SaveSucceeds(c) \/ Detail!SaveFails(c)
      PROVE  CallsHaveRoom'
  <2>1. \/ calls' = calls \ {c}
        \/ \E d : calls' = (calls \ {c}) \cup {d}
    <3>1. Detail!Serve(c) => \E d : calls' = (calls \ {c}) \cup {d}
      BY DEF Detail!Serve
    <3>2. Detail!SaveSucceeds(c) =>
            calls' = (calls \ {c}) \cup {Detail!LoadCall} \/ calls' = calls \ {c}
      BY DEF Detail!SaveSucceeds
    <3> QED BY <1>9, <3>1, <3>2 DEF Detail!Arrive, Detail!LoadFails, Detail!SaveFails
  <2> QED BY <1>3, <1>4, <2>1
<1>10. CASE \/ Detail!ListAnswers \/ Detail!OthersWrite \/ Detail!StartEdit \/ Detail!CancelEdit
            \/ Detail!EditClaim \/ Detail!CloseClaim
            \/ \E v \in Names : Detail!TypeParty("name", v)
            \/ \E v \in Notes : Detail!TypeParty("note", v) \/ Detail!TypeClaim(v)
            \/ \E a \in Aliases : Detail!AddAlias(a)
  BY <1>1, <1>10 DEF Detail!ListAnswers, Detail!OthersWrite, Detail!StartEdit, Detail!CancelEdit,
        Detail!EditClaim, Detail!CloseClaim, Detail!TypeParty, Detail!TypeClaim, Detail!AddAlias
<1>11. CASE UNCHANGED Detail!vars
  BY <1>1, <1>11 DEF Detail!vars
<1> QED BY <1>5, <1>6, <1>7, <1>8, <1>9, <1>10, <1>11 DEF Detail!Work

\* So the page is never blank, and a claim is saved with what was typed.
LEMMA DetailIInvHolds ==
    ASSUME Detail!DetailAssumption, DetailIInv, CallsHaveRoom
    PROVE  Detail!TypeOK /\ Detail!NeverBlank /\ Detail!ClaimSaveIsWhatWasTyped
<1>1. Detail!Cardinality(calls) <= MaxCalls + 1
  <2>1. MaxCalls \in Nat /\ Cardinality(calls) \in Nat /\ Cardinality(calls) <= MaxCalls
    BY FS_CardinalityType DEF Detail!DetailAssumption, CallsHaveRoom
  <2> QED BY <2>1, DetailCount
<1>2. Detail!TypeOK
  BY <1>1 DEF DetailIInv, DetailFits, Detail!TypeOK, MaybeParty
<1>3. Detail!NeverBlank
  BY DEF Detail!NeverBlank, DetailIInv, DetailFits, Waits, HasFailed, Shows
<1>4. Detail!ClaimSaveIsWhatWasTyped
  BY DEF Detail!ClaimSaveIsWhatWasTyped, DetailIInv, OwnClaim
<1> QED BY <1>2, <1>3, <1>4

-----------------------------------------------------------------------------
(* AddClaim: entry and window always belong to the dataspace and the file in  *)
(* the form, and nothing of an agreement is chosen before the list is there.  *)
ClaimForm(m) ==
    /\ m \in NewClaim!Modal
    /\ m.list = "loading" => m.form.ds = NoValue /\ m.form.entry = NoValue
    /\ m.list = "listed" /\ m.form.ds \in Dataspaces /\ Catalogue[m.form.ds] # {}
         => m.form.entry \in Catalogue[m.form.ds] \cup {NoValue}
    /\ m.form.cert # NoValue => m.form.window \in {"typed", m.form.cert}

SentFits(m, c) ==
    /\ c \in NewClaim!ClaimValues
    /\ c.type = "agreement" =>
         /\ m.list # "loading"
         /\ m.list = "listed" /\ c.ds \in Dataspaces /\ Catalogue[c.ds] # {} => c.entry \in Catalogue[c.ds]
    /\ c.type = "certificate" => c.cert # NoValue /\ c.window \in {"typed", c.cert}

ClaimIInv ==
    /\ parses \subseteq [file : Files, parsable : BOOLEAN]
    /\ \/ modal = NewClaim!Closed /\ sent = NewClaim!Nothing
       \/ ClaimForm(modal) /\ (sent = NewClaim!Nothing \/ SentFits(modal, sent))

-----------------------------------------------------------------------------
\* An open dialog and a claim that was sent are not their absence.
LEMMA ClaimPageIs ==
    NewClaim!Closed \notin NewClaim!Modal /\ NewClaim!Nothing \notin NewClaim!ClaimValues
BY DEF NewClaim!Closed, NewClaim!Modal, NewClaim!Nothing, NewClaim!ClaimValues

\* At first the dialog is closed.
LEMMA ClaimInitIInv == NewClaim!Init => ClaimIInv
BY DEF NewClaim!Init, ClaimIInv

\* A step that changes the form: what was sent still fits it, as long as the
\* list is not taken back.
LEMMA ClaimEdits ==
    ASSUME ClaimIInv, modal # NewClaim!Closed, NEW q, modal' = q, ClaimForm(q),
           UNCHANGED sent, parses' \subseteq [file : Files, parsable : BOOLEAN],
           modal.list # "loading" => q.list = modal.list
    PROVE  ClaimIInv'
BY DEF ClaimIInv, ClaimForm, SentFits

\* The claim of a form that misses nothing.
LEMMA ClaimIsSent ==
    ASSUME NewClaim!ClaimAssumption, NEW m, ClaimForm(m), ~NewClaim!missing(m.form)
    PROVE  SentFits(m, NewClaim!Claim(m.form))
<1> DEFINE c == NewClaim!Claim(m.form)
<1> SUFFICES SentFits(m, c)
  OBVIOUS
<1>1. m \in NewClaim!Modal /\ m.form \in NewClaim!ClaimValues
  BY DEF ClaimForm, NewClaim!Modal
<1>2. /\ c.type = m.form.type /\ c.window = m.form.window
      /\ c.type = "agreement" => c.ds = m.form.ds /\ c.entry = m.form.entry
      /\ c.type = "certificate" => c.cert = m.form.cert
  BY DEF NewClaim!Claim
<1>3. c \in NewClaim!ClaimValues
  BY <1>1 DEF NewClaim!Claim, NewClaim!ClaimValues
<1> HIDE DEF c
<1>4. CASE c.type = "agreement"
  <2>1. m.form.ds # NoValue /\ m.form.entry # NoValue
    BY <1>2, <1>4 DEF NewClaim!missing
  <2> QED BY <1>2, <1>3, <1>4, <2>1 DEF ClaimForm, SentFits
<1>5. CASE c.type = "certificate"
  <2>1. m.form.cert # NoValue
    BY <1>2, <1>5 DEF NewClaim!missing
  <2> QED BY <1>2, <1>3, <1>5, <2>1 DEF ClaimForm, SentFits
<1>6. CASE c.type \notin {"agreement", "certificate"}
  BY <1>3, <1>6 DEF SentFits
<1> QED BY <1>4, <1>5, <1>6

\* The steps of an open dialog.
LEMMA ClaimWorkIInv ==
    ASSUME NewClaim!ClaimAssumption, ClaimIInv, NewClaim!Work PROVE ClaimIInv'
<1>0. modal # NewClaim!Closed =>
         /\ ClaimForm(modal) /\ modal \in NewClaim!Modal /\ modal.form \in NewClaim!ClaimValues
         /\ parses \subseteq [file : Files, parsable : BOOLEAN]
  BY DEF ClaimIInv, ClaimForm, NewClaim!Modal
<1>1. CASE NewClaim!Leave \/ NewClaim!Created
  BY <1>1 DEF NewClaim!Leave, NewClaim!Created, ClaimIInv
<1>2. CASE NewClaim!DataspacesArrive
  <2>1. modal # NewClaim!Closed /\ modal.list = "loading" /\ UNCHANGED <<parses, sent>>
    BY <1>2 DEF NewClaim!DataspacesArrive
  <2>2. PICK l \in {"listed", "none"} : modal' = [modal EXCEPT !.list = l]
    BY <1>2 DEF NewClaim!DataspacesArrive
  <2>3. PICK q : q = [modal EXCEPT !.list = l]
    OBVIOUS
  <2>4. q \in NewClaim!Modal /\ q.form = modal.form
    BY <1>0, <2>1, <2>3 DEF NewClaim!Modal
  <2>5. q.form.ds = NoValue /\ q.form.entry = NoValue
    BY <1>0, <2>1, <2>4 DEF ClaimForm
  <2>6. ClaimForm(q)
    BY <1>0, <2>1, <2>4, <2>5 DEF ClaimForm
  <2> QED BY <1>0, <2>1, <2>2, <2>3, <2>6, ClaimEdits
<1>3. CASE NewClaim!TypeDates
  <2>1. modal # NewClaim!Closed /\ UNCHANGED <<parses, sent>>
    BY <1>3 DEF NewClaim!TypeDates
  <2>2. PICK q : q = [modal EXCEPT !.form.window = "typed"]
    OBVIOUS
  <2>3. /\ q \in NewClaim!Modal /\ q.list = modal.list /\ q.form.ds = modal.form.ds
        /\ q.form.entry = modal.form.entry /\ q.form.cert = modal.form.cert
        /\ q.form.window = "typed"
    BY <1>0, <2>1, <2>2 DEF NewClaim!Modal, NewClaim!ClaimValues, NewClaim!Windows
  <2>4. ClaimForm(q)
    BY <1>0, <2>1, <2>3 DEF ClaimForm
  <2> QED BY <1>0, <1>3, <2>1, <2>2, <2>3, <2>4, ClaimEdits DEF NewClaim!TypeDates
<1>4. CASE NewClaim!Save
  <2>1. modal # NewClaim!Closed /\ ~NewClaim!missing(modal.form) /\ UNCHANGED parses
    BY <1>4 DEF NewClaim!Save
  <2>2. PICK q : q = [modal EXCEPT !.saving = TRUE]
    OBVIOUS
  <2>3. q \in NewClaim!Modal /\ q.list = modal.list /\ q.form = modal.form
    BY <1>0, <2>1, <2>2 DEF NewClaim!Modal
  <2>4. ClaimForm(q)
    BY <1>0, <2>1, <2>3 DEF ClaimForm
  <2>5. PICK c : c = NewClaim!Claim(modal.form)
    OBVIOUS
  <2>6. SentFits(modal, c)
    BY <1>0, <2>1, <2>5, ClaimIsSent
  <2>7. SentFits(q, c)
    BY <2>3, <2>6 DEF SentFits
  <2>8. modal' = q /\ sent' = c
    BY <1>4, <2>2, <2>5 DEF NewClaim!Save
  <2> QED BY <1>0, <2>1, <2>4, <2>7, <2>8 DEF ClaimIInv
<1>5. CASE NewClaim!Refused
  <2>1. PICK q : q = [modal EXCEPT !.saving = FALSE]
    OBVIOUS
  <2>2. q \in NewClaim!Modal /\ q.list = modal.list /\ q.form = modal.form
    BY <1>0, <1>5, <2>1 DEF NewClaim!Refused, NewClaim!Modal
  <2>3. ClaimForm(q)
    BY <1>0, <1>5, <2>2 DEF ClaimForm, NewClaim!Refused
  <2> QED BY <1>0, <1>5, <2>1, <2>2, <2>3, ClaimEdits DEF NewClaim!Refused
<1>6. ASSUME NEW type \in NewClaim!Types, NewClaim!ChangeType(type) PROVE ClaimIInv'
  <2>1. PICK f : f = NewClaim!OfType(modal.form, type)
    OBVIOUS
  <2>2. /\ f \in NewClaim!ClaimValues /\ f.ds = NoValue /\ f.entry = NoValue /\ f.cert = NoValue
    BY <1>0, <1>6, <2>1 DEF NewClaim!ChangeType, NewClaim!OfType, NewClaim!ClaimValues
  <2>3. PICK q : q = [modal EXCEPT !.form = f]
    OBVIOUS
  <2>4. q \in NewClaim!Modal /\ q.list = modal.list /\ q.form = f
    BY <1>0, <1>6, <2>2, <2>3 DEF NewClaim!ChangeType, NewClaim!Modal
  <2>5. ClaimForm(q)
    BY <2>2, <2>4 DEF ClaimForm
  <2> QED BY <1>0, <1>6, <2>1, <2>3, <2>4, <2>5, ClaimEdits DEF NewClaim!ChangeType
<1>7. ASSUME NEW ds \in Dataspaces \cup {NoValue}, NewClaim!ChooseDataspace(ds) PROVE ClaimIInv'
  <2>1. modal # NewClaim!Closed /\ modal.list # "loading" /\ UNCHANGED <<parses, sent>>
    BY <1>7 DEF NewClaim!ChooseDataspace
  <2>2. PICK f : f = NewClaim!setDataspace(modal.form, ds)
    OBVIOUS
  <2>3. /\ f \in NewClaim!ClaimValues /\ f.ds = ds /\ f.cert = modal.form.cert
        /\ f.window = modal.form.window
        /\ f.entry = IF NewClaim!EntriesOf(ds) # {} /\ modal.form.entry \notin NewClaim!EntriesOf(ds)
                     THEN NoValue ELSE modal.form.entry
    BY <1>0, <2>1, <2>2 DEF NewClaim!setDataspace, NewClaim!ClaimValues
  <2>4. PICK q : q = [modal EXCEPT !.form = f]
    OBVIOUS
  <2>5. q \in NewClaim!Modal /\ q.list = modal.list /\ q.form = f
    BY <1>0, <2>1, <2>3, <2>4 DEF NewClaim!Modal
  <2>6. modal.list = "listed" /\ ds \in Dataspaces => NewClaim!EntriesOf(ds) = Catalogue[ds]
    BY DEF NewClaim!EntriesOf
  <2>7. ClaimForm(q)
    BY <1>0, <2>1, <2>3, <2>5, <2>6 DEF ClaimForm
  <2> QED BY <1>0, <1>7, <2>1, <2>2, <2>4, <2>5, <2>7, ClaimEdits DEF NewClaim!ChooseDataspace
<1>8. ASSUME NEW entry \in Entries \cup {NoValue}, NewClaim!ChooseEntry(entry) PROVE ClaimIInv'
  <2>1. /\ modal # NewClaim!Closed /\ modal.list # "loading" /\ UNCHANGED <<parses, sent>>
        /\ NewClaim!EntriesOf(modal.form.ds) # {} =>
             entry \in NewClaim!EntriesOf(modal.form.ds) \cup {NoValue}
    BY <1>8 DEF NewClaim!ChooseEntry
  <2>2. PICK q : q = [modal EXCEPT !.form.entry = entry]
    OBVIOUS
  <2>3. /\ q \in NewClaim!Modal /\ q.list = modal.list /\ q.form.ds = modal.form.ds
        /\ q.form.entry = entry /\ q.form.cert = modal.form.cert
        /\ q.form.window = modal.form.window
    BY <1>0, <2>1, <2>2 DEF NewClaim!Modal, NewClaim!ClaimValues
  <2>4. modal.list = "listed" /\ modal.form.ds \in Dataspaces
          => NewClaim!EntriesOf(modal.form.ds) = Catalogue[modal.form.ds]
    BY DEF NewClaim!EntriesOf
  <2>5. ClaimForm(q)
    BY <1>0, <2>1, <2>3, <2>4 DEF ClaimForm
  <2> QED BY <1>0, <1>8, <2>1, <2>2, <2>3, <2>5, ClaimEdits DEF NewClaim!ChooseEntry
<1>9. ASSUME NEW f \in Files, NEW parsable \in BOOLEAN, NewClaim!ChooseFile(f, parsable) PROVE ClaimIInv'
  <2>1. modal # NewClaim!Closed /\ UNCHANGED <<modal, sent>>
          /\ parses' = parses \cup {[file |-> f, parsable |-> parsable]}
    BY <1>9 DEF NewClaim!ChooseFile
  <2>2. parses' \subseteq [file : Files, parsable : BOOLEAN]
    BY <1>0, <2>1
  <2> QED BY <2>1, <2>2 DEF ClaimIInv, ClaimForm, SentFits
<1>10. ASSUME NEW p \in parses, NewClaim!Parsed(p) PROVE ClaimIInv'
  <2>1. modal # NewClaim!Closed /\ parses' = parses \ {p} /\ UNCHANGED sent /\ p.file \in Files
    BY <1>0, <1>10 DEF NewClaim!Parsed
  <2>2. PICK q : q = [modal EXCEPT !.form.cert = p.file, !.form.window = p.file]
    OBVIOUS
  <2>3. /\ q \in NewClaim!Modal /\ q.list = modal.list /\ q.form.ds = modal.form.ds
        /\ q.form.entry = modal.form.entry /\ q.form.cert = p.file
        /\ q.form.window = p.file
    BY <1>0, <2>1, <2>2 DEF NewClaim!Modal, NewClaim!ClaimValues, NewClaim!Windows
  <2>4. ClaimForm(q)
    BY <1>0, <2>1, <2>3 DEF ClaimForm
  <2> QED BY <1>0, <1>10, <2>1, <2>2, <2>3, <2>4, ClaimEdits DEF NewClaim!Parsed
<1>11. ASSUME NEW p \in parses, NewClaim!ParseFails(p) PROVE ClaimIInv'
  <2>1. modal # NewClaim!Closed /\ parses' = parses \ {p} /\ UNCHANGED sent
    BY <1>11 DEF NewClaim!ParseFails
  <2>2. PICK q : q = [modal EXCEPT !.form.cert = NoValue]
    OBVIOUS
  <2>3. /\ q \in NewClaim!Modal /\ q.list = modal.list /\ q.form.ds = modal.form.ds
        /\ q.form.entry = modal.form.entry /\ q.form.cert = NoValue
    BY <1>0, <2>1, <2>2 DEF NewClaim!Modal, NewClaim!ClaimValues
  <2>4. ClaimForm(q)
    BY <1>0, <2>1, <2>3 DEF ClaimForm
  <2> QED BY <1>0, <1>11, <2>1, <2>2, <2>3, <2>4, ClaimEdits DEF NewClaim!ParseFails
<1> QED BY <1>1, <1>2, <1>3, <1>4, <1>5, <1>6, <1>7, <1>8, <1>9, <1>10, <1>11 DEF NewClaim!Work

\* Every step keeps entry and window to the dataspace and the file.
LEMMA ClaimIInvStep ==
    ASSUME NewClaim!ClaimAssumption, ClaimIInv, [NewClaim!Enter \/ NewClaim!Work]_(NewClaim!vars)
    PROVE  ClaimIInv'
<1>1. CASE UNCHANGED NewClaim!vars
  BY <1>1 DEF NewClaim!vars, ClaimIInv, ClaimForm, SentFits
<1>2. CASE NewClaim!Enter
  <2>1. PICK q : q = [open |-> TRUE, form |-> NewClaim!FirstForm, list |-> "loading", saving |-> FALSE]
    OBVIOUS
  <2>2. NewClaim!FirstForm \in NewClaim!ClaimValues
    BY DEF NewClaim!FirstForm, NewClaim!ClaimValues, NewClaim!Types, NewClaim!Windows
  <2>3. ClaimForm(q)
    <3>1. q \in NewClaim!Modal /\ q.list = "loading" /\ q.form = NewClaim!FirstForm
      BY <2>1, <2>2 DEF NewClaim!Modal
    <3> QED BY <3>1 DEF ClaimForm, NewClaim!FirstForm
  <2>4. modal' = q /\ parses' = {} /\ sent' = NewClaim!Nothing
    BY <1>2, <2>1 DEF NewClaim!Enter
  <2> QED BY <2>3, <2>4 DEF ClaimIInv
<1> QED BY <1>1, <1>2, ClaimWorkIInv

\* So what is sent fits its dataspace and its certificate.
LEMMA ClaimIInvHolds ==
    ASSUME NewClaim!ClaimAssumption, ClaimIInv
    PROVE  NewClaim!TypeOK /\ NewClaim!ClaimFitsItsDataspace /\ NewClaim!CertificateGivesItsWindow
<1>1. NewClaim!TypeOK
  BY DEF ClaimIInv, ClaimForm, SentFits, NewClaim!TypeOK
<1>2. NewClaim!ClaimFitsItsDataspace
  BY DEF ClaimIInv, SentFits, NewClaim!ClaimFitsItsDataspace, NewClaim!EntriesOf
<1>3. NewClaim!CertificateGivesItsWindow
  BY DEF ClaimIInv, SentFits, NewClaim!CertificateGivesItsWindow, NewClaim!ClaimAssumption
<1> QED BY <1>1, <1>2, <1>3

-----------------------------------------------------------------------------
(* AgreementUpload: its property is inductive with the type.                  *)
UploadIInv == Upload!TypeOK /\ Upload!FileAndTitleAreTrue

\* At first no agreement is chosen.
LEMMA UploadInitIInv == Upload!Init => UploadIInv
BY DEF Upload!Init, UploadIInv, Upload!TypeOK, Upload!FileAndTitleAreTrue

\* A step that keeps file and hash, and a typed title, together.
LEMMA UploadEdits ==
    ASSUME NEW q \in Upload!Claim, claim' = q, hashes' \subseteq Docs,
           q.file # NoDoc => q.hash = q.file, q.typed => q.title = "typed"
    PROVE  UploadIInv'
BY DEF UploadIInv, Upload!TypeOK, Upload!FileAndTitleAreTrue

\* Every step keeps them together, whatever hash comes late.
LEMMA UploadIInvStep ==
    ASSUME Upload!UploadAssumption, UploadIInv, [Upload!Enter \/ Upload!Work]_(Upload!vars)
    PROVE  UploadIInv'
<1>0. /\ hashes \subseteq Docs
      /\ claim # Upload!Closed => /\ claim \in Upload!Claim
                                  /\ claim.file # NoDoc => claim.hash = claim.file
                                  /\ claim.typed => claim.title = "typed"
  BY DEF UploadIInv, Upload!TypeOK, Upload!FileAndTitleAreTrue
<1>1. CASE UNCHANGED Upload!vars
  BY <1>1 DEF Upload!vars, UploadIInv, Upload!TypeOK, Upload!FileAndTitleAreTrue
<1>2. CASE Upload!Enter
  <2>1. PICK q : q = [open |-> TRUE, title |-> "", typed |-> FALSE, file |-> NoDoc, hash |-> NoDoc]
    OBVIOUS
  <2>2. q \in Upload!Claim /\ q.file = NoDoc /\ q.typed = FALSE
    BY <2>1 DEF Upload!Claim, Upload!Titles
  <2> QED BY <1>2, <2>1, <2>2, UploadEdits DEF Upload!Enter
<1>3. CASE Upload!Leave
  BY <1>3 DEF Upload!Leave, UploadIInv, Upload!TypeOK, Upload!FileAndTitleAreTrue
<1>4. CASE Upload!RefuseFile
  <2>1. PICK q : q = [claim EXCEPT !.file = NoDoc]
    OBVIOUS
  <2>2. q \in Upload!Claim /\ q.file = NoDoc /\ q.typed = claim.typed /\ q.title = claim.title
    BY <1>0, <1>4, <2>1 DEF Upload!RefuseFile, Upload!Claim
  <2> QED BY <1>0, <1>4, <2>1, <2>2, UploadEdits DEF Upload!RefuseFile
<1>5. CASE Upload!clearAgreement
  <2>1. PICK q : q = [claim EXCEPT !.hash = NoDoc, !.file = NoDoc,
                                   !.title = IF @ = Upload!PrefillOf(claim) THEN "" ELSE @]
    OBVIOUS
  <2>2. /\ q \in Upload!Claim /\ q.file = NoDoc /\ q.typed = claim.typed
        /\ q.title = IF claim.title = Upload!PrefillOf(claim) THEN "" ELSE claim.title
    BY <1>0, <1>5, <2>1 DEF Upload!clearAgreement, Upload!Claim, Upload!Titles
  <2>3. Upload!PrefillOf(claim) # "typed"
    BY <1>0, <1>5 DEF Upload!clearAgreement, Upload!Claim, Upload!PrefillOf, Upload!UploadAssumption
  <2> QED BY <1>0, <1>5, <2>1, <2>2, <2>3, UploadEdits DEF Upload!clearAgreement
<1>6. ASSUME NEW title \in {"", "typed"}, Upload!TypeTitle(title) PROVE UploadIInv'
  <2>1. PICK b \in BOOLEAN : b <=> title = "typed"
    OBVIOUS
  <2>2. PICK q : q = [claim EXCEPT !.title = title, !.typed = b]
    OBVIOUS
  <2>3. /\ q \in Upload!Claim /\ q.file = claim.file /\ q.hash = claim.hash
        /\ q.title = title /\ q.typed = b
    BY <1>0, <1>6, <2>2 DEF Upload!TypeTitle, Upload!Claim, Upload!Titles
  <2>4. claim' = q /\ UNCHANGED hashes
    BY <1>6, <2>1, <2>2 DEF Upload!TypeTitle
  <2> QED BY <1>0, <1>6, <2>1, <2>3, <2>4, UploadEdits DEF Upload!TypeTitle
<1>7. ASSUME NEW d \in Docs, Upload!ChooseFile(d) PROVE UploadIInv'
  BY <1>0, <1>7 DEF Upload!ChooseFile, UploadIInv, Upload!TypeOK, Upload!FileAndTitleAreTrue
<1>8. ASSUME NEW d \in Docs, Upload!Hashed(d) PROVE UploadIInv'
  <2>1. PICK q : q = Upload!Attached(claim, d)
    OBVIOUS
  <2>2. /\ q \in Upload!Claim /\ q.file = d /\ q.hash = d /\ q.typed = claim.typed
        /\ q.title = IF Upload!keepTitle(claim) THEN claim.title ELSE d
    BY <1>0, <1>8, <2>1 DEF Upload!Hashed, Upload!Attached, Upload!Claim, Upload!Titles
  <2>3. claim.typed => Upload!keepTitle(claim)
    BY <1>0, <1>8 DEF Upload!Hashed, Upload!Claim, Upload!PrefillOf, Upload!keepTitle, Upload!UploadAssumption
  <2> QED BY <1>0, <1>8, <2>1, <2>2, <2>3, UploadEdits DEF Upload!Hashed
<1>9. ASSUME NEW d \in Docs, Upload!Unreadable(d) PROVE UploadIInv'
  <2>1. PICK q : q = [claim EXCEPT !.file = NoDoc, !.hash = NoDoc]
    OBVIOUS
  <2>2. q \in Upload!Claim /\ q.file = NoDoc /\ q.typed = claim.typed /\ q.title = claim.title
    BY <1>0, <1>9, <2>1 DEF Upload!Unreadable, Upload!Claim
  <2> QED BY <1>0, <1>9, <2>1, <2>2, UploadEdits DEF Upload!Unreadable
<1> QED BY <1>1, <1>2, <1>3, <1>4, <1>5, <1>6, <1>7, <1>8, <1>9 DEF Upload!Work

-----------------------------------------------------------------------------
(* SubmitClaims: what was on the review is kept with the tick until the form  *)
(* leaves it, and the steps passed keep what they asked for.                  *)
Reading == [index : 0..MaxExtras, file : Files, id : Creation!Identity]

CreationFits(f, r) ==
    /\ f \in Creation!Form /\ Len(f.data.extras) <= MaxExtras
    /\ f.typed => f.data.id = "typed"
    /\ f.step \in {2, 3, 4} => f.data.id # "none"
    /\ f.step \in {3, 4} => f.data.framework
    /\ f.seen # Creation!Nothing => f.step = 4 /\ r = {} /\ f.data = f.seen

CreationIInv ==
    /\ reads \subseteq Reading
    /\ form = Creation!Closed \/ CreationFits(form, reads)
    /\ \/ posted = Creation!Nothing
       \/ /\ posted \in [data : Creation!Data, seen : {Creation!Nothing} \cup Creation!Data]
          /\ posted.seen # Creation!Nothing => posted.data = posted.seen
          /\ posted.data.id # "none" /\ posted.data.framework

-----------------------------------------------------------------------------
\* A form, its data and what was posted are not their absence.
LEMMA CreationPageIs ==
    /\ Creation!Closed \notin Creation!Form
    /\ Creation!Nothing \notin Creation!Data
    /\ Creation!Nothing \notin [data : Creation!Data, seen : {Creation!Nothing} \cup Creation!Data]
BY DEF Creation!Closed, Creation!Form, Creation!Nothing, Creation!Data

\* At first the form is closed.
LEMMA CreationInitIInv == Creation!Init => CreationIInv
BY DEF Creation!Init, CreationIInv

\* A step that posts nothing.
LEMMA CreationQuiet ==
    ASSUME CreationIInv, NEW q, NEW r \in SUBSET Reading, form' = q, reads' = r,
           q = Creation!Closed \/ CreationFits(q, r), posted' = Creation!Nothing
    PROVE  CreationIInv'
BY DEF CreationIInv, CreationFits

\* What a form that fits holds.
LEMMA CreationFormIs ==
    ASSUME NEW f, NEW r, CreationFits(f, r)
    PROVE  /\ f \in Creation!Form /\ f.data \in Creation!Data /\ f.step \in 0..4
           /\ f.data.extras \in Seq(Creation!Extra) /\ Len(f.data.extras) \in Nat
           /\ DOMAIN f.data.extras = 1..Len(f.data.extras)
           /\ \A i \in DOMAIN f.data.extras : f.data.extras[i] \in Creation!Extra
<1>1. f \in Creation!Form
  BY DEF CreationFits
<1>2. f.data \in Creation!Data /\ f.step \in 0..4
  BY <1>1 DEF Creation!Form, Creation!Steps
<1>3. f.data.extras \in Seq(Creation!Extra)
  BY <1>2 DEF Creation!Data
<1> QED BY <1>1, <1>2, <1>3

\* The claims change, before the review or by a file that was still being read.
LEMMA CreationDataFits ==
    ASSUME NEW f, NEW r, CreationFits(f, r), f.seen = Creation!Nothing,
           NEW e \in Creation!Data, Len(e.extras) <= MaxExtras,
           f.typed => e.id = "typed",
           f.step \in {2, 3, 4} => e.id # "none",
           f.step \in {3, 4} => e.framework,
           NEW s
    PROVE  CreationFits([f EXCEPT !.data = e], s)
<1>1. f \in Creation!Form
  BY DEF CreationFits
<1>2. PICK q : q = [f EXCEPT !.data = e]
  OBVIOUS
<1>3. /\ q \in Creation!Form /\ q.data = e /\ q.typed = f.typed /\ q.step = f.step
      /\ q.seen = f.seen
  BY <1>1, <1>2 DEF Creation!Form
<1>4. CreationFits(q, s)
  BY <1>3 DEF CreationFits
<1> QED BY <1>2, <1>4

\* What an edit at one of the first steps leaves as it was.
LEMMA CreationEdits ==
    ASSUME CreationIInv, form # Creation!Closed, form.step # 4,
           NEW e \in Creation!Data, Len(e.extras) <= MaxExtras, Creation!Edit(e),
           e.id = form.data.id,
           form.step \in {3, 4} => e.framework, posted' = Creation!Nothing
    PROVE  CreationIInv'
<1>1. CreationFits(form, reads) /\ reads \in SUBSET Reading
  BY DEF CreationIInv
<1>2. form.seen = Creation!Nothing
  BY <1>1 DEF CreationFits
<1>3. PICK q : q = [form EXCEPT !.data = e]
  OBVIOUS
<1>4. CreationFits([form EXCEPT !.data = e], reads)
  BY <1>1, <1>2, CreationDataFits DEF CreationFits
<1>5. form' = q /\ reads' = reads
  BY <1>3 DEF Creation!Edit
<1> QED BY <1>1, <1>3, <1>4, <1>5, CreationQuiet

-----------------------------------------------------------------------------
\* What the files do to the claims leaves the rest of the form alone.
LEMMA CertIsSet ==
    ASSUME NEW d \in Creation!Data, NEW i, NEW cert \in Creation!Certs
    PROVE  LET e == Creation!WithCert(d, i, cert)
           IN  /\ e \in Creation!Data /\ e.id = d.id /\ e.framework = d.framework
               /\ Len(e.extras) = Len(d.extras)
<1>0. d.extras \in Seq(Creation!Extra) /\ Len(d.extras) \in Nat /\ DOMAIN d.extras = 1..Len(d.extras)
        /\ \A k \in DOMAIN d.extras : d.extras[k] \in Creation!Extra
  <2>1. d.extras \in Seq(Creation!Extra)
    BY DEF Creation!Data
  <2> QED BY <2>1
<1>1. CASE i = Creation!Own
  <2>1. Creation!WithCert(d, i, cert) = [d EXCEPT !.cert = cert]
    BY <1>1 DEF Creation!WithCert
  <2> QED BY <2>1 DEF Creation!Data
<1>2. CASE i # Creation!Own /\ i \in DOMAIN d.extras
  <2>1. PICK x : x = [d.extras[i] EXCEPT !.cert = cert]
    OBVIOUS
  <2>2. x \in Creation!Extra
    BY <1>0, <1>2, <2>1 DEF Creation!Extra
  <2>3. PICK s : s = [d.extras EXCEPT ![i] = x]
    OBVIOUS
  <2>8. d.extras \in Seq(Creation!Extra)
    BY <1>0
  <2>4. s \in Seq(Creation!Extra) /\ Len(s) = Len(d.extras)
    BY <1>2, <2>2, <2>3, <2>8
  <2>5. PICK e : e = [d EXCEPT !.extras = s]
    OBVIOUS
  <2>6. e \in Creation!Data /\ e.id = d.id /\ e.framework = d.framework /\ e.extras = s
    BY <2>4, <2>5 DEF Creation!Data
  <2>7. Creation!WithCert(d, i, cert) = e
    BY <1>2, <2>1, <2>3, <2>5 DEF Creation!WithCert
  <2> QED BY <2>4, <2>6, <2>7
<1>3. CASE i # Creation!Own /\ i \notin DOMAIN d.extras
  BY <1>3 DEF Creation!WithCert
<1> QED BY <1>1, <1>2, <1>3

\* The window read from a file is put where the file was (WithWindow).
LEMMA WindowIsSet ==
    ASSUME NEW d \in Creation!Data, NEW f \in Files
    PROVE  LET e == Creation!WithWindow(d, f)
           IN  /\ e \in Creation!Data /\ e.id = d.id /\ e.framework = d.framework
               /\ Len(e.extras) = Len(d.extras)
<1>0. d.extras \in Seq(Creation!Extra) /\ Len(d.extras) \in Nat /\ DOMAIN d.extras = 1..Len(d.extras)
        /\ \A k \in DOMAIN d.extras : d.extras[k] \in Creation!Extra
  <2>1. d.extras \in Seq(Creation!Extra)
    BY DEF Creation!Data
  <2> QED BY <2>1
<1>1. PICK s : s = [k \in DOMAIN d.extras |-> [d.extras[k] EXCEPT !.window = f]]
  OBVIOUS
<1>2. \A x \in Creation!Extra : [x EXCEPT !.window = f] \in Creation!Extra
  BY DEF Creation!Extra, Creation!Windows
<1>3. PICK n \in Nat : n = Len(d.extras) /\ DOMAIN d.extras = 1..n
  BY <1>0
<1>8. s \in [1..n -> Creation!Extra]
  BY <1>0, <1>1, <1>2, <1>3
<1>9. s \in Seq(Creation!Extra) /\ Len(s) = n
  BY <1>8
<1>4. s \in Seq(Creation!Extra) /\ Len(s) = Len(d.extras)
  BY <1>3, <1>9
<1>5. PICK e : e = [d EXCEPT !.window = f, !.extras = s]
  OBVIOUS
<1>6. e \in Creation!Data /\ e.id = d.id /\ e.framework = d.framework /\ e.extras = s
  BY <1>4, <1>5 DEF Creation!Data, Creation!Windows
<1>7. Creation!WithWindow(d, f) = e
  BY <1>1, <1>5 DEF Creation!WithWindow
<1> QED BY <1>4, <1>6, <1>7

\* A file is read late: it names the party only where nobody did.
LEMMA FileIsRead ==
    ASSUME Creation!SubmitAssumption, CreationIInv, NEW r \in reads, Creation!FileRead(r),
           posted' = Creation!Nothing
    PROVE  CreationIInv'
<1>1. form # Creation!Closed /\ reads' = reads \ {r}
  BY DEF Creation!FileRead
<1>2. CreationFits(form, reads) /\ reads \subseteq Reading
  BY <1>1 DEF CreationIInv
<1>3. form \in Creation!Form /\ form.data \in Creation!Data /\ r.file \in Files
        /\ form.seen = Creation!Nothing /\ Len(form.data.extras) <= MaxExtras
  BY <1>2, CreationFormIs DEF CreationFits, Reading
<1>4. PICK named, dated \in BOOLEAN :
         LET d == Creation!WithCert(form.data, r.index, r.file)
             e == IF dated THEN Creation!WithWindow(d, r.file) ELSE d
             id == IF named THEN Creation!Prefilled(r) ELSE e.id
         IN form' = [form EXCEPT !.data = [e EXCEPT !.id = id],
                                 !.defaults = IF dated THEN r.file ELSE @]
  BY DEF Creation!FileRead
<1> DEFINE D == Creation!WithCert(form.data, r.index, r.file)
           E == IF dated THEN Creation!WithWindow(D, r.file) ELSE D
           I == IF named THEN Creation!Prefilled(r) ELSE E.id
<1>5. D \in Creation!Data /\ D.id = form.data.id /\ D.framework = form.data.framework
        /\ Len(D.extras) = Len(form.data.extras)
  BY <1>3, CertIsSet DEF Creation!Certs
<1>6. E \in Creation!Data /\ E.id = form.data.id /\ E.framework = form.data.framework
        /\ Len(E.extras) = Len(form.data.extras)
  <2> HIDE DEF D
  <2>1. CASE dated
    <3>1. E = Creation!WithWindow(D, r.file)
      BY <2>1
    <3> HIDE DEF E
    <3> QED BY <1>3, <1>5, <3>1, WindowIsSet
  <2>2. CASE ~dated
    BY <1>5, <2>2
  <2> QED BY <2>1, <2>2
<1>7. form' = [form EXCEPT !.data = [E EXCEPT !.id = I], !.defaults = IF dated THEN r.file ELSE @]
  BY <1>4
<1>8. I \in Creation!Identity /\ (form.data.id # "none" => I = form.data.id)
  <2> HIDE DEF E
  <2> QED BY <1>3, <1>6 DEF Creation!Prefilled, Creation!Identity, Creation!Data
<1> HIDE DEF D, E, I
<1>9. PICK e : e = [E EXCEPT !.id = I]
  OBVIOUS
<1>10. e \in Creation!Data /\ e.id = I /\ e.framework = form.data.framework /\ Len(e.extras) <= MaxExtras
  <2>1. e \in Creation!Data /\ e.id = I /\ e.framework = E.framework /\ e.extras = E.extras
    BY <1>6, <1>8, <1>9 DEF Creation!Data
  <2> QED BY <1>3, <1>6, <2>1
<1>11. PICK g : g = [form EXCEPT !.defaults = IF dated THEN r.file ELSE @]
  OBVIOUS
<1>12. /\ g \in Creation!Form /\ g.data = form.data /\ g.typed = form.typed /\ g.step = form.step
       /\ g.seen = form.seen
  BY <1>3, <1>11 DEF Creation!Form, Creation!Windows
<1>13. CreationFits(g, reads)
  BY <1>2, <1>12 DEF CreationFits
<1>14. CreationFits([g EXCEPT !.data = e], reads \ {r})
  <2>1. g.typed => e.id = "typed"
    BY <1>8, <1>10, <1>13, <1>12 DEF CreationFits
  <2>2. g.step \in {2, 3, 4} => e.id # "none"
    BY <1>8, <1>10, <1>13, <1>12 DEF CreationFits
  <2>3. g.step \in {3, 4} => e.framework
    BY <1>10, <1>13, <1>12 DEF CreationFits
  <2> QED BY <1>3, <1>10, <1>12, <1>13, <2>1, <2>2, <2>3, CreationDataFits
<1>15. form' = [g EXCEPT !.data = e]
  BY <1>3, <1>7, <1>9, <1>11 DEF Creation!Form
<1>16. PICK q : q = [g EXCEPT !.data = e]
  OBVIOUS
<1> QED BY <1>1, <1>2, <1>14, <1>15, <1>16, CreationQuiet

\* A file nothing can be read from leaves the form.
LEMMA FileIsUnreadable ==
    ASSUME Creation!SubmitAssumption, CreationIInv, NEW r \in reads, Creation!FileUnreadable(r),
           posted' = Creation!Nothing
    PROVE  CreationIInv'
<1>1. /\ form # Creation!Closed /\ reads' = reads \ {r}
      /\ form' = [form EXCEPT !.data = Creation!WithCert(@, r.index, NoValue)]
  BY DEF Creation!FileUnreadable
<1>2. CreationFits(form, reads) /\ reads \subseteq Reading
  BY <1>1 DEF CreationIInv
<1>3. form \in Creation!Form /\ form.data \in Creation!Data
        /\ form.seen = Creation!Nothing /\ Len(form.data.extras) <= MaxExtras
  BY <1>2, CreationFormIs DEF CreationFits
<1>4. PICK e : e = Creation!WithCert(form.data, r.index, NoValue)
  OBVIOUS
<1>5. e \in Creation!Data /\ e.id = form.data.id /\ e.framework = form.data.framework
        /\ Len(e.extras) = Len(form.data.extras)
  BY <1>3, <1>4, CertIsSet DEF Creation!Certs
<1>6. CreationFits([form EXCEPT !.data = e], reads \ {r})
  BY <1>2, <1>3, <1>5, CreationDataFits DEF CreationFits
<1>7. form' = [form EXCEPT !.data = e]
  BY <1>1, <1>3, <1>4 DEF Creation!Form
<1>8. PICK q : q = [form EXCEPT !.data = e]
  OBVIOUS
<1> QED BY <1>1, <1>2, <1>6, <1>7, <1>8, CreationQuiet

-----------------------------------------------------------------------------
\* The steps of the list of further claims.
LEMMA ExtrasIInv ==
    ASSUME Creation!SubmitAssumption, CreationIInv, form # Creation!Closed,
           posted' = Creation!Nothing,
           NEW i \in DOMAIN form.data.extras,
           \/ Creation!RemoveExtra(i)
           \/ \E type \in {"plain", "certificate"} : Creation!ChangeType(i, type)
           \/ \E b \in BOOLEAN : Creation!FillExtra(i, b)
    PROVE  CreationIInv'
<1>1. CreationFits(form, reads) /\ form.step = 3
  BY DEF CreationIInv, Creation!RemoveExtra, Creation!ChangeType, Creation!FillExtra, Creation!At
<1>2. /\ form \in Creation!Form /\ form.data \in Creation!Data
      /\ form.data.extras \in Seq(Creation!Extra) /\ Len(form.data.extras) \in Nat
      /\ i \in 1..Len(form.data.extras) /\ form.data.extras[i] \in Creation!Extra
      /\ Len(form.data.extras) <= MaxExtras /\ form.data.framework
  BY <1>1, CreationFormIs DEF CreationFits
<1>3. ASSUME NEW s \in Seq(Creation!Extra), Len(s) <= MaxExtras,
             Creation!Edit([form.data EXCEPT !.extras = s])
      PROVE  CreationIInv'
  <2>1. PICK e : e = [form.data EXCEPT !.extras = s]
    OBVIOUS
  <2>2. e \in Creation!Data /\ e.extras = s /\ e.id = form.data.id /\ e.framework = form.data.framework
    BY <1>2, <2>1 DEF Creation!Data
  <2>3. Creation!Edit(e) /\ Len(e.extras) <= MaxExtras
    BY <1>3, <2>1, <2>2
  <2>4. form.step # 4
    BY <1>1
  <2> QED BY <1>2, <2>2, <2>3, <2>4, CreationEdits
<1>4. ASSUME NEW x \in Creation!Extra, Creation!Edit([form.data EXCEPT !.extras[i] = x])
      PROVE  CreationIInv'
  <2>1. PICK s : s = [form.data.extras EXCEPT ![i] = x]
    OBVIOUS
  <2>2. s \in Seq(Creation!Extra) /\ Len(s) = Len(form.data.extras)
    BY <1>2, <2>1
  <2>3. [form.data EXCEPT !.extras[i] = x] = [form.data EXCEPT !.extras = s]
    BY <2>1
  <2> QED BY <1>2, <1>3, <1>4, <2>2, <2>3
<1>5. CASE Creation!RemoveExtra(i)
  <2>1. PICK n \in Nat, u \in Seq(Creation!Extra) : n = Len(form.data.extras) /\ u = form.data.extras
    BY <1>2
  <2>2. i \in 1..n /\ Len(u) = n
    BY <1>2, <2>1
  <2> DEFINE a == SubSeq(u, 1, i - 1)
             z == SubSeq(u, i + 1, n)
             s == a \o z
  <2>6. a \in Seq(Creation!Extra) /\ Len(a) = i - 1
    BY <2>1, <2>2
  <2>7. z \in Seq(Creation!Extra) /\ Len(z) = n - i
    BY <2>1, <2>2
  <2>3. s \in Seq(Creation!Extra) /\ Len(s) = n - 1
    <3> HIDE DEF a, z
    <3>1. s \in Seq(Creation!Extra) /\ Len(s) = Len(a) + Len(z)
      BY <2>6, <2>7
    <3>2. (i - 1) + (n - i) = n - 1
      BY <2>1, <2>2
    <3> QED BY <2>6, <2>7, <3>1, <3>2
  <2>4. Creation!Edit([form.data EXCEPT !.extras = s])
    BY <1>5, <2>1 DEF Creation!RemoveExtra
  <2>5. Len(s) <= MaxExtras
    <3>1. n <= MaxExtras /\ MaxExtras \in Nat
      BY <1>2, <2>1 DEF Creation!SubmitAssumption
    <3>2. Len(s) = n - 1
      BY <2>3
    <3> HIDE DEF s
    <3> QED BY <3>1, <3>2
  <2> HIDE DEF s
  <2> QED BY <1>3, <2>3, <2>4, <2>5
<1>6. ASSUME NEW type \in {"plain", "certificate"}, Creation!ChangeType(i, type) PROVE CreationIInv'
  <2>1. PICK x : x = [form.data.extras[i] EXCEPT !.type = type, !.text = FALSE, !.cert = NoValue]
    OBVIOUS
  <2>2. x \in Creation!Extra
    BY <1>2, <2>1 DEF Creation!Extra, Creation!Certs
  <2>3. Creation!Edit([form.data EXCEPT !.extras[i] = x])
    BY <1>6, <2>1 DEF Creation!ChangeType
  <2> QED BY <1>4, <2>2, <2>3
<1>7. ASSUME NEW b \in BOOLEAN, Creation!FillExtra(i, b) PROVE CreationIInv'
  <2>1. PICK x : x = [form.data.extras[i] EXCEPT !.text = b]
    OBVIOUS
  <2>2. x \in Creation!Extra
    BY <1>2, <2>1 DEF Creation!Extra
  <2>3. Creation!Edit([form.data EXCEPT !.extras[i] = x])
    BY <1>2, <1>7, <2>1 DEF Creation!FillExtra
  <2> QED BY <1>4, <2>2, <2>3
<1> QED BY <1>5, <1>6, <1>7

\* The steps that post nothing.
LEMMA CreationQuietlyIInv ==
    ASSUME Creation!SubmitAssumption, CreationIInv, Creation!Quietly, posted' = Creation!Nothing
    PROVE  CreationIInv'
<1>0. /\ reads \in SUBSET Reading
      /\ form # Creation!Closed =>
           /\ CreationFits(form, reads) /\ form \in Creation!Form /\ form.data \in Creation!Data
           /\ form.step \in 0..4 /\ Len(form.data.extras) <= MaxExtras
  BY CreationFormIs DEF CreationIInv, CreationFits
<1>1. CASE Creation!Leave
  BY <1>1, CreationQuiet DEF Creation!Leave, CreationIInv
<1>2. CASE Creation!ConnectionArrives
  <2>1. PICK reached \in BOOLEAN :
           form' = [form EXCEPT !.connection = FALSE, !.defaults = IF reached THEN "year" ELSE @]
    BY <1>2 DEF Creation!ConnectionArrives
  <2>2. PICK q : q = [form EXCEPT !.connection = FALSE, !.defaults = IF reached THEN "year" ELSE @]
    OBVIOUS
  <2>3. /\ q \in Creation!Form /\ q.data = form.data /\ q.typed = form.typed
        /\ q.step = form.step /\ q.seen = form.seen
    BY <1>0, <1>2, <2>2 DEF Creation!ConnectionArrives, Creation!Form, Creation!Windows
  <2>4. CreationFits(q, reads)
    BY <1>0, <1>2, <2>3 DEF Creation!ConnectionArrives, CreationFits
  <2> QED BY <1>0, <1>2, <2>1, <2>2, <2>4, CreationQuiet DEF Creation!ConnectionArrives
<1>3. CASE Creation!goNext
  <2>1. /\ form # Creation!Closed /\ form.step < 4 /\ ~Creation!stepError(form.step, form.data)
        /\ UNCHANGED reads
    BY <1>3 DEF Creation!goNext
  <2>2. form.step \in {0, 1, 2, 3}
    BY <1>0, <2>1
  <2>3. form.seen = Creation!Nothing
    BY <1>0, <2>1, <2>2 DEF CreationFits
  <2>4. PICK q : q = [form EXCEPT !.step = @ + 1]
    OBVIOUS
  <2>5. form.step + 1 \in 0..4
    BY <2>2
  <2>6. /\ q \in Creation!Form /\ q.data = form.data /\ q.typed = form.typed
        /\ q.step = form.step + 1 /\ q.seen = form.seen
    BY <1>0, <2>1, <2>4, <2>5 DEF Creation!Form, Creation!Steps
  <2>7. q.step \in {2, 3, 4} => form.data.id # "none"
    BY <1>0, <2>1, <2>2, <2>6 DEF CreationFits, Creation!stepError
  <2>8. q.step \in {3, 4} => form.data.framework
    BY <1>0, <2>1, <2>2, <2>6 DEF CreationFits, Creation!stepError
  <2>9. CreationFits(q, reads)
    BY <1>0, <2>1, <2>3, <2>6, <2>7, <2>8 DEF CreationFits
  <2> QED BY <1>0, <1>3, <2>1, <2>4, <2>9, CreationQuiet DEF Creation!goNext
<1>4. CASE Creation!goBack
  <2>1. form # Creation!Closed /\ form.step > 0 /\ UNCHANGED reads
    BY <1>4 DEF Creation!goBack
  <2>2. form.step \in {1, 2, 3, 4} /\ form.step - 1 \in 0..4
    BY <1>0, <2>1
  <2>3. PICK q : q = Creation!Back(form)
    OBVIOUS
  <2>4. /\ q \in Creation!Form /\ q.data = form.data /\ q.typed = form.typed
        /\ q.step = form.step - 1 /\ q.seen = Creation!Nothing
    BY <1>0, <2>1, <2>2, <2>3 DEF Creation!Back, Creation!Form, Creation!Steps
  <2>5. (q.step \in {2, 3, 4} => form.step \in {2, 3, 4}) /\ (q.step \in {3, 4} => form.step \in {3, 4})
    BY <2>2, <2>4
  <2>6. CreationFits(q, reads)
    BY <1>0, <2>1, <2>4, <2>5 DEF CreationFits
  <2> QED BY <1>0, <1>4, <2>1, <2>3, <2>6, CreationQuiet DEF Creation!goBack
<1>5. CASE Creation!AddExtra
  <2>1. form # Creation!Closed /\ form.step = 3 /\ Len(form.data.extras) < MaxExtras
    BY <1>5 DEF Creation!AddExtra, Creation!At
  <2>2. PICK x : x = Creation!NewExtra(form.defaults)
    OBVIOUS
  <2>3. x \in Creation!Extra
    BY <1>0, <2>1, <2>2 DEF Creation!NewExtra, Creation!Extra, Creation!Certs, Creation!Form
  <2>4. PICK s : s = Append(form.data.extras, x)
    OBVIOUS
  <2>5. s \in Seq(Creation!Extra) /\ Len(s) = Len(form.data.extras) + 1 /\ Len(form.data.extras) \in Nat
    BY <1>0, <2>1, <2>3, <2>4, CreationFormIs
  <2>6. Len(s) <= MaxExtras
    BY <2>1, <2>5 DEF Creation!SubmitAssumption
  <2>7. PICK e : e = [form.data EXCEPT !.extras = s]
    OBVIOUS
  <2>8. e \in Creation!Data /\ e.extras = s /\ e.id = form.data.id /\ e.framework = form.data.framework
    BY <1>0, <2>1, <2>5, <2>7 DEF Creation!Data
  <2>9. Creation!Edit(e)
    BY <1>5, <2>2, <2>4, <2>7 DEF Creation!AddExtra
  <2>10. form.data.framework /\ e.framework = form.data.framework /\ form.step # 4
    BY <1>0, <2>1, <2>8 DEF CreationFits
  <2>11. form # Creation!Closed
    BY <2>1
  <2> QED BY <2>11, <2>6, <2>8, <2>9, <2>10, CreationEdits
<1>6. CASE Creation!Created
  <2>1. PICK q : q = [form EXCEPT !.loading = FALSE, !.response = TRUE]
    OBVIOUS
  <2>2. /\ q \in Creation!Form /\ q.data = form.data /\ q.typed = form.typed
        /\ q.step = form.step /\ q.seen = form.seen
    BY <1>0, <1>6, <2>1 DEF Creation!Created, Creation!Form
  <2>3. CreationFits(q, reads)
    BY <1>0, <1>6, <2>2 DEF Creation!Created, CreationFits
  <2> QED BY <1>0, <1>6, <2>1, <2>3, CreationQuiet DEF Creation!Created
<1>7. CASE Creation!Refused
  <2>1. PICK q : q = [form EXCEPT !.loading = FALSE]
    OBVIOUS
  <2>2. /\ q \in Creation!Form /\ q.data = form.data /\ q.typed = form.typed
        /\ q.step = form.step /\ q.seen = form.seen
    BY <1>0, <1>7, <2>1 DEF Creation!Refused, Creation!Form
  <2>3. CreationFits(q, reads)
    BY <1>0, <1>7, <2>2 DEF Creation!Refused, CreationFits
  <2> QED BY <1>0, <1>7, <2>1, <2>3, CreationQuiet DEF Creation!Refused
<1>8. ASSUME NEW id \in {"none", "typed"}, Creation!TypeId(id) PROVE CreationIInv'
  <2>1. form # Creation!Closed /\ form.step = 1 /\ UNCHANGED reads
    BY <1>8 DEF Creation!TypeId, Creation!At
  <2>2. PICK b \in BOOLEAN : b <=> id = "typed"
    OBVIOUS
  <2>3. PICK d : d = [form.data EXCEPT !.id = id]
    OBVIOUS
  <2>4. d \in Creation!Data /\ d.id = id /\ d.extras = form.data.extras
    BY <1>0, <2>1, <2>3 DEF Creation!Data, Creation!Identity
  <2>5. PICK q : q = [form EXCEPT !.data = d, !.typed = b]
    OBVIOUS
  <2>6. q \in Creation!Form /\ q.data = d /\ q.typed = b /\ q.step = 1 /\ q.seen = form.seen
    BY <1>0, <2>1, <2>4, <2>5 DEF Creation!Form
  <2>7. form' = q
    BY <1>8, <2>2, <2>3, <2>5 DEF Creation!TypeId
  <2>8. CreationFits(q, reads)
    BY <1>0, <2>1, <2>2, <2>4, <2>6 DEF CreationFits
  <2> QED BY <1>0, <2>1, <2>7, <2>8, CreationQuiet
<1>9. ASSUME NEW b \in BOOLEAN, Creation!FillFramework(b) PROVE CreationIInv'
  <2>1. form # Creation!Closed /\ form.step = 2
    BY <1>9 DEF Creation!FillFramework, Creation!At
  <2>2. PICK e : e = [form.data EXCEPT !.framework = b]
    OBVIOUS
  <2>3. e \in Creation!Data /\ e.extras = form.data.extras /\ e.id = form.data.id
    BY <1>0, <2>1, <2>2 DEF Creation!Data
  <2>4. Creation!Edit(e)
    BY <1>9, <2>2 DEF Creation!FillFramework
  <2> QED BY <1>0, <2>1, <2>3, <2>4, CreationEdits
<1>10. ASSUME NEW b \in BOOLEAN, Creation!Tick(b) PROVE CreationIInv'
  <2>1. form # Creation!Closed /\ form.step = 4 /\ UNCHANGED reads
    BY <1>10 DEF Creation!Tick, Creation!At
  <2>2. PICK s : s = IF b /\ reads = {} THEN form.data ELSE Creation!Nothing
    OBVIOUS
  <2>3. PICK q : q = [form EXCEPT !.confirmed = b, !.seen = s]
    OBVIOUS
  <2>4. /\ q \in Creation!Form /\ q.data = form.data /\ q.typed = form.typed
        /\ q.step = 4 /\ q.seen = s
    BY <1>0, <2>1, <2>2, <2>3 DEF Creation!Form
  <2>5. CreationFits(q, reads)
    BY <1>0, <2>1, <2>2, <2>4 DEF CreationFits
  <2> QED BY <1>0, <1>10, <2>1, <2>2, <2>3, <2>5, CreationQuiet DEF Creation!Tick
<1>11. ASSUME NEW i \in Creation!Indexes, form # Creation!Closed, Creation!clearCert(i) PROVE CreationIInv'
  <2>1. PICK e : e = Creation!WithCert(form.data, i, NoValue)
    OBVIOUS
  <2>2. /\ e \in Creation!Data /\ e.id = form.data.id /\ e.framework = form.data.framework
        /\ Len(e.extras) = Len(form.data.extras)
    BY <1>0, <1>11, <2>1, CertIsSet DEF Creation!Certs
  <2>3. form.step # 4 /\ Creation!Edit(e)
    BY <1>11, <2>1 DEF Creation!clearCert
  <2> QED BY <1>0, <1>11, <2>2, <2>3, CreationEdits DEF CreationFits
<1>12. ASSUME NEW i \in Creation!Indexes, NEW f \in Files, form # Creation!Closed, Creation!ChooseFile(i, f)
       PROVE  CreationIInv'
  <2>1. form.step # 4 /\ UNCHANGED form
          /\ reads' = reads \cup {[index |-> i, file |-> f, id |-> form.data.id]}
    BY <1>12 DEF Creation!ChooseFile
  <2>2. i \in 0..MaxExtras
    <3>1. DOMAIN form.data.extras = 1..Len(form.data.extras) /\ Len(form.data.extras) \in Nat
      BY <1>0, <1>12, CreationFormIs
    <3> QED BY <1>0, <1>12, <3>1 DEF Creation!Indexes, Creation!Own, Creation!SubmitAssumption
  <2>3. reads' \subseteq Reading
    BY <1>0, <1>12, <2>1, <2>2 DEF Reading, Creation!Data
  <2>4. CreationFits(form, reads')
    BY <1>0, <1>12, <2>1 DEF CreationFits
  <2>5. CreationFits(form, reads)'
    BY <2>1, <2>4 DEF CreationFits
  <2> QED BY <2>3, <2>5 DEF CreationIInv
<1> QED BY <1>1, <1>2, <1>3, <1>4, <1>5, <1>6, <1>7, <1>8, <1>9, <1>10, <1>11, <1>12,
           FileIsRead, FileIsUnreadable, ExtrasIInv DEF Creation!Quietly

\* Every step keeps the form to what its steps asked for.
LEMMA CreationIInvStep ==
    ASSUME Creation!SubmitAssumption, CreationIInv, [Creation!Enter \/ Creation!Work]_(Creation!vars)
    PROVE  CreationIInv'
<1>1. CASE UNCHANGED Creation!vars
  BY <1>1 DEF Creation!vars, CreationIInv, CreationFits
<1>2. CASE Creation!Enter
  <2>1. PICK q : q = [open |-> TRUE, step |-> 0, data |-> Creation!FirstData, typed |-> FALSE,
                defaults |-> "year", connection |-> TRUE, confirmed |-> FALSE,
                seen |-> Creation!Nothing, loading |-> FALSE, response |-> FALSE]
    OBVIOUS
  <2>2. Creation!FirstData \in Creation!Data /\ Len(Creation!FirstData.extras) = 0
    BY DEF Creation!FirstData, Creation!Data, Creation!Identity, Creation!Certs, Creation!Windows
  <2>3. /\ q \in Creation!Form /\ q.data = Creation!FirstData /\ q.typed = FALSE /\ q.step = 0
        /\ q.seen = Creation!Nothing
    BY <2>1, <2>2 DEF Creation!Form, Creation!Steps, Creation!Windows
  <2>4. CreationFits(q, {})
    BY <2>2, <2>3 DEF CreationFits, Creation!SubmitAssumption
  <2> QED BY <1>2, <2>1, <2>4, CreationQuiet DEF Creation!Enter
<1>3. CASE Creation!Submit
  <2>1. /\ form # Creation!Closed /\ form.step = 4 /\ UNCHANGED reads
        /\ posted' = [data |-> form.data, seen |-> form.seen]
    BY <1>3 DEF Creation!Submit, Creation!At
  <2>2. CreationFits(form, reads) /\ form \in Creation!Form
    BY <2>1 DEF CreationIInv, CreationFits
  <2>3. PICK q : q = [form EXCEPT !.loading = TRUE]
    OBVIOUS
  <2>4. /\ q \in Creation!Form /\ q.data = form.data /\ q.typed = form.typed
        /\ q.step = form.step /\ q.seen = form.seen
    BY <2>2, <2>3 DEF Creation!Form
  <2>5. form' = q
    BY <1>3, <2>3 DEF Creation!Submit
  <2>6. CreationFits(q, reads)
    BY <2>2, <2>4 DEF CreationFits
  <2>7. PICK p : p = [data |-> form.data, seen |-> form.seen]
    OBVIOUS
  <2>8. /\ p \in [data : Creation!Data, seen : {Creation!Nothing} \cup Creation!Data]
        /\ p.seen # Creation!Nothing => p.data = p.seen
        /\ p.data.id # "none" /\ p.data.framework
    BY <2>1, <2>2, <2>7 DEF CreationFits, Creation!Form
  <2>9. posted' = p
    BY <2>1, <2>7
  <2>10. CreationFits(form', reads')
    BY <2>1, <2>5, <2>6
  <2> QED BY <2>1, <2>8, <2>9, <2>10 DEF CreationIInv, CreationFits
<1>4. CASE Creation!Quietly /\ posted' = Creation!Nothing
  BY <1>4, CreationQuietlyIInv
<1> QED BY <1>1, <1>2, <1>3, <1>4 DEF Creation!Work

\* So what is posted is what was on the review, and complete.
LEMMA CreationIInvHolds == CreationIInv => Creation!TypeOK /\ Creation!CreationIsAsConfirmed
BY CreationPageIs DEF CreationIInv, CreationFits, Reading, Creation!TypeOK, Creation!CreationIsAsConfirmed,
       Creation!IdentityIsTheOperators, Creation!WhatWasConfirmedIsCreated, Creation!MinimumIsFilled

-----------------------------------------------------------------------------
(* Subscribers: what belongs to one subscriber never reaches another.         *)
SubCall == [kind : {"create", "update", "rotate", "remove"}, id : Ids, url : Urls \cup {NoUrl},
            row : Ids \cup {Webhooks!NoId}, supplied : BOOLEAN,
            editing : Ids \cup {Webhooks!NoId}, served : BOOLEAN, answer : {Webhooks!Nothing},
            value : 0..MaxSecrets]
SubListCall == [kind : {"list"}, served : BOOLEAN, answer : {Webhooks!Nothing} \cup Webhooks!Store]

\* The page is filled from the row it edits, and a secret is its owner's.
SubsFit(p, o) ==
    /\ p \in Webhooks!Page /\ p.form.row = p.editingId
    /\ p.secret # Webhooks!Nothing =>
         p.secret.value \in DOMAIN o /\ o[p.secret.value] = p.secret.name

SubCallFits(c, o) ==
    /\ c \in SubCall \cup SubListCall
    /\ c.kind \in {"create", "update"} => c.url \in Urls
    /\ c.kind = "update" => c.row = c.id
    /\ c.kind = "create" => c.row = Webhooks!NoId
    /\ c.kind # "list" /\ c.value # 0 => c.value \in DOMAIN o /\ o[c.value] = c.id

\* Secrets are numbered as they are generated, and no number is given twice.
Numbered(o) == \E n \in 0..MaxSecrets : o \in [1..n -> Ids]

SubsIInv ==
    /\ hooks \in Webhooks!Store /\ Numbered(owner)
    /\ \/ subs = Webhooks!Closed /\ subCalls = {}
       \/ SubsFit(subs, owner)
    /\ \A c \in subCalls : SubCallFits(c, owner)

-----------------------------------------------------------------------------
\* A mounted page and a secret on it are not their absence.
LEMMA SubsPageIs ==
    /\ Webhooks!Closed \notin Webhooks!Page
    /\ Webhooks!Nothing \notin Webhooks!Secret
BY DEF Webhooks!Closed, Webhooks!Page, Webhooks!Nothing, Webhooks!Secret

\* The registry's store of subscribers maps some ids to addresses.
LEMMA StoreIs ==
    \A f : f \in Webhooks!Store <=> DOMAIN f \subseteq Ids /\ f \in [DOMAIN f -> Urls]
BY DEF Webhooks!Store

\* At first the page is closed and no secret was generated.
LEMMA SubsInitIInv == ASSUME Webhooks!SubscriberAssumption PROVE Webhooks!Init => SubsIInv
<1> SUFFICES ASSUME Webhooks!Init PROVE SubsIInv
  OBVIOUS
<1>1. hooks \in Webhooks!Store
  BY DEF Webhooks!Init, Webhooks!SubscriberAssumption, Webhooks!Store
<1>2. Numbered(owner)
  BY DEF Webhooks!Init, Numbered, Webhooks!SubscriberAssumption
<1> QED BY <1>1, <1>2 DEF SubsIInv, Webhooks!Init

\* A step of the operator or of an answer, which the registry does not see.
LEMMA SubsPageStep ==
    ASSUME SubsIInv, UNCHANGED <<hooks, owner>>, SubsFit(subs', owner),
           \A c \in subCalls' : c \in subCalls \/ SubCallFits(c, owner)
    PROVE  SubsIInv'
<1> QED BY DEF SubsIInv, SubsFit, SubCallFits, Numbered

\* A call the page makes carries the form and the row that filled it.
LEMMA SubsCallFits ==
    ASSUME NEW o, SubsFit(subs, o), NEW k \in {"create", "update", "rotate", "remove"}, NEW id \in Ids,
           NEW supplied \in BOOLEAN,
           k \in {"create", "update"} => subs.form.url # NoUrl,
           k = "update" => id = subs.editingId, k = "create" => subs.editingId = Webhooks!NoId,
           Webhooks!SubscriberAssumption
    PROVE  /\ SubCallFits(Webhooks!Call(k, id), o)
           /\ SubCallFits([Webhooks!Call(k, id) EXCEPT !.supplied = supplied], o)
<1> DEFINE c == Webhooks!Call(k, id)
<1>1. c \in SubCall
  BY DEF SubsFit, Webhooks!Page, Webhooks!Form, Webhooks!Call, SubCall, Webhooks!SubscriberAssumption
<1>2. c.kind = k /\ c.id = id /\ c.url = subs.form.url /\ c.row = subs.form.row /\ c.value = 0
  BY DEF Webhooks!Call
<1>3. subs.form.url \in Urls \cup {NoUrl}
  BY DEF SubsFit, Webhooks!Page, Webhooks!Form
<1> HIDE DEF c
<1>4. SubCallFits(c, o)
  BY <1>1, <1>2, <1>3 DEF SubsFit, SubCallFits
<1> DEFINE d == [c EXCEPT !.supplied = supplied]
<1>5. d \in SubCall /\ d.kind = k /\ d.id = id /\ d.url = c.url /\ d.row = c.row /\ d.value = 0
  BY <1>1, <1>2 DEF SubCall
<1>6. SubCallFits(d, o)
  BY <1>4, <1>5, <1>2 DEF SubCallFits
<1> QED BY <1>4, <1>6 DEF c, d

\* What a reload sends is a call.
LEMMA SubListFits == ASSUME NEW o PROVE SubCallFits(Webhooks!loadSubs, o)
BY DEF Webhooks!loadSubs, SubCallFits, SubListCall

\* What is the same to SubsFit but for the parts it does not read.
LEMMA SubsFitStays ==
    ASSUME NEW p, NEW o, SubsFit(p, o), NEW q \in Webhooks!Page,
           q.form.row = q.editingId, q.secret \in {Webhooks!Nothing, p.secret}
    PROVE  SubsFit(q, o)
BY DEF SubsFit

\* The page after an answer: the list is asked for anew.
LEMMA SubsReset ==
    ASSUME NEW p, NEW o, SubsFit(p, o), Webhooks!SubscriberAssumption
    PROVE  /\ SubsFit(Webhooks!Reloading(p), o)
           /\ SubsFit(Webhooks!resetForm(p), o)
           /\ SubsFit([p EXCEPT !.submitting = FALSE], o)
           /\ SubsFit([p EXCEPT !.submitting = TRUE], o)
           /\ SubsFit([p EXCEPT !.busyId = Webhooks!NoId], o)
           /\ SubsFit([p EXCEPT !.secret = Webhooks!Nothing], o)
           /\ \A id \in Ids : SubsFit([p EXCEPT !.busyId = id], o)
           /\ \A f \in Webhooks!Store : SubsFit([p EXCEPT !.rows = f], o)
<1>1. p \in Webhooks!Page /\ p.form.row = p.editingId
  BY DEF SubsFit
<1>2. SubsFit(Webhooks!Reloading(p), o)
  <2>1. Webhooks!Reloading(p) \in Webhooks!Page
    BY <1>1 DEF Webhooks!Reloading, Webhooks!Page
  <2> QED BY <1>1, <2>1 DEF SubsFit, Webhooks!Reloading, Webhooks!Page
<1>3. SubsFit(Webhooks!resetForm(p), o)
  <2>1. Webhooks!EMPTY_FORM \in Webhooks!Form /\ Webhooks!EMPTY_FORM.row = Webhooks!NoId
    BY DEF Webhooks!EMPTY_FORM, Webhooks!Form
  <2>2. Webhooks!resetForm(p) \in Webhooks!Page
    BY <1>1, <2>1 DEF Webhooks!resetForm, Webhooks!Page
  <2> QED BY <1>1, <2>1, <2>2 DEF SubsFit, Webhooks!resetForm, Webhooks!Page
<1>4. SubsFit([p EXCEPT !.submitting = FALSE], o) /\ SubsFit([p EXCEPT !.submitting = TRUE], o)
  BY <1>1 DEF SubsFit, Webhooks!Page
<1>5. SubsFit([p EXCEPT !.busyId = Webhooks!NoId], o)
  BY <1>1 DEF SubsFit, Webhooks!Page
<1>6. SubsFit([p EXCEPT !.secret = Webhooks!Nothing], o)
  BY <1>1 DEF SubsFit, Webhooks!Page
<1>7. \A id \in Ids : SubsFit([p EXCEPT !.busyId = id], o)
  BY <1>1 DEF SubsFit, Webhooks!Page
<1>8. \A f \in Webhooks!Store : SubsFit([p EXCEPT !.rows = f], o)
  BY <1>1 DEF SubsFit, Webhooks!Page
<1> QED BY <1>2, <1>3, <1>4, <1>5, <1>6, <1>7, <1>8

\* The secret of an answer is announced for the subscriber it was made for.
LEMMA SubsShown ==
    ASSUME NEW p, NEW o, SubsFit(p, o), NEW c \in SubCall, SubCallFits(c, o),
           Webhooks!SubscriberAssumption
    PROVE  SubsFit(Webhooks!Shown(p, c), o)
<1>1. CASE c.value = 0
  BY <1>1 DEF Webhooks!Shown
<1>2. CASE c.value # 0
  <2> DEFINE s == Webhooks!SecretOf(c)
             q == [p EXCEPT !.secret = s]
  <2>0. c.kind # "list" /\ c.value \in 0..MaxSecrets /\ c.id \in Ids
    BY DEF SubCall
  <2>1. s \in Webhooks!Secret /\ s.name = c.id /\ s.value = c.value
    BY <1>2, <2>0 DEF Webhooks!SecretOf, Webhooks!Secret, Webhooks!SubscriberAssumption
  <2>2. p \in Webhooks!Page /\ p.form.row = p.editingId
    BY DEF SubsFit
  <2> HIDE DEF s
  <2>3. q \in Webhooks!Page
    BY <2>1, <2>2 DEF Webhooks!Page
  <2>4. q.secret = s /\ q.form = p.form /\ q.editingId = p.editingId
    BY <2>2 DEF Webhooks!Page
  <2>5. s.value \in DOMAIN o /\ o[s.value] = s.name
    BY <1>2, <2>0, <2>1 DEF SubCallFits
  <2>6. SubsFit(q, o)
    BY <2>2, <2>3, <2>4, <2>5 DEF SubsFit
  <2> QED BY <1>2, <2>6 DEF s, Webhooks!Shown
<1> QED BY <1>1, <1>2

-----------------------------------------------------------------------------
\* The instance of FiniteSets the module of the page extends counts alike.
LEMMA SubsCount == \A S : Webhooks!Cardinality(S) = Cardinality(S)
BY DEF Webhooks!Cardinality, Cardinality

\* What the registry does to one call keeps every secret with its owner.
LEMMA SubsServe ==
    ASSUME Webhooks!SubscriberAssumption, SubsIInv, NEW c \in subCalls, Webhooks!Serve(c)
    PROVE  SubsIInv'
<1>0. SubCallFits(c, owner) /\ subs' = subs /\ (subs = Webhooks!Closed => subCalls = {})
  BY SubsPageIs DEF SubsIInv, SubsFit, Webhooks!Serve
<1>1. CASE c.kind = "list"
  <2>1. c \in SubListCall
    BY <1>0, <1>1 DEF SubCallFits, SubCall
  <2> DEFINE d == [c EXCEPT !.served = TRUE, !.answer = hooks]
  <2>2. d \in SubListCall /\ d.kind = "list"
    BY <2>1, <1>1 DEF SubListCall, SubsIInv
  <2>3. subCalls' = (subCalls \ {c}) \cup {d} /\ UNCHANGED <<hooks, owner>>
    BY <1>1 DEF Webhooks!Serve, Webhooks!Answered
  <2>4. SubCallFits(d, owner)
    BY <2>2 DEF SubCallFits
  <2>5. SubsFit(subs', owner)
    BY <1>0 DEF SubsIInv
  <2> QED BY <2>3, <2>4, <2>5, SubsPageStep
<1>2. CASE c.kind # "list"
  <2>1. c \in SubCall
    BY <1>0, <1>2 DEF SubCallFits, SubListCall
  <2>2. PICK n \in 0..MaxSecrets : owner \in [1..n -> Ids]
    BY DEF SubsIInv, Numbered
  <2>3. Webhooks!Cardinality(DOMAIN owner) = n
    BY <2>2, SubsCount, FS_Interval DEF Webhooks!SubscriberAssumption
  <2>4. PICK v \in 0..MaxSecrets :
           /\ Webhooks!Answered(c, [c EXCEPT !.served = TRUE, !.value = v])
           /\ \/ v = 0 /\ owner' = owner
              \/ /\ v = n + 1
                 /\ owner' = [w \in DOMAIN owner \cup {n + 1} |->
                                 IF w = n + 1 THEN c.id ELSE owner[w]]
    <3>1. CASE Webhooks!Generates(c)
      <4>1. n + 1 \in 0..MaxSecrets
        BY <1>2, <2>2, <2>3, <3>1 DEF Webhooks!Serve, Webhooks!SubscriberAssumption
      <4>2. /\ Webhooks!Answered(c, [c EXCEPT !.served = TRUE, !.value = n + 1])
            /\ owner' = [w \in DOMAIN owner \cup {n + 1} |->
                            IF w = n + 1 THEN c.id ELSE owner[w]]
        BY <1>2, <2>3, <3>1 DEF Webhooks!Serve
      <4> QED BY <4>1, <4>2
    <3>2. CASE ~Webhooks!Generates(c)
      <4>1. Webhooks!Answered(c, [c EXCEPT !.served = TRUE, !.value = 0]) /\ owner' = owner
        BY <1>2, <3>2 DEF Webhooks!Serve
      <4>2. 0 \in 0..MaxSecrets
        BY DEF Webhooks!SubscriberAssumption
      <4> QED BY <4>1, <4>2
    <3> QED BY <3>1, <3>2
  <2> DEFINE d == [c EXCEPT !.served = TRUE, !.value = v]
  <2>11. subCalls' = (subCalls \ {c}) \cup {d}
    BY <2>4 DEF Webhooks!Answered
  <2>5. d \in SubCall /\ d.kind = c.kind /\ d.id = c.id /\ d.url = c.url /\ d.row = c.row /\ d.value = v
    BY <2>1 DEF SubCall
  <2> HIDE DEF d
  <2>6. /\ \A w \in DOMAIN owner : w \in DOMAIN owner' /\ owner'[w] = owner[w]
        /\ v # 0 => v \in DOMAIN owner' /\ owner'[v] = c.id
    BY <2>2, <2>4, SMT DEF Webhooks!SubscriberAssumption
  <2>7. Numbered(owner')
    <3>1. CASE v = 0
      BY <2>2, <2>4, <3>1 DEF Numbered
    <3>2. CASE v # 0
      <4>1. v = n + 1 /\ v \in 0..MaxSecrets /\ 1..n \cup {v} = 1..v
        BY <2>2, <2>4, <3>2
      <4>2. c.id \in Ids /\ DOMAIN owner = 1..n
        BY <2>1, <2>2 DEF SubCall
      <4>3. owner' \in [1..v -> Ids]
        BY <2>2, <2>4, <3>2, <4>1, <4>2
      <4> QED BY <4>1, <4>3 DEF Numbered
    <3> QED BY <3>1, <3>2
  <2>8. hooks' \in Webhooks!Store
    <3>1. DOMAIN hooks \subseteq Ids /\ \A id \in DOMAIN hooks : hooks[id] \in Urls
      BY StoreIs DEF SubsIInv
    <3>2. c.id \in Ids /\ (c.kind \in {"create", "update"} => c.url \in Urls)
      BY <1>0, <2>1 DEF SubCallFits, SubCall
    <3>3. CASE c.kind = "remove"
      <4>1. hooks' = [id \in DOMAIN hooks \ {c.id} |-> hooks[id]]
        BY <1>2, <3>3 DEF Webhooks!Serve, Webhooks!Known
      <4> QED BY <3>1, <4>1, StoreIs
    <3>4. CASE c.kind = "rotate"
      <4>1. hooks' = hooks
        BY <1>2, <3>4 DEF Webhooks!Serve
      <4> QED BY <4>1 DEF SubsIInv
    <3>5. CASE c.kind \in {"create", "update"}
      <4>1. hooks' = [id \in DOMAIN hooks \cup {c.id} |-> IF id = c.id THEN c.url ELSE hooks[id]]
        BY <1>2, <3>5 DEF Webhooks!Serve, Webhooks!Known
      <4>2. hooks' \in [DOMAIN hooks \cup {c.id} -> Urls]
        BY <3>1, <3>2, <3>5, <4>1
      <4> QED BY <3>1, <3>2, <4>2 DEF Webhooks!Store
    <3> QED BY <2>1, <3>3, <3>4, <3>5 DEF SubCall
  <2>9. SubsFit(subs', owner')
    BY <1>0, <2>6 DEF SubsIInv, SubsFit
  <2>10. \A e \in subCalls' : SubCallFits(e, owner')
    <3>1. SubCallFits(d, owner')
      BY <1>0, <2>5, <2>6 DEF SubCallFits
    <3>2. \A e \in subCalls : SubCallFits(e, owner')
      BY <2>6 DEF SubsIInv, SubCallFits
    <3> QED BY <2>11, <3>1, <3>2 DEF d
  <2> QED BY <2>7, <2>8, <2>9, <2>10 DEF SubsIInv, SubsFit, SubCallFits, Numbered
<1> QED BY <1>1, <1>2

\* What the answer to a call makes of the page.
LEMMA SubsArrive ==
    ASSUME Webhooks!SubscriberAssumption, SubsIInv, NEW c \in subCalls, Webhooks!Arrive(c)
    PROVE  SubsIInv'
<1>0. SubCallFits(c, owner) /\ SubsFit(subs, owner) /\ UNCHANGED <<hooks, owner>>
  BY DEF SubsIInv, Webhooks!Arrive
<1>1. CASE c.kind = "list"
  <2>1. SubsFit([subs EXCEPT !.rows = c.answer], owner)
    <3>1. c \in SubListCall
      BY <1>0, <1>1 DEF SubCallFits, SubCall
    <3>2. c.answer \in {Webhooks!Nothing} \cup Webhooks!Store
      BY <3>1 DEF SubListCall
    <3>3. SubsFit([subs EXCEPT !.rows = Webhooks!Nothing], owner)
      BY <1>0, SubsReset DEF Webhooks!Reloading
    <3> QED BY <1>0, <3>2, <3>3, SubsReset
  <2> QED BY <1>0, <1>1, <2>1, SubsPageStep DEF Webhooks!Arrive
<1>2. CASE c.kind # "list"
  <2>1. c \in SubCall
    BY <1>0, <1>2 DEF SubCallFits, SubListCall
  <2>2. subCalls' = (subCalls \ {c}) \cup {Webhooks!loadSubs}
    BY <1>2 DEF Webhooks!Arrive
  <2>3. SubsFit(Webhooks!Shown(subs, c), owner)
    BY <1>0, <2>1, SubsShown
  <2>4. SubsFit(Webhooks!Removed(subs, c), owner)
    BY <1>0, SubsReset DEF Webhooks!Removed
  <2>5. PICK q : SubsFit(q, owner) /\ subs' = Webhooks!Reloading(q)
    <3>1. CASE c.kind = "create"
      <4>1. subs' = Webhooks!Reloading(Webhooks!SubmitDone(Webhooks!Shown(subs, c)))
        BY <1>2, <3>1 DEF Webhooks!Arrive
      <4>2. SubsFit(Webhooks!resetForm(Webhooks!Shown(subs, c)), owner)
        BY <2>3, SubsReset
      <4>3. SubsFit(Webhooks!SubmitDone(Webhooks!Shown(subs, c)), owner)
        BY <4>2, SubsReset DEF Webhooks!SubmitDone
      <4> QED BY <4>1, <4>3
    <3>2. CASE c.kind = "update"
      <4>1. subs' = Webhooks!Reloading(Webhooks!SubmitDone(subs))
        BY <1>2, <3>2 DEF Webhooks!Arrive
      <4>2. SubsFit(Webhooks!resetForm(subs), owner)
        BY <1>0, SubsReset
      <4>3. SubsFit(Webhooks!SubmitDone(subs), owner)
        BY <4>2, SubsReset DEF Webhooks!SubmitDone
      <4> QED BY <4>1, <4>3
    <3>3. CASE c.kind = "rotate"
      <4>1. subs' = Webhooks!Reloading([Webhooks!Shown(subs, c) EXCEPT !.busyId = Webhooks!NoId])
        BY <1>2, <3>3 DEF Webhooks!Arrive
      <4> QED BY <4>1, <2>3, SubsReset
    <3>4. CASE c.kind = "remove"
      <4>1. subs' = Webhooks!Reloading([Webhooks!Removed(subs, c) EXCEPT !.busyId = Webhooks!NoId])
        BY <1>2, <3>4 DEF Webhooks!Arrive
      <4> QED BY <4>1, <2>4, SubsReset
    <3> QED BY <2>1, <3>1, <3>2, <3>3, <3>4 DEF SubCall
  <2>6. SubsFit(subs', owner)
    BY <2>5, SubsReset
  <2> QED BY <1>0, <2>2, <2>6, SubsPageStep, SubListFits
<1> QED BY <1>1, <1>2

\* The page opens with an empty form.
LEMMA SubsEnterIInv ==
    ASSUME Webhooks!SubscriberAssumption, SubsIInv, Webhooks!Enter PROVE SubsIInv'
<1> DEFINE q == [open |-> TRUE, rows |-> Webhooks!Nothing, form |-> Webhooks!EMPTY_FORM,
                 editingId |-> Webhooks!NoId, submitting |-> FALSE, busyId |-> Webhooks!NoId,
                 secret |-> Webhooks!Nothing]
<1>1. SubsFit(q, owner)
  BY DEF SubsFit, Webhooks!Page, Webhooks!EMPTY_FORM, Webhooks!Form
<1>2. subs' = q /\ subCalls' = {Webhooks!loadSubs} /\ UNCHANGED <<hooks, owner>>
  BY DEF Webhooks!Enter
<1> HIDE DEF q
<1> QED BY <1>1, <1>2, SubsPageStep, SubListFits

\* The steps of an open page and of the registry.
LEMMA SubsWorkIInv ==
    ASSUME Webhooks!SubscriberAssumption, SubsIInv, Webhooks!Work PROVE SubsIInv'
<1> USE SubsPageStep, SubsReset
<1>0. subs # Webhooks!Closed => SubsFit(subs, owner) /\ subs \in Webhooks!Page
  BY DEF SubsIInv, SubsFit
<1>1. CASE Webhooks!Leave
  BY <1>1 DEF Webhooks!Leave, SubsIInv, SubsFit, SubCallFits, Numbered
<1>2. CASE Webhooks!Refresh
  <2>1. \A c \in subCalls' : c \in subCalls \/ c = Webhooks!loadSubs
    BY <1>2 DEF Webhooks!Refresh, Webhooks!Ask
  <2> QED BY <1>0, <1>2, <2>1, SubListFits DEF Webhooks!Refresh
<1>3. CASE Webhooks!Cancel
  BY <1>0, <1>3 DEF Webhooks!Cancel
<1>4. CASE Webhooks!Dismiss
  BY <1>0, <1>4 DEF Webhooks!Dismiss
<1>5. CASE Webhooks!submit
  <2>1. SubsFit(subs, owner) /\ subs.form.url # NoUrl /\ SubsFit(subs', owner)
    BY <1>0, <1>5 DEF Webhooks!submit
  <2>2. \A c \in subCalls' : c \in subCalls \/ SubCallFits(c, owner)
    <3>1. CASE subs.editingId # Webhooks!NoId
      <4>1. subCalls' = subCalls \cup {Webhooks!Call("update", subs.editingId)}
        BY <1>5, <3>1 DEF Webhooks!submit, Webhooks!Ask
      <4>2. subs.editingId \in Ids
        BY <2>1, <3>1 DEF SubsFit, Webhooks!Page
      <4> QED BY <2>1, <4>1, <4>2, SubsCallFits
    <3>2. CASE subs.editingId = Webhooks!NoId
      <4>1. PICK id \in Ids, supplied \in BOOLEAN :
               subCalls' = subCalls \cup {[Webhooks!Call("create", id) EXCEPT !.supplied = supplied]}
        BY <1>5, <3>2 DEF Webhooks!submit, Webhooks!Ask
      <4> QED BY <2>1, <3>2, <4>1, SubsCallFits
    <3> QED BY <3>1, <3>2
  <2> QED BY <1>5, <2>1, <2>2 DEF Webhooks!submit
<1>6. ASSUME NEW url \in Urls, Webhooks!TypeUrl(url) PROVE SubsIInv'
  <2>1. SubsFit([subs EXCEPT !.form.url = url], owner)
    <3> DEFINE q == [subs EXCEPT !.form.url = url]
    <3>1. SubsFit(subs, owner) /\ subs \in Webhooks!Page
      BY <1>0, <1>6 DEF Webhooks!TypeUrl
    <3>2. q \in Webhooks!Page /\ q.form.row = subs.form.row /\ q.editingId = subs.editingId
            /\ q.secret = subs.secret
      BY <3>1 DEF Webhooks!Page, Webhooks!Form
    <3> HIDE DEF q
    <3>3. SubsFit(q, owner)
      BY <3>1, <3>2 DEF SubsFit
    <3> QED BY <3>3 DEF q
  <2> QED BY <1>6, <2>1 DEF Webhooks!TypeUrl
<1>7. ASSUME NEW id \in Ids, Webhooks!startEdit(id) PROVE SubsIInv'
  <2>1. subs \in Webhooks!Page /\ subs.rows \in Webhooks!Store /\ id \in DOMAIN subs.rows
    BY <1>0, <1>7 DEF Webhooks!startEdit, Webhooks!Rows, Webhooks!Page
  <2>2. subs.rows[id] \in Urls
    BY <2>1, StoreIs
  <2> DEFINE f == [url |-> subs.rows[id], row |-> id]
             q == [subs EXCEPT !.form = f, !.editingId = id, !.secret = Webhooks!Nothing]
  <2>3. f \in Webhooks!Form /\ f.row = id
    BY <2>2 DEF Webhooks!Form
  <2>4. subs' = q /\ UNCHANGED <<hooks, owner, subCalls>>
    BY <1>7 DEF Webhooks!startEdit
  <2> HIDE DEF f
  <2>5. SubsFit(q, owner)
    BY <2>1, <2>3 DEF SubsFit, Webhooks!Page
  <2> HIDE DEF q
  <2> QED BY <2>4, <2>5
<1>8. ASSUME NEW id \in Ids, NEW k \in {"rotate", "remove"}, Webhooks!OnRow(k, id) PROVE SubsIInv'
  <2>1. SubsFit(subs, owner)
    BY <1>0, <1>8 DEF Webhooks!OnRow, Webhooks!Rows
  <2>2. SubCallFits(Webhooks!Call(k, id), owner)
    BY <2>1, SubsCallFits
  <2>3. subCalls' = subCalls \cup {Webhooks!Call(k, id)} /\ SubsFit(subs', owner)
    BY <2>1, <1>8 DEF Webhooks!OnRow, Webhooks!Ask
  <2> QED BY <1>8, <2>2, <2>3 DEF Webhooks!OnRow
<1>9. ASSUME NEW c \in subCalls, Webhooks!Serve(c) PROVE SubsIInv'
  BY <1>9, SubsServe
<1>10. ASSUME NEW c \in subCalls, Webhooks!Arrive(c) PROVE SubsIInv'
  BY <1>10, SubsArrive
<1>11. ASSUME NEW c \in subCalls, Webhooks!Fails(c) PROVE SubsIInv'
  <2>1. SubsFit(subs, owner)
    BY DEF SubsIInv
  <2>2. SubsFit([subs EXCEPT !.rows = Webhooks!Nothing], owner)
    BY <2>1 DEF Webhooks!Reloading
  <2>3. SubsFit(subs', owner)
    BY <1>11, <2>1, <2>2 DEF Webhooks!Fails
  <2> QED BY <1>11, <2>3 DEF Webhooks!Fails
<1> QED BY <1>1, <1>2, <1>3, <1>4, <1>5, <1>6, <1>7, <1>8, <1>9, <1>10, <1>11 DEF Webhooks!Work

\* Every step keeps form and secret to their subscriber.
LEMMA SubsIInvStep ==
    ASSUME Webhooks!SubscriberAssumption, SubsIInv,
           [Webhooks!Enter \/ Webhooks!Work]_(Webhooks!vars)
    PROVE  SubsIInv'
<1>1. CASE UNCHANGED Webhooks!vars
  BY <1>1 DEF Webhooks!vars, SubsIInv, SubsFit, SubCallFits, Numbered
<1> QED BY <1>1, SubsEnterIInv, SubsWorkIInv

\* So no secret is shown under another name, and no form goes to another row.
LEMMA SubsIInvHolds ==
    ASSUME Webhooks!SubscriberAssumption PROVE SubsIInv => Webhooks!SubscribersStayApart /\ Webhooks!TypeOK
<1> SUFFICES ASSUME SubsIInv PROVE Webhooks!SubscribersStayApart /\ Webhooks!TypeOK
  OBVIOUS
<1>1. Webhooks!SecretIsNamedRight
  BY DEF SubsIInv, SubsFit, Webhooks!SecretIsNamedRight
<1>2. Webhooks!FormGoesToItsRow
  BY DEF SubsIInv, SubCallFits, Webhooks!FormGoesToItsRow
<1>3. Webhooks!TypeOK
  <2>1. DOMAIN owner \subseteq 1..MaxSecrets /\ \A v \in DOMAIN owner : owner[v] \in Ids
    <3>1. PICK n \in 0..MaxSecrets : owner \in [1..n -> Ids]
      BY DEF SubsIInv, Numbered
    <3> QED BY <3>1 DEF Webhooks!SubscriberAssumption
  <2> QED BY <2>1 DEF SubsIInv, SubsFit, Webhooks!TypeOK
<1> QED BY <1>1, <1>2, <1>3 DEF Webhooks!SubscribersStayApart

-----------------------------------------------------------------------------
(* PartyPicker: the field shows the party the page keeps or nothing, and an   *)
(* answer that is let in is to the text that stands in the open menu.         *)
PickFits(f) ==
    /\ f \in Picking!Field
    /\ f.query \in Parties => f.label = f.query
    /\ chosen # NoParty => f.query \in {chosen, NoText}
    /\ f.open => \A s \in searches : s.current => s.term = Picking!TermOf(f)

PickIInv ==
    /\ searches \subseteq Picking!Search /\ chosen \in Parties \cup {NoParty}
    /\ emitting \in {Picking!Nothing} \cup [party : Parties, shown : Words \cup Parties]
    /\ Picking!EmitsNoOther
    /\ \/ picker = Picking!Closed /\ searches = {}
       \/ PickFits(picker)
    /\ Picking!MenuIsAnswered /\ Picking!MenuIsOfTheText

-----------------------------------------------------------------------------
\* An open field, an answer and a choice are not their absence.
LEMMA PickPageIs ==
    /\ Picking!Closed \notin Picking!Field
    /\ Picking!Nothing \notin [term : Words, hits : SUBSET Parties]
    /\ Picking!Nothing \notin [party : Parties, shown : Words \cup Parties]
BY DEF Picking!Closed, Picking!Field, Picking!Nothing

\* At first there is no field.
LEMMA PickInitIInv == Picking!Init => PickIInv
BY DEF Picking!Init, PickIInv, Picking!EmitsNoOther, Picking!MenuIsAnswered,
       Picking!MenuIsOfTheText

\* What a field searches for is a text.
LEMMA PickTerm ==
    ASSUME Picking!PickerAssumption, NEW f \in Picking!Field, f.query \in Parties => f.label = f.query
    PROVE  Picking!TermOf(f) \in Words
BY DEF Picking!TermOf, Picking!Field, Picking!PickerAssumption

\* After the effect an open menu waits for its own text.
LEMMA PickRearms ==
    ASSUME PickIInv, NEW f \in Picking!Field, Picking!Rearm(f), picker # Picking!Closed,
           f.query \in Parties => f.label = f.query,
           chosen' \in Parties \cup {NoParty}, chosen' # NoParty => f.query \in {chosen', NoText},
           UNCHANGED emitting
    PROVE  PickIInv'
<1> PICK g : g = [f EXCEPT !.armed = f.open]
  OBVIOUS
<1>1. /\ g \in Picking!Field /\ g.query = f.query /\ g.label = f.label /\ g.open = f.open
      /\ g.armed = g.open
  BY DEF Picking!Field
<1>2. picker' = g
  BY DEF Picking!Rearm
<1>3. searches' \subseteq Picking!Search /\ (g.open => \A s \in searches' : ~s.current)
  <2>1. \A s \in Picking!Search : [s EXCEPT !.current = FALSE] \in Picking!Search
    BY DEF Picking!Search
  <2>2. \A s \in Picking!Search : ~[s EXCEPT !.current = FALSE].current
    BY DEF Picking!Search
  <2>3. searches \subseteq Picking!Search
    BY DEF PickIInv
  <2> QED BY <1>1, <2>1, <2>2, <2>3 DEF Picking!Rearm
<1>4. PickFits(g)'
  BY <1>1, <1>3 DEF PickFits
<1>5. g # Picking!Closed
  BY <1>1, PickPageIs
<1>6. Picking!MenuIsAnswered' /\ Picking!MenuIsOfTheText'
  BY <1>1, <1>2, <1>3 DEF Picking!MenuIsAnswered, Picking!MenuIsOfTheText, Picking!Waiting
<1>7. Picking!EmitsNoOther' /\ emitting' = emitting
  BY DEF PickIInv, Picking!EmitsNoOther
<1>8. PickFits(picker)'
  BY <1>2, <1>4 DEF PickFits, Picking!TermOf
<1> QED BY <1>3, <1>6, <1>7, <1>8 DEF PickIInv

\* The answer to one search, or its failure.
LEMMA PickAnswers ==
    ASSUME Picking!PickerAssumption, PickIInv, NEW s \in searches, searches' = searches \ {s},
           UNCHANGED <<chosen, emitting>>,
           \/ ~s.current /\ UNCHANGED picker
           \/ /\ s.current
              /\ \E r \in Picking!Results :
                    /\ Picking!Shows(r)
                    /\ r # Picking!Nothing => r.term = s.term
    PROVE  PickIInv'
<1>1. PickFits(picker) /\ s \in Picking!Search /\ searches' \subseteq Picking!Search
  BY DEF PickIInv
<1>2. Picking!EmitsNoOther'
  BY DEF PickIInv, Picking!EmitsNoOther
<1>3. CASE ~s.current /\ UNCHANGED picker
  <2>1. Picking!Waiting' <=> Picking!Waiting
    BY <1>3 DEF Picking!Waiting
  <2>2. Picking!MenuIsAnswered' /\ Picking!MenuIsOfTheText'
    BY <1>3, <2>1 DEF PickIInv, Picking!MenuIsAnswered, Picking!MenuIsOfTheText, Picking!TermOf
  <2>3. PickFits(picker)'
    BY <1>1, <1>3 DEF PickFits, Picking!TermOf
  <2> QED BY <1>1, <1>2, <2>2, <2>3 DEF PickIInv
<1>4. CASE s.current
  <2>1. PICK r \in Picking!Results : Picking!Shows(r) /\ (r # Picking!Nothing => r.term = s.term)
    BY <1>4
  <2>2. PICK g : g = [picker EXCEPT !.results = r, !.loading = FALSE, !.searched = TRUE]
    OBVIOUS
  <2>3. picker' = g
    BY <2>1, <2>2 DEF Picking!Shows
  <2>4. /\ g \in Picking!Field /\ g.query = picker.query /\ g.label = picker.label
        /\ g.open = picker.open /\ g.armed = picker.armed /\ g.results = r
        /\ g.loading = FALSE /\ g.searched = TRUE
    BY <1>1, <2>2 DEF PickFits, Picking!Field
  <2>5. Picking!TermOf(g) = Picking!TermOf(picker)
    BY <2>4 DEF Picking!TermOf
  <2>6. Picking!MenuIsAnswered'
    BY <2>3, <2>4 DEF Picking!MenuIsAnswered
  <2>7. Picking!MenuIsOfTheText'
    BY <1>1, <1>4, <2>1, <2>3, <2>4, <2>5 DEF Picking!MenuIsOfTheText, PickFits, Picking!TermOf
  <2>8. PickFits(picker)'
    BY <1>1, <2>3, <2>4, <2>5 DEF PickFits, Picking!TermOf
  <2> QED BY <1>1, <1>2, <2>6, <2>7, <2>8 DEF PickIInv
<1> QED BY <1>3, <1>4

\* The steps of an open field.
LEMMA PickWorkIInv ==
    ASSUME Picking!PickerAssumption, PickIInv, Picking!Work PROVE PickIInv'
<1>0. picker # Picking!Closed => PickFits(picker) /\ picker \in Picking!Field
  BY DEF PickIInv, PickFits
<1>1. CASE Picking!Leave
  BY <1>1 DEF Picking!Leave, PickIInv, Picking!EmitsNoOther, Picking!MenuIsAnswered,
              Picking!MenuIsOfTheText
<1>2. CASE Picking!Focus
  <2> DEFINE f == [picker EXCEPT !.open = TRUE]
  <2>1. f \in Picking!Field /\ f.query = picker.query /\ f.label = picker.label
    BY <1>0, <1>2 DEF Picking!Focus, Picking!Field
  <2>2. Picking!Rearm(f) /\ picker # Picking!Closed /\ UNCHANGED <<chosen, emitting>>
    BY <1>2 DEF Picking!Focus
  <2> HIDE DEF f
  <2> QED BY <1>0, <2>1, <2>2, PickRearms DEF PickFits, PickIInv
<1>3. CASE Picking!ClickOutside
  <2> DEFINE f == [picker EXCEPT !.open = FALSE]
  <2>1. f \in Picking!Field /\ f.query = picker.query /\ f.label = picker.label
    BY <1>0, <1>3 DEF Picking!ClickOutside, Picking!Field
  <2>2. Picking!Rearm(f) /\ picker # Picking!Closed /\ UNCHANGED <<chosen, emitting>>
    BY <1>3 DEF Picking!ClickOutside
  <2> HIDE DEF f
  <2> QED BY <1>0, <2>1, <2>2, PickRearms DEF PickFits, PickIInv
<1>4. CASE Picking!clear
  <2> DEFINE f == [picker EXCEPT !.query = NoText, !.label = NoText, !.results = Picking!Nothing]
  <2>1. /\ f \in Picking!Field /\ f.query = NoText /\ f.label = NoText
        /\ f.open = picker.open /\ f.armed = picker.armed /\ f.results = Picking!Nothing
        /\ f.loading = picker.loading /\ f.searched = picker.searched
    BY <1>0, <1>4 DEF Picking!clear, Picking!Field, Picking!Results, Picking!PickerAssumption
  <2>2. picker # Picking!Closed /\ chosen' = NoParty /\ UNCHANGED emitting
    BY <1>4 DEF Picking!clear
  <2>3. CASE picker.query # NoText
    <3>1. Picking!Rearm(f)
      BY <1>4, <2>3 DEF Picking!clear
    <3> HIDE DEF f
    <3> QED BY <2>1, <2>2, <3>1, PickRearms DEF PickIInv
  <2>4. CASE picker.query = NoText
    <3>1. PICK g : g = f
      OBVIOUS
    <3>2. picker' = g /\ UNCHANGED searches
      BY <1>4, <2>4, <3>1 DEF Picking!clear
    <3>3. Picking!TermOf(g) = Picking!TermOf(picker)
      BY <2>1, <2>4, <3>1 DEF Picking!TermOf
    <3> HIDE DEF f
    <3>4. PickFits(picker)'
      BY <1>0, <2>1, <2>2, <3>1, <3>2, <3>3 DEF PickFits, Picking!TermOf
    <3>5. Picking!MenuIsAnswered'
      BY <2>1, <2>2, <3>1, <3>2 DEF PickIInv, Picking!MenuIsAnswered, Picking!Waiting
    <3>6. Picking!MenuIsOfTheText'
      BY <2>1, <3>1, <3>2 DEF Picking!MenuIsOfTheText
    <3> QED BY <2>2, <3>2, <3>4, <3>5, <3>6 DEF PickIInv, Picking!EmitsNoOther
  <2> QED BY <2>3, <2>4
<1>5. CASE Picking!SearchStarts
  <2>1. PickFits(picker) /\ picker \in Picking!Field
    BY <1>0, <1>5 DEF Picking!SearchStarts
  <2>2. PICK g, s : /\ g = [picker EXCEPT !.armed = FALSE, !.loading = TRUE]
                    /\ s = [term |-> Picking!TermOf(picker), current |-> TRUE]
    OBVIOUS
  <2>3. picker' = g /\ searches' = searches \cup {s} /\ UNCHANGED <<chosen, emitting>>
    BY <1>5, <2>2 DEF Picking!SearchStarts
  <2>4. /\ g \in Picking!Field /\ g.query = picker.query /\ g.label = picker.label
        /\ g.open = picker.open
    BY <2>1, <2>2 DEF Picking!Field
  <2>5. s \in Picking!Search /\ s.current /\ s.term = Picking!TermOf(picker)
    BY <2>1, <2>2, PickTerm DEF Picking!Search, PickFits
  <2>6. Picking!TermOf(g) = Picking!TermOf(picker)
    BY <2>4 DEF Picking!TermOf
  <2>7. PickFits(picker)'
    BY <2>1, <2>3, <2>4, <2>5, <2>6 DEF PickFits, Picking!TermOf
  <2>8. Picking!Waiting'
    BY <2>3, <2>5 DEF Picking!Waiting
  <2>9. Picking!MenuIsAnswered' /\ Picking!MenuIsOfTheText'
    BY <2>8 DEF Picking!MenuIsAnswered, Picking!MenuIsOfTheText
  <2> QED BY <2>3, <2>5, <2>7, <2>9 DEF PickIInv, Picking!EmitsNoOther
<1>6. CASE Picking!reemit
  <2>1. PickFits(picker)
    BY <1>0, <1>6 DEF Picking!reemit
  <2>2. PICK e : e = [party |-> chosen, shown |-> picker.query]
    OBVIOUS
  <2>3. e \in [party : Parties, shown : Words \cup Parties] /\ e.shown \in {e.party, NoText}
    BY <1>6, <2>1, <2>2 DEF Picking!reemit, PickFits, PickIInv, Picking!Field
  <2>4. emitting' = e /\ UNCHANGED <<picker, searches, chosen>>
    BY <1>6, <2>2 DEF Picking!reemit
  <2>5. Picking!EmitsNoOther' /\ emitting' \in [party : Parties, shown : Words \cup Parties]
    BY <2>3, <2>4 DEF Picking!EmitsNoOther
  <2>6. Picking!MenuIsAnswered' /\ Picking!MenuIsOfTheText' /\ PickFits(picker)'
    BY <2>1, <2>4 DEF PickIInv, Picking!MenuIsAnswered, Picking!MenuIsOfTheText, Picking!Waiting,
                      PickFits, Picking!TermOf
  <2> QED BY <2>4, <2>5, <2>6 DEF PickIInv
<1>7. CASE Picking!ReemitEnds
  <2>1. UNCHANGED <<picker, searches>> /\ emitting' = Picking!Nothing /\ chosen' \in {NoParty, chosen}
    BY <1>7 DEF Picking!ReemitEnds
  <2>2. Picking!MenuIsAnswered' /\ Picking!MenuIsOfTheText' /\ Picking!EmitsNoOther'
    BY <2>1 DEF PickIInv, Picking!MenuIsAnswered, Picking!MenuIsOfTheText, Picking!Waiting,
                Picking!TermOf, Picking!EmitsNoOther
  <2>3. PickFits(picker) => PickFits(picker)'
    BY <2>1 DEF PickFits, Picking!TermOf
  <2> QED BY <2>1, <2>2, <2>3 DEF PickIInv
<1>8. ASSUME NEW text \in Words, Picking!onType(text) PROVE PickIInv'
  <2> DEFINE f == [picker EXCEPT !.query = text, !.label = NoText, !.open = TRUE]
  <2>1. f \in Picking!Field /\ f.query = text
    BY <1>0, <1>8 DEF Picking!onType, Picking!Field
  <2>2. /\ Picking!Rearm(f) /\ picker # Picking!Closed /\ chosen' = NoParty /\ UNCHANGED emitting
        /\ text \notin Parties
    BY <1>8 DEF Picking!onType, Picking!PickerAssumption
  <2> HIDE DEF f
  <2> QED BY <2>1, <2>2, PickRearms
<1>9. ASSUME NEW p \in Parties, Picking!choose(p) PROVE PickIInv'
  <2> DEFINE f == [picker EXCEPT !.query = p, !.label = p, !.open = FALSE]
  <2>1. f \in Picking!Field /\ f.query = p /\ f.label = p
    BY <1>0, <1>9 DEF Picking!choose, Picking!Field
  <2>2. Picking!Rearm(f) /\ picker # Picking!Closed /\ chosen' = p /\ UNCHANGED emitting
    BY <1>9 DEF Picking!choose
  <2> HIDE DEF f
  <2> QED BY <2>1, <2>2, PickRearms
<1>10. ASSUME NEW s \in searches, Picking!Arrives(s) PROVE PickIInv'
  <2>1. CASE s.current
    <3>1. PICK hits \in SUBSET Parties : Picking!Shows([term |-> s.term, hits |-> hits])
      BY <1>10, <2>1 DEF Picking!Arrives
    <3> DEFINE r == [term |-> s.term, hits |-> hits]
    <3>2. r \in Picking!Results /\ r.term = s.term
      BY DEF PickIInv, Picking!Results, Picking!Search
    <3> HIDE DEF r
    <3>3. Picking!Shows(r)
      BY <3>1 DEF r
    <3>4. searches' = searches \ {s} /\ UNCHANGED <<chosen, emitting>>
      BY <1>10 DEF Picking!Arrives
    <3> QED BY <2>1, <3>2, <3>3, <3>4, PickAnswers
  <2>2. CASE ~s.current
    BY <1>10, <2>2, PickAnswers DEF Picking!Arrives
  <2> QED BY <2>1, <2>2
<1>11. ASSUME NEW s \in searches, Picking!Fails(s) PROVE PickIInv'
  <2>1. Picking!Nothing \in Picking!Results
    BY DEF Picking!Results
  <2> QED BY <1>11, <2>1, PickAnswers DEF Picking!Fails
<1> QED BY <1>1, <1>2, <1>3, <1>4, <1>5, <1>6, <1>7, <1>8, <1>9, <1>10, <1>11 DEF Picking!Work

\* Every step keeps the field to the choice and the menu to the text.
LEMMA PickIInvStep ==
    ASSUME Picking!PickerAssumption, PickIInv, [Picking!Enter \/ Picking!Work]_(Picking!vars)
    PROVE  PickIInv'
<1>1. CASE UNCHANGED Picking!vars
  BY <1>1 DEF Picking!vars, PickIInv, PickFits, Picking!TermOf, Picking!EmitsNoOther,
              Picking!MenuIsAnswered, Picking!MenuIsOfTheText, Picking!Waiting
<1>2. CASE Picking!Enter
  <2>1. PICK f : f = Picking!NewField
    OBVIOUS
  <2>2. f \in Picking!Field /\ f.query = NoText /\ f.label = NoText /\ f.open = FALSE
    BY <2>1 DEF Picking!NewField, Picking!Field, Picking!Results, Picking!PickerAssumption
  <2>3. picker' = f /\ UNCHANGED <<searches, chosen, emitting>>
    BY <1>2, <2>1 DEF Picking!Enter
  <2>4. PickFits(picker)'
    BY <2>2, <2>3 DEF PickFits
  <2>5. Picking!MenuIsAnswered' /\ Picking!MenuIsOfTheText'
    BY <2>2, <2>3 DEF Picking!MenuIsAnswered, Picking!MenuIsOfTheText
  <2> QED BY <2>3, <2>4, <2>5 DEF PickIInv, Picking!EmitsNoOther
<1> QED BY <1>1, <1>2, PickWorkIInv

\* So no other party is sent than the one shown.
LEMMA PickIInvHolds ==
    PickIInv => /\ Picking!TypeOK /\ Picking!EmitsNoOther
                /\ Picking!MenuIsAnswered /\ Picking!MenuIsOfTheText
BY DEF PickIInv, PickFits, Picking!TypeOK

-----------------------------------------------------------------------------
(* SettingsPage: what was not typed is what was loaded.                       *)
DeskFits(p) ==
    /\ p \in Settings!Page
    /\ p.base # Settings!Nothing => \A k \in Fields \ p.typed : p.fields[k] = p.base[k]

DeskCall == [kind : {"load"}, answer : {Settings!Nothing} \cup Settings!Row]
            \cup [kind : {"save"}, body : Settings!Row]

DeskIInv ==
    /\ row \in Settings!Row /\ deskCalls \subseteq DeskCall
    /\ desk = Settings!Closed \/ DeskFits(desk)
    /\ desk = Settings!Closed => deskCalls = {}
    /\ saved \in {Settings!Nothing} \cup
         [body : Settings!Row, base : {Settings!Nothing} \cup Settings!Row, typed : Settings!Typed]
    /\ Settings!UntouchedIsKept

-----------------------------------------------------------------------------
\* A mounted page is not the closed one.
LEMMA DeskPageIs == Settings!Closed \notin Settings!Page
BY DEF Settings!Closed, Settings!Page

\* At first the page is closed and the row is stored.
LEMMA DeskInitIInv == Settings!PageAssumption /\ Settings!Init => DeskIInv
BY DEF Settings!Init, Settings!PageAssumption, Settings!Row, DeskIInv, Settings!UntouchedIsKept

\* A step that saves nothing and keeps the page to what was loaded.
LEMMA DeskSteps ==
    ASSUME DeskIInv, row' \in Settings!Row, deskCalls' \subseteq DeskCall, NEW q, desk' = q,
           DeskFits(q), saved' = Settings!Nothing
    PROVE  DeskIInv'
<1>1. desk' # Settings!Closed
  BY DeskPageIs DEF DeskFits
<1>2. Settings!UntouchedIsKept'
  BY DEF Settings!UntouchedIsKept
<1> QED BY <1>1, <1>2 DEF DeskIInv, DeskFits

\* Every step keeps the fields nobody typed in as they were loaded.
LEMMA DeskIInvStep ==
    ASSUME Settings!PageAssumption, DeskIInv, [Settings!Enter \/ Settings!Work]_(Settings!vars)
    PROVE  DeskIInv'
<1>0. /\ row \in Settings!Row /\ deskCalls \subseteq DeskCall
      /\ desk # Settings!Closed => DeskFits(desk) /\ desk \in Settings!Page
      /\ deskCalls # {} => desk # Settings!Closed
  BY DEF DeskIInv, DeskFits
<1>l. Settings!Load \in DeskCall
  BY DEF Settings!Load, DeskCall
<1>1. CASE UNCHANGED Settings!vars
  BY <1>1 DEF Settings!vars, DeskIInv, DeskFits, Settings!UntouchedIsKept
<1>2. CASE Settings!Enter
  <2>1. PICK q : q = [open |-> TRUE, fields |-> [k \in Fields |-> NoValue], base |-> Settings!Nothing,
                      typed |-> {}, saving |-> FALSE]
    OBVIOUS
  <2>2. q \in Settings!Page /\ q.base = Settings!Nothing
    BY <2>1 DEF Settings!Page, Settings!Row, Settings!Typed, Settings!PageAssumption
  <2>3. DeskFits(q)
    BY <2>2 DEF DeskFits
  <2> QED BY <1>0, <1>l, <1>2, <2>1, <2>3, DeskSteps DEF Settings!Enter
<1>3. CASE Settings!Leave
  <2>1. \A c \in deskCalls : c.kind = "save" => c.body \in Settings!Row
    BY <1>0 DEF DeskCall
  <2>2. row' \in Settings!Row
    BY <1>0, <1>3, <2>1 DEF Settings!Leave
  <2> QED BY <1>3, <2>2 DEF Settings!Leave, DeskIInv, Settings!UntouchedIsKept
<1>4. CASE Settings!Save
  <2>1. DeskFits(desk) /\ desk \in Settings!Page
    BY <1>0, <1>4 DEF Settings!Save
  <2>2. PICK q : q = [desk EXCEPT !.saving = TRUE]
    OBVIOUS
  <2>3. q \in Settings!Page /\ q.base = desk.base /\ q.fields = desk.fields /\ q.typed = desk.typed
    BY <2>1, <2>2 DEF Settings!Page
  <2>4. DeskFits(q) /\ q # Settings!Closed
    BY <2>1, <2>3, DeskPageIs DEF DeskFits
  <2>5. PICK s : s = [body |-> desk.fields, base |-> desk.base, typed |-> desk.typed]
    OBVIOUS
  <2>6. /\ s \in [body : Settings!Row, base : {Settings!Nothing} \cup Settings!Row, typed : Settings!Typed]
        /\ s.base # Settings!Nothing => \A k \in Fields \ s.typed : s.body[k] = s.base[k]
    BY <2>1, <2>5 DEF Settings!Page, DeskFits
  <2>7. [kind |-> "save", body |-> desk.fields] \in DeskCall
    BY <2>1 DEF DeskCall, Settings!Page
  <2>8. /\ desk' = q /\ saved' = s /\ row' = row
        /\ deskCalls' = deskCalls \cup {[kind |-> "save", body |-> desk.fields]}
    BY <1>4, <2>2, <2>5 DEF Settings!Save
  <2>9. deskCalls' \subseteq DeskCall
    BY <1>0, <2>7, <2>8
  <2>10. Settings!UntouchedIsKept'
    BY <2>6, <2>8 DEF Settings!UntouchedIsKept
  <2> QED BY <1>0, <2>4, <2>6, <2>8, <2>9, <2>10 DEF DeskIInv, DeskFits
<1>5. CASE Settings!Reload
  <2>1. PICK q : q = desk
    OBVIOUS
  <2> QED BY <1>0, <1>l, <1>5, <2>1, DeskSteps DEF Settings!Reload
<1>6. CASE Settings!OthersSave
  <2>1. Settings!UntouchedIsKept'
    BY <1>6 DEF Settings!OthersSave, Settings!UntouchedIsKept
  <2> QED BY <1>6, <2>1 DEF Settings!OthersSave, DeskIInv, DeskFits
<1>7. ASSUME NEW k \in Fields, NEW v \in Values, Settings!TypeField(k, v) PROVE DeskIInv'
  <2>1. PICK f, t : f = [desk.fields EXCEPT ![k] = v] /\ t = desk.typed \cup {k}
    OBVIOUS
  <2>2. PICK q : q = [desk EXCEPT !.fields = f, !.typed = t]
    OBVIOUS
  <2>3. DeskFits(desk) /\ desk \in Settings!Page /\ desk.fields \in Settings!Row
    BY <1>0, <1>7 DEF Settings!TypeField, Settings!Page
  <2>4. f \in Settings!Row /\ t \in Settings!Typed /\ \A j \in Fields \ t : f[j] = desk.fields[j]
    BY <2>1, <2>3 DEF Settings!Page, Settings!Typed, Settings!Row
  <2>5. q \in Settings!Page /\ q.base = desk.base /\ q.fields = f /\ q.typed = t
    BY <2>2, <2>3, <2>4 DEF Settings!Page
  <2>6. DeskFits(q)
    BY <2>1, <2>3, <2>4, <2>5 DEF DeskFits
  <2>7. desk' = q
    BY <1>7, <2>1, <2>2, <2>3 DEF Settings!TypeField, Settings!Page
  <2> QED BY <1>0, <1>7, <2>6, <2>7, DeskSteps DEF Settings!TypeField
<1>8. ASSUME NEW c \in deskCalls, Settings!Serve(c) PROVE DeskIInv'
  <2>1. PICK q : q = desk
    OBVIOUS
  <2>2. PICK d : d = [c EXCEPT !.answer = row]
    OBVIOUS
  <2>3. d \in DeskCall
    BY <1>0, <1>8, <2>2 DEF Settings!Serve, DeskCall
  <2> QED BY <1>0, <1>8, <2>1, <2>2, <2>3, DeskSteps DEF Settings!Serve
<1>9. ASSUME NEW c \in deskCalls, Settings!Arrive(c) PROVE DeskIInv'
  <2>1. PICK q : q = Settings!LoadFields(desk, c.answer)
    OBVIOUS
  <2>2. c.answer \in Settings!Row
    BY <1>0, <1>9 DEF Settings!Arrive, DeskCall
  <2>3. q \in Settings!Page /\ q.base = c.answer /\ q.fields = c.answer
    BY <1>0, <2>1, <2>2 DEF Settings!LoadFields, Settings!Page, Settings!Typed
  <2>4. DeskFits(q)
    BY <2>3 DEF DeskFits
  <2> QED BY <1>0, <1>9, <2>1, <2>4, DeskSteps DEF Settings!Arrive
<1>10. ASSUME NEW c \in deskCalls, Settings!LoadFails(c) PROVE DeskIInv'
  <2>1. PICK q : q = desk
    OBVIOUS
  <2> QED BY <1>0, <1>10, <2>1, DeskSteps DEF Settings!LoadFails
<1>11. ASSUME NEW c \in deskCalls, Settings!SaveEnds(c) PROVE DeskIInv'
  <2>1. PICK q : q = [desk EXCEPT !.saving = FALSE]
    OBVIOUS
  <2>2. q \in Settings!Page /\ q.base = desk.base /\ q.fields = desk.fields /\ q.typed = desk.typed
    BY <1>0, <2>1 DEF Settings!Page
  <2>3. DeskFits(q)
    BY <1>0, <2>2 DEF DeskFits
  <2>4. row' \in Settings!Row
    BY <1>0, <1>11 DEF Settings!SaveEnds, DeskCall
  <2> QED BY <1>0, <1>11, <2>1, <2>3, <2>4, DeskSteps DEF Settings!SaveEnds
<1> QED BY <1>1, <1>2, <1>3, <1>4, <1>5, <1>6, <1>7, <1>8, <1>9, <1>10, <1>11 DEF Settings!Work

\* So a save writes them back as they were.
LEMMA DeskIInvHolds == DeskIInv => Settings!TypeOK /\ Settings!UntouchedIsKept
<1> SUFFICES ASSUME DeskIInv PROVE Settings!TypeOK /\ Settings!UntouchedIsKept
  OBVIOUS
<1>1. \A c \in deskCalls :
        IF c.kind = "save" THEN c.body \in Settings!Row
                           ELSE c.answer \in {Settings!Nothing} \cup Settings!Row
  BY DEF DeskIInv, DeskCall
<1> QED BY <1>1 DEF DeskIInv, DeskFits, Settings!TypeOK

-----------------------------------------------------------------------------
(* ThemeLibrary: as long as nothing was hasty, a page that has its settings   *)
(* has the library as it is stored, no load is beside a write, and a write    *)
(* takes with it the theme that will be live.                                 *)
ThemeLoad == [kind : {"load"},
              answer : {Library!Nothing} \cup [themes : SUBSET ThemeNames, active : Library!MaybeTheme]]
ThemeWrite == [kind : {"write"}, name : Library!MaybeTheme, themes : SUBSET ThemeNames,
               active : Library!MaybeTheme \cup {Library!Same}]

\* The theme that is live once the write is done.
LiveAfter(c, live) == IF c.active = Library!Same THEN live ELSE c.active

Careful ==
    /\ active \in themes \cup {NoTheme}
    /\ editor # Library!Closed /\ editor.loaded => editor.library = themes /\ editor.live = active
    /\ \A c \in themeCalls \cap ThemeLoad :
          c.answer # Library!Nothing => c.answer.themes = themes /\ c.answer.active = active
    /\ \A c \in themeCalls \cap ThemeWrite :
          /\ LiveAfter(c, active) \in c.themes \cup {NoTheme}
          /\ editor.loaded
          /\ \A d \in themeCalls : d = c

LibraryIInv ==
    /\ themes \subseteq ThemeNames /\ active \in Library!MaybeTheme /\ hasty \in BOOLEAN
    /\ editor \in {Library!Closed} \cup Library!Page
    /\ editor = Library!Closed => themeCalls = {}
    /\ themeCalls \subseteq ThemeLoad \cup ThemeWrite
    /\ \A c \in themeCalls \cap ThemeWrite : editor.saving
    /\ \A c, d \in themeCalls \cap ThemeWrite : c = d
    /\ ~hasty => Careful

-----------------------------------------------------------------------------
\* A load is no write, and neither is nothing.
LEMMA ThemeCallIs ==
    /\ Library!Closed \notin Library!Page
    /\ \A c \in ThemeLoad : c.kind = "load" /\ c \notin ThemeWrite
    /\ \A c \in ThemeWrite : c.kind = "write" /\ c \notin ThemeLoad
    /\ Library!Load \in ThemeLoad /\ Library!Load.answer = Library!Nothing
    /\ Library!Nothing \notin [themes : SUBSET ThemeNames, active : Library!MaybeTheme]
BY DEF Library!Closed, Library!Page, ThemeLoad, ThemeWrite, Library!Load, Library!Nothing

\* At first the editor is closed and the live theme is in the library.
LEMMA LibraryInitIInv == Library!LibraryAssumption /\ Library!Init => LibraryIInv
BY DEF Library!Init, Library!LibraryAssumption, LibraryIInv, Careful, Library!MaybeTheme

\* A write the page sends: it takes the live theme with it.
LEMMA ThemeWritten ==
    ASSUME Library!LibraryAssumption, LibraryIInv, editor # Library!Closed,
           NEW name \in Library!MaybeTheme, NEW lib \in SUBSET ThemeNames,
           NEW live \in Library!MaybeTheme \cup {Library!Same},
           Library!Write(name, lib, live),
           Careful /\ editor.loaded =>
             (IF live = Library!Same THEN active ELSE live) \in lib \cup {NoTheme}
    PROVE  LibraryIInv'
<1>1. editor \in Library!Page
  BY DEF LibraryIInv
<1>2. PICK q : q = [editor EXCEPT !.saving = TRUE]
  OBVIOUS
<1>3. /\ q \in Library!Page /\ q.loaded = editor.loaded /\ q.library = editor.library
      /\ q.live = editor.live /\ q.saving = TRUE
  BY <1>1, <1>2 DEF Library!Page
<1>4. PICK d : d = [kind |-> "write", name |-> name, themes |-> lib, active |-> live]
  OBVIOUS
<1>5. d \in ThemeWrite /\ d.themes = lib /\ d.active = live
  BY <1>4 DEF ThemeWrite
<1>6. /\ ~editor.saving /\ themeCalls' = themeCalls \cup {d} /\ editor' = q
      /\ hasty' = (hasty \/ ~editor.loaded \/ Library!Loading) /\ UNCHANGED <<themes, active>>
  BY <1>2, <1>4 DEF Library!Write
<1>7. \A c \in themeCalls : c \in ThemeLoad
  BY <1>6 DEF LibraryIInv
<1>8. ASSUME ~hasty' PROVE Careful'
  <2>1. ~hasty /\ editor.loaded /\ ~Library!Loading
    BY <1>6, <1>8
  <2>2. themeCalls = {}
    BY <1>7, <2>1, ThemeCallIs DEF Library!Loading
  <2>3. Careful /\ themeCalls' = {d}
    BY <1>6, <2>1, <2>2 DEF LibraryIInv
  <2>4. LiveAfter(d, active) \in d.themes \cup {NoTheme}
    BY <1>5, <2>1, <2>3 DEF LiveAfter
  <2>5. d \notin ThemeLoad
    BY <1>5, ThemeCallIs
  <2> QED BY <1>3, <1>6, <2>1, <2>3, <2>4, <2>5 DEF Careful, LiveAfter
<1>9. hasty' \in BOOLEAN
  BY <1>6
<1> QED BY <1>3, <1>5, <1>6, <1>7, <1>8, <1>9, ThemeCallIs DEF LibraryIInv

\* The write is done, with or without its answer.
LEMMA ThemePatched ==
    ASSUME LibraryIInv, NEW c \in themeCalls \cap ThemeWrite, Library!Patch(c)
    PROVE  /\ themes' \subseteq ThemeNames /\ active' \in Library!MaybeTheme
           /\ themes' = c.themes /\ active' = LiveAfter(c, active)
           /\ ~hasty => active' \in themes' \cup {NoTheme}
<1>1. c.themes \subseteq ThemeNames /\ c.active \in Library!MaybeTheme \cup {Library!Same}
  BY DEF ThemeWrite
<1>2. ~hasty => LiveAfter(c, active) \in c.themes \cup {NoTheme}
  BY DEF LibraryIInv, Careful
<1> QED BY <1>1, <1>2 DEF Library!Patch, LiveAfter, LibraryIInv

\* The steps of an open editor and of the backend.
LEMMA LibraryWorkIInv ==
    ASSUME Library!LibraryAssumption, LibraryIInv, Library!Work PROVE LibraryIInv'
<1>0. /\ themes \subseteq ThemeNames /\ active \in Library!MaybeTheme /\ hasty \in BOOLEAN
      /\ editor # Library!Closed => editor \in Library!Page
      /\ themeCalls # {} => editor # Library!Closed
      /\ themeCalls \subseteq ThemeLoad \cup ThemeWrite
      /\ ~hasty => Careful
  BY DEF LibraryIInv
<1>1. CASE Library!Leave
  <2>1. /\ editor' = Library!Closed /\ themeCalls' = {} /\ UNCHANGED hasty
    BY <1>1 DEF Library!Leave
  <2>2. /\ themes' \subseteq ThemeNames /\ active' \in Library!MaybeTheme
        /\ ~hasty => active' \in themes' \cup {NoTheme}
    <3>1. CASE UNCHANGED <<themes, active>>
      BY <1>0, <3>1 DEF Careful
    <3>2. ASSUME NEW c \in themeCalls, c.kind = "write", Library!Patch(c)
          PROVE  /\ themes' \subseteq ThemeNames /\ active' \in Library!MaybeTheme
                 /\ ~hasty => active' \in themes' \cup {NoTheme}
      BY <1>0, <3>2, ThemeCallIs, ThemePatched
    <3> QED BY <1>1, <3>1, <3>2 DEF Library!Leave
  <2> QED BY <1>0, <2>1, <2>2 DEF LibraryIInv, Careful
<1>2. CASE Library!handleDeleteTheme
  <2>1. /\ editor # Library!Closed /\ editor \in Library!Page /\ editor.selected # editor.live
        /\ editor.selected # NoTheme
        /\ Library!Write(editor.live, editor.library \ {editor.selected}, Library!Same)
    BY <1>0, <1>2 DEF Library!handleDeleteTheme, Library!MayDelete
  <2>2. editor.live \in Library!MaybeTheme /\ editor.library \ {editor.selected} \in SUBSET ThemeNames
    BY <2>1 DEF Library!Page
  <2>3. Careful /\ editor.loaded => active \in (editor.library \ {editor.selected}) \cup {NoTheme}
    BY <2>1 DEF Careful
  <2> QED BY <2>1, <2>2, <2>3, ThemeWritten
<1>3. CASE Library!AssetUploaded
  <2>1. /\ editor # Library!Closed /\ themeCalls' = themeCalls \cup {Library!Load}
        /\ hasty' = (hasty \/ editor.saving) /\ UNCHANGED <<themes, active, editor>>
    BY <1>3 DEF Library!AssetUploaded
  <2>2. ASSUME ~hasty' PROVE Careful'
    <3>1. Careful /\ ~editor.saving
      BY <1>0, <2>1, <2>2
    <3>2. themeCalls \cap ThemeWrite = {} /\ themeCalls' \cap ThemeWrite = {}
      BY <2>1, <3>1, ThemeCallIs DEF LibraryIInv
    <3> QED BY <2>1, <3>1, <3>2, ThemeCallIs DEF Careful
  <2>3. hasty' \in BOOLEAN
    BY <2>1
  <2> QED BY <1>0, <2>1, <2>2, <2>3, ThemeCallIs DEF LibraryIInv
<1>4. ASSUME NEW name \in ThemeNames, Library!handleSaveTheme(name) PROVE LibraryIInv'
  <2>1. /\ editor # Library!Closed /\ editor \in Library!Page
        /\ Library!Write(name, editor.library \cup {name}, Library!Same)
    BY <1>0, <1>4 DEF Library!handleSaveTheme
  <2>2. name \in Library!MaybeTheme /\ editor.library \cup {name} \in SUBSET ThemeNames
    BY <2>1 DEF Library!Page, Library!MaybeTheme
  <2>3. Careful /\ editor.loaded => active \in editor.library \cup {name} \cup {NoTheme}
    BY <2>1 DEF Careful
  <2> QED BY <2>1, <2>2, <2>3, ThemeWritten
<1>5. ASSUME NEW name \in Library!MaybeTheme, Library!handleSelectTheme(name) PROVE LibraryIInv'
  <2>1. editor # Library!Closed /\ UNCHANGED <<themes, active, themeCalls, hasty>>
    BY <1>5 DEF Library!handleSelectTheme
  <2>2. PICK q : q = [editor EXCEPT !.selected = name]
    OBVIOUS
  <2>3. /\ q \in Library!Page /\ q.loaded = editor.loaded /\ q.library = editor.library
        /\ q.live = editor.live /\ q.saving = editor.saving
    BY <1>0, <2>1, <2>2 DEF Library!Page
  <2>4. editor' = q
    BY <1>5, <2>2 DEF Library!handleSelectTheme
  <2>5. ~hasty' => Careful'
    BY <1>0, <2>1, <2>3, <2>4 DEF Careful, LiveAfter
  <2> QED BY <2>1, <2>3, <2>4, <2>5, ThemeCallIs DEF LibraryIInv
<1>6. ASSUME NEW name \in Library!MaybeTheme, Library!handleApplyTheme(name) PROVE LibraryIInv'
  <2>1. /\ editor # Library!Closed /\ editor \in Library!Page
        /\ Library!Write(name, editor.library \cup ({name} \ {NoTheme}), name)
    BY <1>0, <1>6 DEF Library!handleApplyTheme
  <2>2. editor.library \cup ({name} \ {NoTheme}) \in SUBSET ThemeNames
    BY <2>1 DEF Library!Page, Library!MaybeTheme
  <2>3. Careful /\ editor.loaded =>
          (IF name = Library!Same THEN active ELSE name)
             \in (editor.library \cup ({name} \ {NoTheme})) \cup {NoTheme}
    BY <2>1 DEF Careful
  <2> QED BY <2>1, <2>2, <2>3, ThemeWritten
<1>7. ASSUME NEW c \in themeCalls, Library!Serve(c) PROVE LibraryIInv'
  <2>1. c \in ThemeLoad /\ UNCHANGED <<themes, active, editor, hasty>>
    BY <1>0, <1>7, ThemeCallIs DEF Library!Serve
  <2>2. PICK a : a = [themes |-> themes, active |-> active]
    OBVIOUS
  <2>3. a.themes = themes /\ a.active = active
          /\ a \in [themes : SUBSET ThemeNames, active : Library!MaybeTheme]
    BY <1>0, <2>2
  <2>4. PICK d : d = [c EXCEPT !.answer = a]
    OBVIOUS
  <2>5. d \in ThemeLoad /\ d.answer = a
    BY <2>1, <2>3, <2>4 DEF ThemeLoad
  <2>6. themeCalls' = (themeCalls \ {c}) \cup {d}
    BY <1>7, <2>2, <2>4 DEF Library!Serve
  <2>7. ASSUME ~hasty' PROVE Careful'
    <3>1. Careful
      BY <1>0, <2>1, <2>7
    <3>2. themeCalls \cap ThemeWrite = {}
      BY <2>1, <3>1, ThemeCallIs DEF Careful
    <3>3. themeCalls' \cap ThemeWrite = {}
      BY <2>5, <2>6, <3>2, ThemeCallIs
    <3> QED BY <2>1, <2>3, <2>5, <2>6, <3>1, <3>3 DEF Careful
  <2>8. themeCalls' \cap ThemeWrite \subseteq themeCalls \cap ThemeWrite
    BY <2>5, <2>6, ThemeCallIs
  <2> QED BY <1>0, <2>1, <2>5, <2>6, <2>7, <2>8 DEF LibraryIInv
<1>8. ASSUME NEW c \in themeCalls, Library!Arrive(c) PROVE LibraryIInv'
  <2>1. /\ c \in ThemeLoad /\ c.answer # Library!Nothing /\ themeCalls' = themeCalls \ {c}
        /\ UNCHANGED <<themes, active, hasty>>
        /\ editor # Library!Closed
    BY <1>0, <1>8, ThemeCallIs DEF Library!Arrive
  <2>2. c.answer.themes \in SUBSET ThemeNames /\ c.answer.active \in Library!MaybeTheme
    BY <2>1 DEF ThemeLoad
  <2>3. PICK q : q = [editor EXCEPT !.loaded = TRUE, !.library = c.answer.themes,
                                !.live = c.answer.active, !.selected = c.answer.active]
    OBVIOUS
  <2>4. /\ q \in Library!Page /\ q.loaded = TRUE /\ q.library = c.answer.themes
        /\ q.live = c.answer.active /\ q.saving = editor.saving
    BY <1>0, <2>1, <2>2, <2>3 DEF Library!Page
  <2>5. editor' = q
    BY <1>8, <2>3 DEF Library!Arrive
  <2>6. ~hasty' => Careful'
    BY <1>0, <2>1, <2>4, <2>5 DEF Careful, LiveAfter
  <2> QED BY <1>0, <2>1, <2>4, <2>5, <2>6, ThemeCallIs DEF LibraryIInv
<1>9. ASSUME NEW c \in themeCalls, Library!LoadFails(c) PROVE LibraryIInv'
  <2>1. themeCalls' = themeCalls \ {c} /\ UNCHANGED <<themes, active, editor, hasty>>
    BY <1>9 DEF Library!LoadFails
  <2>2. ~hasty' => Careful'
    BY <1>0, <2>1 DEF Careful, LiveAfter
  <2> QED BY <1>0, <2>1, <2>2 DEF LibraryIInv
<1>10. ASSUME NEW c \in themeCalls, Library!WriteSucceeds(c) PROVE LibraryIInv'
  <2>1. /\ c \in ThemeWrite /\ Library!Patch(c) /\ themeCalls' = themeCalls \ {c} /\ UNCHANGED hasty
        /\ editor # Library!Closed
    BY <1>0, <1>10, ThemeCallIs DEF Library!WriteSucceeds
  <2>2. /\ themes' \subseteq ThemeNames /\ active' \in Library!MaybeTheme
        /\ themes' = c.themes /\ active' = LiveAfter(c, active)
        /\ ~hasty => active' \in themes' \cup {NoTheme}
    BY <2>1, ThemePatched
  <2>3. /\ c.themes \in SUBSET ThemeNames /\ c.name \in Library!MaybeTheme
        /\ LiveAfter(c, editor.live) \in Library!MaybeTheme
    BY <1>0, <2>1 DEF ThemeWrite, LiveAfter, Library!Page
  <2>4. PICK q : q = [editor EXCEPT !.saving = FALSE, !.library = c.themes, !.selected = c.name,
                                    !.live = LiveAfter(c, editor.live)]
    OBVIOUS
  <2>5. /\ q \in Library!Page /\ q.loaded = editor.loaded /\ q.library = c.themes
        /\ q.live = LiveAfter(c, editor.live)
    BY <1>0, <2>1, <2>3, <2>4 DEF Library!Page
  <2>6. editor' = q
    BY <1>10, <2>4 DEF Library!WriteSucceeds, LiveAfter
  <2>7. ASSUME ~hasty' PROVE Careful' /\ themeCalls' = {}
    <3>1. Careful /\ themeCalls' = {}
      BY <1>0, <2>1, <2>7 DEF Careful
    <3>2. editor.loaded => editor.live = active
      BY <2>1, <3>1 DEF Careful
    <3>3. editor' # Library!Closed /\ editor'.loaded => editor'.library = themes' /\ editor'.live = active'
      BY <2>2, <2>5, <2>6, <3>2
    <3> QED BY <2>1, <2>2, <2>7, <3>1, <3>3 DEF Careful
  <2>8. themeCalls' \cap ThemeWrite = {}
    BY <2>1 DEF LibraryIInv
  <2> QED BY <1>0, <2>1, <2>2, <2>5, <2>6, <2>7, <2>8, ThemeCallIs DEF LibraryIInv
<1>11. ASSUME NEW c \in themeCalls, Library!WriteFails(c) PROVE LibraryIInv'
  <2>1. /\ c \in ThemeWrite /\ themeCalls' = themeCalls \ {c} /\ editor # Library!Closed
        /\ UNCHANGED <<themes, active, hasty>> \/ (Library!Patch(c) /\ hasty')
    BY <1>0, <1>11, ThemeCallIs DEF Library!WriteFails
  <2>2. PICK q : q = [editor EXCEPT !.saving = FALSE]
    OBVIOUS
  <2>3. /\ q \in Library!Page /\ q.loaded = editor.loaded /\ q.library = editor.library
        /\ q.live = editor.live
    BY <1>0, <2>1, <2>2 DEF Library!Page
  <2>4. editor' = q
    BY <1>11, <2>2 DEF Library!WriteFails
  <2>5. themeCalls' \cap ThemeWrite = {}
    BY <2>1 DEF LibraryIInv
  <2>6. themes' \subseteq ThemeNames /\ active' \in Library!MaybeTheme /\ hasty' \in BOOLEAN
    BY <1>0, <1>11, <2>1, ThemePatched DEF Library!WriteFails
  <2>7. ASSUME ~hasty' PROVE Careful'
    <3>1. Careful /\ UNCHANGED <<themes, active, hasty>>
      BY <1>0, <2>1, <2>7
    <3> QED BY <2>1, <2>3, <2>4, <2>5, <3>1 DEF Careful
  <2> QED BY <1>0, <2>1, <2>3, <2>4, <2>5, <2>6, <2>7, ThemeCallIs DEF LibraryIInv
<1>12. CASE \E c \in themeCalls : \/ Library!Serve(c) \/ Library!Arrive(c) \/ Library!LoadFails(c)
                                  \/ Library!WriteSucceeds(c) \/ Library!WriteFails(c)
  BY <1>12, <1>7, <1>8, <1>9, <1>10, <1>11
<1>13. CASE \E name \in ThemeNames : Library!handleSaveTheme(name)
  BY <1>13, <1>4
<1>14. CASE \E name \in Library!MaybeTheme :
              Library!handleSelectTheme(name) \/ Library!handleApplyTheme(name)
  BY <1>14, <1>5, <1>6
<1> QED
  BY <1>1, <1>2, <1>3, <1>12, <1>13, <1>14 DEF Library!Work

\* Every step keeps what the editor has loaded to what is stored.
LEMMA LibraryIInvStep ==
    ASSUME Library!LibraryAssumption, LibraryIInv,
           [Library!Enter \/ Library!Work]_(Library!vars)
    PROVE  LibraryIInv'
<1>1. CASE UNCHANGED Library!vars
  BY <1>1 DEF Library!vars, LibraryIInv, Careful, LiveAfter, Library!MaybeTheme, Library!Page
<1>2. CASE Library!Enter
  <2>1. PICK q : q = [open |-> TRUE, loaded |-> FALSE, library |-> {}, live |-> NoTheme,
                      selected |-> NoTheme, saving |-> FALSE]
    OBVIOUS
  <2>2. q \in Library!Page /\ ~q.loaded
    BY <2>1 DEF Library!Page, Library!MaybeTheme
  <2>3. /\ editor' = q /\ themeCalls' = {Library!Load} /\ UNCHANGED <<themes, active, hasty>>
    BY <1>2, <2>1 DEF Library!Enter
  <2>4. themeCalls' \cap ThemeWrite = {}
    BY <2>3, ThemeCallIs
  <2>5. ~hasty' => Careful'
    BY <2>2, <2>3, <2>4, ThemeCallIs DEF Careful, LibraryIInv
  <2> QED BY <2>2, <2>3, <2>4, <2>5, ThemeCallIs DEF LibraryIInv
<1> QED BY <1>1, <1>2, LibraryWorkIInv

\* So the live theme stays in the library.
LEMMA LibraryIInvHolds == LibraryIInv => Library!TypeOK /\ Library!LiveThemeIsKept
BY DEF LibraryIInv, Careful, Library!TypeOK, Library!LiveThemeIsKept

-----------------------------------------------------------------------------
(* IdentityProviders: as long as nothing was rash, at most one call changes   *)
(* mappers, the card shows mappers of the edited provider only, and what a    *)
(* preset no longer has to map is mapped.                                     *)
MaybeSecret == Secrets \cup {Blank}
MapperSet == SUBSET PresetAttributes

ListFetch == [kind : {"list"}]
MapperFetch == [kind : {"mappers"}, alias : Providers, ends : BOOLEAN]
ProviderSave == [kind : {"create", "update"}, alias : Providers, secret : MaybeSecret]
ProviderDelete == [kind : {"delete"}, alias : Providers, closes : BOOLEAN]
MapperChange == [kind : {"add", "remove"}, alias : Providers, mapper : PresetAttributes]
PresetCall == [kind : {"preset"}, alias : Providers, rest : MapperSet]
IdentityCall == ListFetch \cup MapperFetch \cup ProviderSave \cup ProviderDelete
                \cup MapperChange \cup PresetCall

RealmFits(r) ==
    /\ DOMAIN r \subseteq Providers
    /\ r \in [DOMAIN r -> [secret : MaybeSecret, mappers : MapperSet]]

CardFits(p) ==
    /\ p \in Identity!Card
    /\ p.editor # Identity!Nothing /\ ~p.editor.new => p.editor.alias \in Providers

\* The calls whose end makes the card ready for the next change of mappers.
Changes(c) == c.kind \in {"add", "remove", "preset"} \/ (c.kind = "mappers" /\ c.ends)

MappersIn(r, a) == IF a \in DOMAIN r THEN r[a].mappers ELSE {}

\* What the card, and a preset under way, take to be mapped is mapped.
CardIsTrue(p, r) ==
    Identity!EditingOld(p) /\ p.mappers # Identity!Nothing
        => p.mappers.known \subseteq MappersIn(r, p.editor.alias)
PresetIsTrue(c, r) ==
    c.kind = "preset" => PresetAttributes \ c.rest \subseteq MappersIn(r, c.alias)
FetchIsOfEdited(c, p) ==
    c.kind = "mappers" /\ Identity!EditingOld(p) => p.editor.alias = c.alias

Calm(p, r, cs) ==
    /\ CardIsTrue(p, r)
    /\ \A c \in cs : PresetIsTrue(c, r) /\ FetchIsOfEdited(c, p)

IdentityIInv ==
    /\ RealmFits(realm) /\ rash \in BOOLEAN /\ filled \in Providers \cup {Identity!Nobody}
    /\ \/ card = Identity!Closed /\ cardCalls = {}
       \/ CardFits(card)
    /\ cardCalls \subseteq IdentityCall
    /\ \A c \in cardCalls : Changes(c) => card.busy /\ \A d \in cardCalls : Changes(d) => d = c
    /\ ~rash => Calm(card, realm, cardCalls)
    /\ Identity!PresetIsComplete

\* No step wipes the secret of a provider that stays.
KeepsSecrets ==
    \A a \in DOMAIN realm \cap DOMAIN realm' :
        realm[a].secret # Blank => realm'[a].secret # Blank

-----------------------------------------------------------------------------
\* A mounted card, its editor and its mappers are not their absence.
LEMMA IdentityCardIs ==
    /\ Identity!Closed \notin Identity!Card /\ ~Identity!Closed.open
    /\ Identity!Nothing \notin Identity!Editor
    /\ Identity!Nothing \notin [known : MapperSet]
    /\ Identity!List \in ListFetch
    /\ ~Changes(Identity!List) /\ Identity!List.kind = "list"
BY DEF Identity!Closed, Identity!Card, Identity!Nothing, Identity!Editor, Identity!List, ListFetch,
       Changes

\* The kind of a call decides what it carries.
LEMMA IdentityCallIs ==
    ASSUME NEW c \in IdentityCall
    PROVE  /\ c.kind = "list" => c \in ListFetch
           /\ c.kind = "mappers" => c \in MapperFetch
           /\ c.kind \in {"create", "update"} => c \in ProviderSave
           /\ c.kind = "delete" => c \in ProviderDelete
           /\ c.kind \in {"add", "remove"} => c \in MapperChange
           /\ c.kind = "preset" => c \in PresetCall
           /\ c.kind \in {"list", "mappers", "create", "update", "delete", "add", "remove", "preset"}
           /\ c.kind # "list" => c.alias \in Providers
BY DEF IdentityCall, ListFetch, MapperFetch, ProviderSave, ProviderDelete, MapperChange, PresetCall

\* What a realm holds of a provider.
LEMMA RealmIs ==
    ASSUME NEW r, RealmFits(r)
    PROVE  /\ \A a : MappersIn(r, a) \in MapperSet
           /\ \A a \in DOMAIN r : r[a].secret \in MaybeSecret /\ r[a].mappers \in MapperSet
                                  /\ MappersIn(r, a) = r[a].mappers
BY DEF RealmFits, MappersIn, MapperSet

\* At first the card is closed and the realm has its providers.
LEMMA IdentityInitIInv == Identity!ProvidersAssumption /\ Identity!Init => IdentityIInv
<1> SUFFICES ASSUME Identity!ProvidersAssumption, Identity!Init PROVE IdentityIInv
  OBVIOUS
<1>1. \A a \in DOMAIN InitialProviders :
         [secret |-> InitialProviders[a], mappers |-> {}] \in [secret : MaybeSecret, mappers : MapperSet]
  BY DEF Identity!ProvidersAssumption, MaybeSecret, MapperSet
<1>2. realm = [a \in DOMAIN InitialProviders |-> [secret |-> InitialProviders[a], mappers |-> {}]]
  BY DEF Identity!Init
<1>3. RealmFits(realm)
  <2>1. DOMAIN realm = DOMAIN InitialProviders
    BY <1>2
  <2>2. DOMAIN realm \subseteq Providers
    BY <2>1 DEF Identity!ProvidersAssumption
  <2> QED BY <1>1, <1>2, <2>1, <2>2 DEF RealmFits
<1>4. Identity!PresetIsComplete
  <2>1. filled \notin DOMAIN realm
    BY <1>3 DEF Identity!Init, Identity!ProvidersAssumption, Identity!Nobody, RealmFits
  <2> QED BY <2>1 DEF Identity!PresetIsComplete
<1>5. Calm(card, realm, cardCalls)
  BY IdentityCardIs DEF Identity!Init, Calm, CardIsTrue, Identity!EditingOld, Identity!Editing
<1> QED BY <1>3, <1>4, <1>5 DEF Identity!Init, IdentityIInv

-----------------------------------------------------------------------------
(* The realm.                                                                 *)
LEMMA CreateIs ==
    ASSUME RealmFits(realm), NEW c \in IdentityCall, Identity!CreateIdp(c)
    PROVE  /\ RealmFits(realm') /\ KeepsSecrets
           /\ \A a : MappersIn(realm', a) = MappersIn(realm, a)
<1>1. c \in ProviderSave /\ c.alias \in Providers /\ c.secret \in MaybeSecret
  BY IdentityCallIs DEF Identity!CreateIdp, ProviderSave
<1>2. PICK n : n = [secret |-> c.secret, mappers |-> {}]
  OBVIOUS
<1>3. n \in [secret : MaybeSecret, mappers : MapperSet] /\ n.mappers = {}
  BY <1>1, <1>2 DEF MapperSet
<1>4. /\ c.alias \notin DOMAIN realm
      /\ realm' = [a \in DOMAIN realm \cup {c.alias} |-> IF a = c.alias THEN n ELSE realm[a]]
  BY <1>2 DEF Identity!CreateIdp
<1>5. DOMAIN realm' = DOMAIN realm \cup {c.alias} /\ realm'[c.alias] = n
        /\ \A a \in DOMAIN realm : realm'[a] = realm[a]
  BY <1>4
<1>6. RealmFits(realm')
  BY <1>1, <1>3, <1>4, <1>5 DEF RealmFits
<1>7. \A a : MappersIn(realm', a) = MappersIn(realm, a)
  BY <1>3, <1>4, <1>5 DEF MappersIn
<1>8. KeepsSecrets
  BY <1>4, <1>5 DEF KeepsSecrets
<1> QED BY <1>6, <1>7, <1>8

\* A change of one provider.
LEMMA ProviderIs ==
    ASSUME RealmFits(realm), NEW a \in DOMAIN realm, NEW n, realm' = [realm EXCEPT ![a] = n],
           n \in [secret : MaybeSecret, mappers : MapperSet],
           realm[a].secret # Blank => n.secret # Blank
    PROVE  /\ RealmFits(realm') /\ KeepsSecrets /\ DOMAIN realm' = DOMAIN realm
           /\ MappersIn(realm', a) = n.mappers
           /\ \A b : b # a => MappersIn(realm', b) = MappersIn(realm, b)
<1>1. DOMAIN realm' = DOMAIN realm /\ realm'[a] = n
        /\ \A b \in DOMAIN realm : b # a => realm'[b] = realm[b]
  BY DEF RealmFits
<1>2. RealmFits(realm')
  BY <1>1 DEF RealmFits
<1> QED BY <1>1, <1>2 DEF MappersIn, KeepsSecrets

\* UpdateIdp keeps secrets and mappers.
LEMMA UpdateIdpIs ==
    ASSUME Identity!ProvidersAssumption, RealmFits(realm), NEW c \in IdentityCall,
           Identity!UpdateIdp(c)
    PROVE  /\ RealmFits(realm') /\ KeepsSecrets
           /\ \A a : MappersIn(realm', a) = MappersIn(realm, a)
<1>1. c \in ProviderSave /\ c.alias \in DOMAIN realm /\ c.secret \in MaybeSecret
  BY IdentityCallIs DEF Identity!UpdateIdp, ProviderSave
<1>2. PICK r : r = realm[c.alias]
  OBVIOUS
<1>3. r \in [secret : MaybeSecret, mappers : MapperSet]
  BY <1>1, <1>2 DEF RealmFits
<1>4. PICK n : n = [r EXCEPT !.secret = Identity!Merged(r.secret, c.secret)]
  OBVIOUS
<1>5. /\ n \in [secret : MaybeSecret, mappers : MapperSet] /\ n.mappers = r.mappers
      /\ r.secret # Blank => n.secret # Blank
  BY <1>1, <1>3, <1>4 DEF Identity!Merged
<1>6. realm' = [realm EXCEPT ![c.alias] = n]
  BY <1>1, <1>2, <1>4 DEF Identity!UpdateIdp, RealmFits
<1>7. /\ RealmFits(realm') /\ KeepsSecrets
      /\ MappersIn(realm', c.alias) = n.mappers
      /\ \A b : b # c.alias => MappersIn(realm', b) = MappersIn(realm, b)
  BY <1>1, <1>2, <1>5, <1>6, ProviderIs
<1>8. MappersIn(realm, c.alias) = n.mappers
  BY <1>1, <1>2, <1>5 DEF MappersIn
<1> QED BY <1>7, <1>8

\* A provider that goes takes only its own with it.
LEMMA DeleteIs ==
    ASSUME RealmFits(realm), NEW c, Identity!DeleteIdp(c)
    PROVE  RealmFits(realm') /\ KeepsSecrets
<1>1. realm' = [a \in DOMAIN realm \ {c.alias} |-> realm[a]]
  BY DEF Identity!DeleteIdp
<1>2. DOMAIN realm' = DOMAIN realm \ {c.alias} /\ \A a \in DOMAIN realm' : realm'[a] = realm[a]
  BY <1>1
<1>3. \A a \in DOMAIN realm : realm[a] \in [secret : MaybeSecret, mappers : MapperSet]
  BY DEF RealmFits
<1> QED BY <1>1, <1>2, <1>3 DEF RealmFits, KeepsSecrets

\* A mapper more, and nothing less.
LEMMA AddedIs ==
    ASSUME RealmFits(realm), NEW a, NEW m \in PresetAttributes, Identity!CreateIdpMapper(a, m)
    PROVE  /\ RealmFits(realm') /\ KeepsSecrets /\ a \in DOMAIN realm /\ DOMAIN realm' = DOMAIN realm
           /\ MappersIn(realm', a) = MappersIn(realm, a) \cup {m}
           /\ \A b : MappersIn(realm, b) \subseteq MappersIn(realm', b)
<1>1. a \in DOMAIN realm
  BY DEF Identity!CreateIdpMapper
<1>2. PICK r : r = realm[a]
  OBVIOUS
<1>3. r \in [secret : MaybeSecret, mappers : MapperSet] /\ r.mappers = MappersIn(realm, a)
  BY <1>1, <1>2 DEF RealmFits, MappersIn
<1>4. PICK n : n = [r EXCEPT !.mappers = r.mappers \cup {m}]
  OBVIOUS
<1>5. /\ n \in [secret : MaybeSecret, mappers : MapperSet] /\ n.mappers = r.mappers \cup {m}
      /\ n.secret = r.secret
  BY <1>3, <1>4 DEF MapperSet
<1>6. realm' = [realm EXCEPT ![a] = n]
  BY <1>1, <1>2, <1>4 DEF Identity!CreateIdpMapper, RealmFits
<1>7. /\ RealmFits(realm') /\ KeepsSecrets /\ DOMAIN realm' = DOMAIN realm
      /\ MappersIn(realm', a) = n.mappers
      /\ \A b : b # a => MappersIn(realm', b) = MappersIn(realm, b)
  BY <1>1, <1>2, <1>5, <1>6, ProviderIs
<1> QED BY <1>1, <1>3, <1>5, <1>7

\* A mapper less, and every secret still there.
LEMMA RemovedIs ==
    ASSUME RealmFits(realm), NEW a, NEW m, Identity!DeleteIdpMapper(a, m)
    PROVE  RealmFits(realm') /\ KeepsSecrets /\ DOMAIN realm' = DOMAIN realm
<1>1. a \in DOMAIN realm
  BY DEF Identity!DeleteIdpMapper
<1>2. PICK r : r = realm[a]
  OBVIOUS
<1>3. r \in [secret : MaybeSecret, mappers : MapperSet]
  BY <1>1, <1>2 DEF RealmFits
<1>4. PICK n : n = [r EXCEPT !.mappers = r.mappers \ {m}]
  OBVIOUS
<1>5. n \in [secret : MaybeSecret, mappers : MapperSet] /\ n.secret = r.secret
  BY <1>3, <1>4 DEF MapperSet
<1>6. realm' = [realm EXCEPT ![a] = n]
  BY <1>1, <1>2, <1>4 DEF Identity!DeleteIdpMapper, RealmFits
<1> QED BY <1>1, <1>2, <1>5, <1>6, ProviderIs

\* Whatever a call does, it keeps the secrets.
LEMMA ChangeIs ==
    ASSUME Identity!ProvidersAssumption, RealmFits(realm), NEW c \in IdentityCall, Identity!Change(c)
    PROVE  RealmFits(realm') /\ KeepsSecrets
<1>1. c.kind \in {"add", "remove"} => c.mapper \in PresetAttributes
  BY IdentityCallIs DEF MapperChange
<1> QED BY <1>1, CreateIs, UpdateIdpIs, DeleteIs, AddedIs, RemovedIs DEF Identity!Change

-----------------------------------------------------------------------------
(* The card.                                                                  *)
LEMMA EditorIs ==
    ASSUME CardFits(card), NEW e \in {Identity!Nothing} \cup Identity!Editor,
           e # Identity!Nothing /\ ~e.new => e.alias \in Providers,
           NEW q, q = Identity!EditorChanges(card, e)
    PROVE  /\ CardFits(q) /\ q.busy = card.busy /\ q.editor = e /\ q.open
           /\ q = card \/ q.mappers = Identity!Nothing
<1>1. CASE card.editor = e
  BY <1>1 DEF Identity!EditorChanges, CardFits, Identity!Card
<1>2. CASE card.editor # e
  <2>1. q = [card EXCEPT !.editor = e, !.mappers = Identity!Nothing]
    BY <1>2 DEF Identity!EditorChanges
  <2>2. /\ q \in Identity!Card /\ q.busy = card.busy /\ q.editor = e /\ q.open
        /\ q.mappers = Identity!Nothing
    BY <2>1 DEF CardFits, Identity!Card
  <2> QED BY <2>2 DEF CardFits
<1> QED BY <1>1, <1>2

\* A step that leaves the realm alone and reports nothing.
LEMMA CardSteps ==
    ASSUME IdentityIInv, UNCHANGED realm, filled' = Identity!Nobody, rash' \in BOOLEAN,
           Identity!ProvidersAssumption,
           NEW q, card' = q, CardFits(q), cardCalls' \subseteq IdentityCall,
           \A c \in cardCalls' : Changes(c) => q.busy /\ \A d \in cardCalls' : Changes(d) => d = c,
           ~rash' => Calm(q, realm, cardCalls')
    PROVE  IdentityIInv' /\ [KeepsSecrets]_realm
<1>1. Identity!PresetIsComplete'
  BY DEF Identity!PresetIsComplete, IdentityIInv, Identity!ProvidersAssumption, Identity!Nobody,
         RealmFits
<1>2. ~rash' => Calm(card, realm, cardCalls)'
  BY DEF Calm
<1>3. RealmFits(realm)' /\ CardFits(card)'
  BY DEF IdentityIInv
<1>4. (\A c \in cardCalls : Changes(c) => card.busy /\ \A d \in cardCalls : Changes(d) => d = c)'
  BY DEF Changes
<1> QED BY <1>1, <1>2, <1>3, <1>4 DEF IdentityIInv

\* The same with a change of the realm.
LEMMA RealmSteps ==
    ASSUME IdentityIInv, RealmFits(realm'), filled' = Identity!Nobody, rash' \in BOOLEAN,
           Identity!ProvidersAssumption,
           NEW q, card' = q, CardFits(q), cardCalls' \subseteq IdentityCall,
           \A c \in cardCalls' : Changes(c) => q.busy /\ \A d \in cardCalls' : Changes(d) => d = c,
           ~rash' => Calm(q, realm', cardCalls')
    PROVE  IdentityIInv'
<1>1. Identity!PresetIsComplete'
  <2>1. DOMAIN realm' \subseteq Providers
    BY DEF RealmFits
  <2> QED BY <2>1 DEF Identity!PresetIsComplete, Identity!ProvidersAssumption, Identity!Nobody
<1>2. ~rash' => Calm(card, realm, cardCalls)'
  BY DEF Calm
<1>3. RealmFits(realm)' /\ CardFits(card)'
  BY DEF IdentityIInv, RealmFits
<1>4. (\A c \in cardCalls : Changes(c) => card.busy /\ \A d \in cardCalls : Changes(d) => d = c)'
  BY DEF Changes
<1> QED BY <1>1, <1>2, <1>3, <1>4 DEF IdentityIInv

-----------------------------------------------------------------------------
(* The operator.                                                              *)
LEMMA IdentityFacts ==
    ASSUME IdentityIInv
    PROVE  /\ RealmFits(realm) /\ rash \in BOOLEAN /\ cardCalls \subseteq IdentityCall
           /\ card = Identity!Closed \/ CardFits(card)
           /\ card.open => CardFits(card)
           /\ cardCalls # {} => CardFits(card)
           /\ \A c \in cardCalls : Changes(c) => card.busy /\ \A d \in cardCalls : Changes(d) => d = c
           /\ ~rash => Calm(card, realm, cardCalls)
BY IdentityCardIs DEF IdentityIInv

\* A call that changes no mappers, of a card that only changes what it shows of
\* the call.
LEMMA CardCalls ==
    ASSUME Identity!ProvidersAssumption, IdentityIInv, UNCHANGED <<realm, rash>>,
           filled' = Identity!Nobody,
           NEW d \in IdentityCall, d.kind # "mappers", cardCalls' = cardCalls \cup {d},
           CardFits(card), NEW q, card' = q, CardFits(q), q.editor = card.editor,
           q.open = card.open, q.mappers = card.mappers, card.busy => q.busy,
           Changes(d) => q.busy /\ ~card.busy,
           ~rash => PresetIsTrue(d, realm)
    PROVE  IdentityIInv' /\ [KeepsSecrets]_realm
<1>1. \A c \in cardCalls' : Changes(c) => q.busy /\ \A e \in cardCalls' : Changes(e) => e = c
  BY IdentityFacts
<1>2. ~rash => Calm(q, realm, cardCalls')
  BY IdentityFacts DEF Calm, CardIsTrue, FetchIsOfEdited, Identity!EditingOld, Identity!Editing
<1>3. cardCalls' \subseteq IdentityCall /\ rash' \in BOOLEAN
  BY IdentityFacts
<1> QED BY <1>1, <1>2, <1>3, CardSteps

\* Whatever the administrator does on the card.
LEMMA OperatorSteps ==
    ASSUME Identity!ProvidersAssumption, IdentityIInv,
           \/ Identity!startNewIdp \/ Identity!Cancel \/ Identity!applyPreset
           \/ \E a \in Providers : \/ Identity!startEditIdp(a) \/ Identity!deleteIdp(a)
                                   \/ \E s \in Secrets \cup {Blank} : Identity!saveIdp(a, s)
           \/ \E x \in PresetAttributes : Identity!addMapper(x) \/ Identity!removeMapper(x)
    PROVE  IdentityIInv' /\ [KeepsSecrets]_realm
<1>0. /\ rash \in BOOLEAN /\ cardCalls \subseteq IdentityCall
      /\ card.open => CardFits(card)
      /\ \A c \in cardCalls : Changes(c) => card.busy /\ \A d \in cardCalls : Changes(d) => d = c
      /\ ~rash => Calm(card, realm, cardCalls)
  BY IdentityFacts
<1>n. {"list", "mappers"} \cap {"create", "update", "delete", "add", "remove", "preset"} = {}
  OBVIOUS
\* An editor that shows no stored provider.
<1>e. ASSUME NEW e \in {Identity!Nothing} \cup Identity!Editor, e = Identity!Nothing \/ e.new,
             CardFits(card), card' = Identity!EditorChanges(card, e),
             filled' = Identity!Nobody, UNCHANGED <<realm, cardCalls, rash>>
      PROVE  IdentityIInv' /\ [KeepsSecrets]_realm
  <2>1. PICK q : q = Identity!EditorChanges(card, e)
    OBVIOUS
  <2>2. /\ CardFits(q) /\ q.busy = card.busy /\ q.editor = e /\ q.open
        /\ q = card \/ q.mappers = Identity!Nothing
    BY <1>e, <2>1, EditorIs
  <2>3. ~Identity!EditingOld(q)
    BY <1>e, <2>2 DEF Identity!EditingOld, Identity!Editing
  <2>4. ~rash => Calm(q, realm, cardCalls)
    BY <1>0, <2>3 DEF Calm, CardIsTrue, FetchIsOfEdited
  <2>5. \A c \in cardCalls' : Changes(c) => q.busy /\ \A d \in cardCalls' : Changes(d) => d = c
    BY <1>0, <1>e, <2>2
  <2> QED BY <1>0, <1>e, <2>1, <2>2, <2>4, <2>5, CardSteps
<1>1. CASE Identity!startNewIdp
  <2>1. PICK e : e = [new |-> TRUE, alias |-> Identity!Nobody]
    OBVIOUS
  <2>2. e \in Identity!Editor /\ e.new
    BY <2>1 DEF Identity!Editor
  <2> QED BY <1>0, <1>1, <1>e, <2>1, <2>2 DEF Identity!startNewIdp
<1>2. CASE Identity!Cancel
  BY <1>0, <1>2, <1>e DEF Identity!Cancel, Identity!Editing
<1>3. ASSUME NEW a \in Providers, Identity!startEditIdp(a) PROVE IdentityIInv' /\ [KeepsSecrets]_realm
  <2>1. PICK e : e = [new |-> FALSE, alias |-> a]
    OBVIOUS
  <2>2. e \in Identity!Editor /\ ~e.new /\ e.alias = a
    BY <2>1 DEF Identity!Editor
  <2>3. /\ CardFits(card) /\ card.editor # e /\ card' = Identity!EditorChanges(card, e)
        /\ cardCalls' = cardCalls \cup {Identity!loadMappers(a, FALSE)}
        /\ rash' = (rash \/ Identity!Fetching) /\ filled' = Identity!Nobody /\ UNCHANGED realm
    BY <1>0, <1>3, <2>1 DEF Identity!startEditIdp
  <2>4. PICK q : q = Identity!EditorChanges(card, e)
    OBVIOUS
  <2>5. CardFits(q) /\ q.busy = card.busy /\ q.editor = e /\ q.open /\ (q = card \/ q.mappers = Identity!Nothing)
    BY <2>2, <2>3, <2>4, EditorIs
  <2>6. q.mappers = Identity!Nothing
    BY <2>3, <2>5
  <2>7. PICK d : d = Identity!loadMappers(a, FALSE)
    OBVIOUS
  <2>8. d \in MapperFetch /\ d.kind = "mappers" /\ d.alias = a /\ ~Changes(d)
    BY <2>7 DEF Identity!loadMappers, MapperFetch, Changes
  <2>9. cardCalls' \subseteq IdentityCall
    BY <1>0, <2>3, <2>7, <2>8 DEF IdentityCall
  <2>10. \A c \in cardCalls' : Changes(c) => q.busy /\ \A g \in cardCalls' : Changes(g) => g = c
    BY <1>0, <2>3, <2>5, <2>7, <2>8
  <2>11. ASSUME ~rash' PROVE Calm(q, realm, cardCalls')
    <3>1. ~rash /\ \A c \in cardCalls : c.kind # "mappers"
      BY <2>3, <2>11 DEF Identity!Fetching
    <3>2. CardIsTrue(q, realm)
      BY <2>6 DEF CardIsTrue
    <3>3. \A c \in cardCalls' : FetchIsOfEdited(c, q)
      BY <2>2, <2>3, <2>5, <2>7, <2>8, <3>1 DEF FetchIsOfEdited
    <3>4. \A c \in cardCalls' : PresetIsTrue(c, realm)
      BY <1>0, <2>3, <2>7, <2>8, <3>1 DEF PresetIsTrue, Calm
    <3> QED BY <3>2, <3>3, <3>4 DEF Calm
  <2>12. rash' \in BOOLEAN
    BY <2>3
  <2> QED BY <2>3, <2>4, <2>5, <2>9, <2>10, <2>11, <2>12, CardSteps
<1>4. ASSUME NEW a \in Providers, NEW s \in Secrets \cup {Blank}, Identity!saveIdp(a, s)
      PROVE  IdentityIInv' /\ [KeepsSecrets]_realm
  <2>1. CardFits(card) /\ UNCHANGED <<realm, rash>> /\ filled' = Identity!Nobody
    BY <1>0, <1>4 DEF Identity!saveIdp, Identity!Editing
  <2>2. PICK d : d = [kind |-> IF card.editor.new THEN "create" ELSE "update", alias |-> a, secret |-> s]
    OBVIOUS
  <2>3. d \in ProviderSave /\ d.kind \notin {"mappers", "add", "remove", "preset"}
    BY <2>2 DEF ProviderSave, MaybeSecret
  <2>4. d \in IdentityCall /\ ~Changes(d) /\ PresetIsTrue(d, realm) /\ d.kind # "mappers"
    BY <2>3 DEF IdentityCall, Changes, PresetIsTrue
  <2>5. PICK q : q = [card EXCEPT !.saving = TRUE]
    OBVIOUS
  <2>6. /\ CardFits(q) /\ q.editor = card.editor /\ q.open = card.open /\ q.mappers = card.mappers
        /\ q.busy = card.busy
    BY <2>1, <2>5 DEF CardFits, Identity!Card
  <2>7. cardCalls' = cardCalls \cup {d} /\ card' = q
    BY <1>4, <2>2, <2>5 DEF Identity!saveIdp, Identity!Call
  <2> QED BY <2>1, <2>4, <2>6, <2>7, CardCalls
<1>5. ASSUME NEW a \in Providers, Identity!deleteIdp(a) PROVE IdentityIInv' /\ [KeepsSecrets]_realm
  <2>1. CardFits(card) /\ UNCHANGED <<realm, rash, card>> /\ filled' = Identity!Nobody
    BY <1>0, <1>5 DEF Identity!deleteIdp
  <2>2. PICK d : d = [kind |-> "delete", alias |-> a,
                      closes |-> Identity!EditingOld(card) /\ card.editor.alias = a]
    OBVIOUS
  <2>3. (Identity!EditingOld(card) /\ card.editor.alias = a) \in BOOLEAN
    BY DEF Identity!EditingOld, Identity!Editing
  <2>4. d \in ProviderDelete /\ d.kind = "delete"
    BY <2>2, <2>3 DEF ProviderDelete
  <2>5. d \in IdentityCall /\ ~Changes(d) /\ PresetIsTrue(d, realm) /\ d.kind # "mappers"
    BY <2>4 DEF IdentityCall, Changes, PresetIsTrue
  <2>6. cardCalls' = cardCalls \cup {d}
    BY <1>5, <2>2 DEF Identity!deleteIdp, Identity!Call
  <2>7. PICK q : q = card
    OBVIOUS
  <2> QED BY <2>1, <2>5, <2>6, <2>7, CardCalls
\* The card waits for the end of the change.
<1>b. ASSUME Identity!EditingOld(card), ~card.busy, NEW d \in IdentityCall, d.kind # "mappers",
             ~rash => PresetIsTrue(d, realm),
             cardCalls' = cardCalls \cup {d}, card' = [card EXCEPT !.busy = TRUE],
             filled' = Identity!Nobody, UNCHANGED <<realm, rash>>
      PROVE  IdentityIInv' /\ [KeepsSecrets]_realm
  <2>1. CardFits(card)
    BY <1>0, <1>b DEF Identity!EditingOld, Identity!Editing
  <2>2. PICK q : q = [card EXCEPT !.busy = TRUE]
    OBVIOUS
  <2>3. /\ CardFits(q) /\ q.editor = card.editor /\ q.open = card.open /\ q.mappers = card.mappers
        /\ q.busy
    BY <2>1, <2>2 DEF CardFits, Identity!Card
  <2> QED BY <1>b, <2>1, <2>2, <2>3, CardCalls
<1>6. ASSUME NEW x \in PresetAttributes, Identity!addMapper(x) \/ Identity!removeMapper(x)
      PROVE  IdentityIInv' /\ [KeepsSecrets]_realm
  <2>1. card.editor.alias \in Providers
    BY <1>0, <1>6 DEF Identity!addMapper, Identity!removeMapper, Identity!EditingOld,
                      Identity!Editing, CardFits
  <2>2. PICK k \in {"add", "remove"} :
           cardCalls' = cardCalls \cup {[kind |-> k, alias |-> card.editor.alias, mapper |-> x]}
    BY <1>6 DEF Identity!addMapper, Identity!removeMapper, Identity!Call
  <2>3. PICK d : d = [kind |-> k, alias |-> card.editor.alias, mapper |-> x]
    OBVIOUS
  <2>4. d \in MapperChange /\ d.kind \in {"add", "remove"}
    BY <2>1, <2>3 DEF MapperChange
  <2>5. d \in IdentityCall /\ d.kind # "mappers" /\ PresetIsTrue(d, realm)
    BY <2>4 DEF IdentityCall, PresetIsTrue
  <2> QED BY <1>6, <1>b, <2>2, <2>3, <2>5 DEF Identity!addMapper, Identity!removeMapper
<1>7. CASE Identity!applyPreset
  <2>0. /\ Identity!EditingOld(card) /\ ~card.busy /\ CardFits(card)
        /\ card.editor.alias \in Providers /\ UNCHANGED <<realm, rash>>
    BY <1>0, <1>7 DEF Identity!applyPreset, Identity!EditingOld, Identity!Editing, CardFits
  <2>1. /\ Identity!Shown(card) \in MapperSet
        /\ ~rash => Identity!Shown(card) \subseteq MappersIn(realm, card.editor.alias)
    <3>1. CASE card.mappers = Identity!Nothing
      BY <3>1 DEF Identity!Shown, MapperSet
    <3>2. CASE card.mappers # Identity!Nothing
      <4>1. card.mappers.known \in MapperSet
        BY <2>0, <3>2 DEF CardFits, Identity!Card, MapperSet
      <4>2. Identity!Shown(card) = card.mappers.known
        BY <3>2 DEF Identity!Shown
      <4> QED BY <1>0, <2>0, <3>2, <4>1, <4>2 DEF Calm, CardIsTrue
    <3> QED BY <3>1, <3>2
  <2>2. CASE Identity!preset(card) = {}
    <3>1. filled' = card.editor.alias /\ UNCHANGED <<card, cardCalls>>
      BY <1>7, <2>2 DEF Identity!applyPreset
    <3>2. PresetAttributes \subseteq Identity!Shown(card)
      BY <2>2 DEF Identity!preset
    <3>3. Identity!PresetIsComplete'
      <4>1. ASSUME ~rash', filled' \in DOMAIN realm' PROVE PresetAttributes \subseteq realm'[filled'].mappers
        BY <2>0, <2>1, <3>1, <3>2, <4>1 DEF MappersIn
      <4> QED BY <4>1 DEF Identity!PresetIsComplete
    <3>4. IdentityIInv'
      BY <1>0, <2>0, <3>1, <3>3 DEF IdentityIInv, RealmFits, CardFits, Changes, Calm, CardIsTrue,
            PresetIsTrue, FetchIsOfEdited, Identity!EditingOld, Identity!Editing, MappersIn
    <3> QED BY <2>0, <3>4
  <2>3. CASE Identity!preset(card) # {}
    <3>1. PICK d : d = [kind |-> "preset", alias |-> card.editor.alias, rest |-> Identity!preset(card)]
      OBVIOUS
    <3>2. /\ cardCalls' = cardCalls \cup {d} /\ card' = [card EXCEPT !.busy = TRUE]
          /\ filled' = Identity!Nobody
      BY <1>7, <2>3, <3>1 DEF Identity!applyPreset, Identity!Call
    <3>3. d \in PresetCall /\ d.kind = "preset" /\ d.alias = card.editor.alias
            /\ d.rest = PresetAttributes \ Identity!Shown(card)
      BY <2>0, <3>1 DEF PresetCall, Identity!preset, MapperSet
    <3>4. ~rash => PresetIsTrue(d, realm)
      BY <2>1, <3>3 DEF PresetIsTrue
    <3>5. d \in IdentityCall /\ d.kind # "mappers"
      BY <3>3 DEF IdentityCall
    <3> QED BY <1>b, <2>0, <3>2, <3>4, <3>5
  <2> QED BY <2>2, <2>3
<1>8. CASE \E a \in Providers : \/ Identity!startEditIdp(a) \/ Identity!deleteIdp(a)
                                \/ \E s \in Secrets \cup {Blank} : Identity!saveIdp(a, s)
  BY <1>8, <1>3, <1>4, <1>5
<1> QED BY <1>1, <1>2, <1>6, <1>7, <1>8

-----------------------------------------------------------------------------
(* The answers.                                                               *)
\* The end of a change of mappers, which fetches them for the card.
LEMMA RefetchIs ==
    ASSUME Identity!ProvidersAssumption, IdentityIInv, NEW c \in cardCalls, Changes(c),
           c.kind # "list", Identity!Refetch(c), RealmFits(realm'), filled' \in Providers \cup {Identity!Nobody},
           Identity!PresetIsComplete'
    PROVE  IdentityIInv'
<1>0. /\ rash \in BOOLEAN /\ cardCalls \subseteq IdentityCall /\ CardFits(card)
      /\ \A d \in cardCalls : Changes(d) => card.busy /\ d = c
      /\ ~rash => Calm(card, realm, cardCalls)
      /\ c.alias \in Providers
  BY IdentityFacts, IdentityCallIs
<1>1. PICK d : d = Identity!loadMappers(c.alias, TRUE)
  OBVIOUS
<1>2. d \in MapperFetch /\ d.kind = "mappers" /\ d.alias = c.alias /\ Changes(d)
  BY <1>0, <1>1 DEF Identity!loadMappers, MapperFetch, Changes
<1>3. PICK q : q = [card EXCEPT !.mappers = Identity!Nothing]
  OBVIOUS
<1>4. /\ CardFits(q) /\ q.busy = card.busy /\ q.editor = card.editor /\ q.open = card.open
      /\ q.mappers = Identity!Nothing
  BY <1>0, <1>3 DEF CardFits, Identity!Card
<1>5. /\ card' = q /\ cardCalls' = (cardCalls \ {c}) \cup {d}
      /\ rash' = (rash \/ Identity!Fetching \/ Identity!Elsewhere(c.alias))
  BY <1>1, <1>3 DEF Identity!Refetch
<1>6. rash' \in BOOLEAN /\ cardCalls' \subseteq IdentityCall
  BY <1>0, <1>2, <1>5 DEF IdentityCall
<1>7. \A e \in cardCalls' : Changes(e) => card'.busy /\ \A g \in cardCalls' : Changes(g) => g = e
  BY <1>0, <1>4, <1>5
<1>8. ASSUME ~rash' PROVE Calm(q, realm', cardCalls')
  <2>1. /\ ~rash /\ \A e \in cardCalls : e.kind # "mappers"
        /\ Identity!EditingOld(card) /\ card.editor.alias = c.alias
    BY <1>5, <1>8 DEF Identity!Fetching, Identity!Elsewhere
  <2>2. CardIsTrue(q, realm')
    BY <1>4 DEF CardIsTrue
  <2>3. \A e \in cardCalls' : FetchIsOfEdited(e, q)
    BY <1>2, <1>4, <1>5, <2>1 DEF FetchIsOfEdited
  <2>4. \A e \in cardCalls' : e.kind # "preset"
    BY <1>0, <1>2, <1>5 DEF Changes
  <2> QED BY <2>2, <2>3, <2>4 DEF Calm, PresetIsTrue
<1>9. (~rash => Calm(card, realm, cardCalls))'
  BY <1>5, <1>8 DEF Calm
<1>10. (\A e \in cardCalls : Changes(e) => card.busy /\ \A g \in cardCalls : Changes(g) => g = e)'
  BY <1>7 DEF Changes
<1>11. RealmFits(realm)' /\ CardFits(card)'
  BY <1>4, <1>5 DEF RealmFits
<1> QED BY <1>6, <1>9, <1>10, <1>11 DEF IdentityIInv

\* The preset adds its mappers one by one, and reports when none is left.
LEMMA PresetSteps ==
    ASSUME Identity!ProvidersAssumption, IdentityIInv, NEW c \in cardCalls,
           NEW m \in PresetAttributes, Identity!PresetStep(c, m)
    PROVE  IdentityIInv' /\ [KeepsSecrets]_realm
<1>0. /\ rash \in BOOLEAN /\ cardCalls \subseteq IdentityCall /\ CardFits(card) /\ RealmFits(realm)
      /\ \A d \in cardCalls : Changes(d) => card.busy /\ \A e \in cardCalls : Changes(e) => e = d
      /\ ~rash => Calm(card, realm, cardCalls)
  BY IdentityFacts
<1>1. c \in PresetCall /\ c.alias \in Providers /\ c.kind = "preset" /\ Changes(c)
        /\ c.rest \in MapperSet /\ Identity!CreateIdpMapper(c.alias, m)
  BY <1>0, IdentityCallIs DEF Identity!PresetStep, Changes, PresetCall
<1>2. /\ RealmFits(realm') /\ KeepsSecrets /\ c.alias \in DOMAIN realm /\ DOMAIN realm' = DOMAIN realm
      /\ MappersIn(realm', c.alias) = MappersIn(realm, c.alias) \cup {m}
      /\ \A b : MappersIn(realm, b) \subseteq MappersIn(realm', b)
  BY <1>0, <1>1, AddedIs
<1>3. ~rash => PresetAttributes \ c.rest \subseteq MappersIn(realm, c.alias)
  BY <1>0, <1>1 DEF Calm, PresetIsTrue
<1>4. CASE c.rest = {m}
  <2>1. Identity!Refetch(c) /\ filled' = c.alias
    BY <1>4 DEF Identity!PresetStep
  <2>2. ASSUME ~rash', filled' \in DOMAIN realm' PROVE PresetAttributes \subseteq realm'[filled'].mappers
    <3>1. ~rash
      BY <2>1, <2>2, <1>0 DEF Identity!Refetch
    <3> QED BY <1>2, <1>3, <1>4, <2>1, <3>1 DEF MappersIn
  <2>3. Identity!PresetIsComplete'
    BY <2>2 DEF Identity!PresetIsComplete
  <2> QED BY <1>1, <1>2, <2>1, <2>3, RefetchIs
<1>5. CASE c.rest # {m}
  <2>1. PICK d : d = [c EXCEPT !.rest = c.rest \ {m}]
    OBVIOUS
  <2>2. d \in PresetCall /\ d.kind = "preset" /\ d.alias = c.alias /\ d.rest = c.rest \ {m} /\ Changes(d)
    BY <1>1, <2>1 DEF PresetCall, MapperSet, Changes
  <2>3. /\ cardCalls' = (cardCalls \ {c}) \cup {d} /\ filled' = Identity!Nobody
        /\ UNCHANGED <<card, rash>>
    BY <1>1, <1>5, <2>1 DEF Identity!PresetStep, PresetCall
  <2>4. \A e \in cardCalls' : Changes(e) => card.busy /\ \A g \in cardCalls' : Changes(g) => g = e
    BY <1>0, <1>1, <2>2, <2>3
  <2>5. ASSUME ~rash' PROVE Calm(card, realm', cardCalls')
    <3>1. ~rash /\ Calm(card, realm, cardCalls)
      BY <1>0, <2>3, <2>5
    <3>2. CardIsTrue(card, realm')
      BY <1>2, <3>1 DEF Calm, CardIsTrue
    <3>3. \A e \in cardCalls' : FetchIsOfEdited(e, card)
      BY <2>2, <2>3, <3>1 DEF Calm, FetchIsOfEdited
    <3>4. PresetIsTrue(d, realm')
      BY <1>2, <1>3, <2>2, <3>1 DEF PresetIsTrue
    <3>5. \A e \in cardCalls' : PresetIsTrue(e, realm')
      BY <1>2, <2>3, <3>1, <3>4 DEF Calm, PresetIsTrue
    <3> QED BY <3>2, <3>3, <3>5 DEF Calm
  <2>6. cardCalls' \subseteq IdentityCall
    BY <1>0, <2>2, <2>3 DEF IdentityCall
  <2>7. PICK q : q = card
    OBVIOUS
  <2>8. card' = q /\ CardFits(q) /\ rash' \in BOOLEAN
    BY <1>0, <2>3, <2>7
  <2> QED BY <1>2, <2>3, <2>4, <2>5, <2>6, <2>7, <2>8, RealmSteps
<1> QED BY <1>4, <1>5

\* A save or a deletion reaches the realm.
LEMMA StoredIs ==
    ASSUME Identity!ProvidersAssumption, IdentityIInv, NEW c \in cardCalls, Identity!Stored(c)
    PROVE  IdentityIInv' /\ [KeepsSecrets]_realm
<1>0. /\ rash \in BOOLEAN /\ cardCalls \subseteq IdentityCall /\ CardFits(card) /\ RealmFits(realm)
      /\ \A d \in cardCalls : Changes(d) => card.busy /\ \A e \in cardCalls : Changes(e) => e = d
      /\ ~rash => Calm(card, realm, cardCalls)
      /\ c \in IdentityCall
  BY IdentityFacts
<1>1. /\ c.kind \in {"create", "update", "delete"}
      /\ cardCalls' = (cardCalls \ {c}) \cup {Identity!List} /\ filled' = Identity!Nobody
      /\ rash' = (rash \/ (c.kind = "delete" /\ (cardCalls # {c} \/ card.editor # Identity!Nothing)))
      /\ \/ c.kind \in {"create", "update"} /\ card' = Identity!AfterSave(c, card)
         \/ c.kind = "delete" /\ card' = Identity!AfterDelete(c, card)
  BY DEF Identity!Stored, Identity!Answered
<1>2. RealmFits(realm') /\ KeepsSecrets
  BY <1>0, CreateIs, UpdateIdpIs, DeleteIs DEF Identity!Stored
<1>3. PICK p : p = Identity!EditorChanges(card, Identity!Nothing)
  OBVIOUS
<1>4. /\ CardFits(p) /\ p.busy = card.busy /\ p.editor = Identity!Nothing /\ p.open
  BY <1>0, <1>3, EditorIs
<1>5. PICK q : q = card'
  OBVIOUS
<1>6. /\ CardFits(q) /\ q.busy = card.busy
      /\ q.editor = Identity!Nothing \/ q = card
      /\ c.kind # "delete" => q.editor = Identity!Nothing
  <2>1. CASE card' = [p EXCEPT !.saving = FALSE]
    BY <1>4, <1>5, <2>1 DEF CardFits, Identity!Card
  <2>2. CASE c.kind = "delete" /\ card' \in {p, card}
    BY <1>0, <1>4, <1>5, <2>2
  <2> QED BY <1>1, <1>3, <2>1, <2>2 DEF Identity!AfterSave, Identity!AfterDelete
<1>7. cardCalls' \subseteq IdentityCall /\ rash' \in BOOLEAN
  BY <1>0, <1>1, IdentityCardIs DEF IdentityCall
<1>8. \A e \in cardCalls' : Changes(e) => q.busy /\ \A g \in cardCalls' : Changes(g) => g = e
  BY <1>0, <1>1, <1>6, IdentityCardIs
<1>9. ASSUME ~rash' PROVE Calm(q, realm', cardCalls')
  <2>1. ~rash /\ Calm(card, realm, cardCalls)
    BY <1>0, <1>1, <1>9
  <2>2. ~Identity!EditingOld(q)
    <3>1. c.kind = "delete" => card.editor = Identity!Nothing
      BY <1>1, <1>9
    <3> QED BY <1>1, <1>6, <3>1 DEF Identity!EditingOld, Identity!Editing
  <2>3. \A e \in cardCalls' : PresetIsTrue(e, realm')
    <3>1. CASE c.kind = "delete"
      <4>1. cardCalls' = {Identity!List}
        BY <1>1, <1>9, <3>1
      <4> QED BY <4>1, IdentityCardIs DEF PresetIsTrue
    <3>2. CASE c.kind # "delete"
      <4>1. \A a : MappersIn(realm', a) = MappersIn(realm, a)
        BY <1>0, <3>2, CreateIs, UpdateIdpIs DEF Identity!Stored, Identity!DeleteIdp
      <4>2. \A e \in cardCalls : PresetIsTrue(e, realm')
        BY <2>1, <4>1 DEF Calm, PresetIsTrue
      <4>3. PresetIsTrue(Identity!List, realm')
        BY IdentityCardIs DEF PresetIsTrue
      <4> QED BY <1>1, <4>2, <4>3
    <3> QED BY <3>1, <3>2
  <2> QED BY <2>2, <2>3 DEF Calm, CardIsTrue, FetchIsOfEdited
<1> QED BY <1>1, <1>2, <1>5, <1>6, <1>7, <1>8, <1>9, RealmSteps

\* A mapper that was added or removed by hand reaches the realm.
LEMMA MappersStoredIs ==
    ASSUME Identity!ProvidersAssumption, IdentityIInv, NEW c \in cardCalls, Identity!MappersStored(c)
    PROVE  IdentityIInv' /\ [KeepsSecrets]_realm
<1>0. cardCalls \subseteq IdentityCall /\ RealmFits(realm)
  BY IdentityFacts
<1>1. /\ c.kind \in {"add", "remove"} /\ Changes(c) /\ c.kind # "list" /\ Identity!Refetch(c)
      /\ filled' = Identity!Nobody
  BY DEF Identity!MappersStored, Changes
<1>2. c.mapper \in PresetAttributes
  BY <1>0, <1>1, IdentityCallIs DEF MapperChange
<1>3. RealmFits(realm') /\ KeepsSecrets
  BY <1>0, <1>2, AddedIs, RemovedIs DEF Identity!MappersStored
<1>4. Identity!PresetIsComplete'
  BY <1>1, <1>3 DEF Identity!PresetIsComplete, RealmFits, Identity!ProvidersAssumption, Identity!Nobody
<1> QED BY <1>1, <1>3, <1>4, RefetchIs

\* Calls that end leave a calm card calm.
LEMMA FewerCalls ==
    ASSUME NEW p, NEW q, NEW r, NEW cs, NEW ds, ds \subseteq cs, Calm(p, r, cs),
           q.editor = p.editor, q.open = p.open, q.mappers = p.mappers
    PROVE  Calm(q, r, ds)
BY DEF Calm, CardIsTrue, FetchIsOfEdited, Identity!EditingOld, Identity!Editing

\* A call fails.
LEMMA IdentityFails ==
    ASSUME Identity!ProvidersAssumption, IdentityIInv, NEW c \in cardCalls, Identity!Fails(c)
    PROVE  IdentityIInv' /\ [KeepsSecrets]_realm
<1>0. /\ rash \in BOOLEAN /\ cardCalls \subseteq IdentityCall /\ CardFits(card) /\ RealmFits(realm)
      /\ \A d \in cardCalls : Changes(d) => card.busy /\ \A e \in cardCalls : Changes(e) => e = d
      /\ ~rash => Calm(card, realm, cardCalls)
      /\ c \in IdentityCall
  BY IdentityFacts
<1>1. /\ cardCalls' = cardCalls \ {c} /\ filled' = Identity!Nobody
      /\ c.kind \in {"create", "update", "delete", "add", "remove", "preset"}
      /\ UNCHANGED <<realm, rash>> \/ (Identity!Change(c) /\ rash' = TRUE)
  BY <1>0, IdentityCallIs DEF Identity!Fails
<1>2. PICK q : q = card'
  OBVIOUS
<1>3. /\ CardFits(q) /\ q.editor = card.editor /\ q.open = card.open /\ q.mappers = card.mappers
      /\ q.busy = card.busy \/ Changes(c)
  <2>1. CASE c.kind \in {"create", "update"}
    <3>1. q = [card EXCEPT !.saving = FALSE]
      BY <1>2, <2>1 DEF Identity!Fails
    <3> QED BY <1>0, <3>1 DEF CardFits, Identity!Card
  <2>2. CASE c.kind \in {"add", "remove", "preset"}
    <3>1. q = [card EXCEPT !.busy = FALSE]
      BY <1>2, <2>2 DEF Identity!Fails
    <3> QED BY <1>0, <2>2, <3>1 DEF CardFits, Identity!Card, Changes
  <2>3. CASE c.kind = "delete"
    <3>1. q = card
      BY <1>2, <2>3 DEF Identity!Fails
    <3> QED BY <1>0, <3>1
  <2> QED BY <1>1, <2>1, <2>2, <2>3
<1>4. \A d \in cardCalls' : Changes(d) => q.busy /\ \A e \in cardCalls' : Changes(e) => e = d
  BY <1>0, <1>1, <1>3
<1>5. cardCalls' \subseteq IdentityCall /\ rash' \in BOOLEAN
  BY <1>0, <1>1
<1>6. RealmFits(realm') /\ [KeepsSecrets]_realm
  BY <1>0, <1>1, ChangeIs
<1>7. ~rash' => Calm(q, realm', cardCalls')
  <2>1. ASSUME ~rash' PROVE Calm(q, realm', cardCalls')
    <3>1. realm' = realm /\ Calm(card, realm, cardCalls)
      BY <1>0, <1>1, <2>1
    <3>2. cardCalls' \subseteq cardCalls
      BY <1>1
    <3>3. Calm(q, realm, cardCalls')
      BY <1>3, <3>1, <3>2, FewerCalls
    <3> QED BY <3>1, <3>3 DEF Calm, CardIsTrue, PresetIsTrue, MappersIn
  <2> QED BY <2>1
<1> QED BY <1>1, <1>2, <1>3, <1>4, <1>5, <1>6, <1>7, RealmSteps

\* A list or the mappers arrive, or fail to.
LEMMA IdentityArrives ==
    ASSUME Identity!ProvidersAssumption, IdentityIInv, NEW c \in cardCalls,
           Identity!Arrive(c) \/ Identity!LoadFails(c)
    PROVE  IdentityIInv' /\ [KeepsSecrets]_realm
<1>0. /\ rash \in BOOLEAN /\ cardCalls \subseteq IdentityCall /\ CardFits(card) /\ RealmFits(realm)
      /\ \A d \in cardCalls : Changes(d) => card.busy /\ \A e \in cardCalls : Changes(e) => e = d
      /\ ~rash => Calm(card, realm, cardCalls)
      /\ c \in IdentityCall
  BY IdentityFacts
<1>1. /\ cardCalls' = cardCalls \ {c} /\ filled' = Identity!Nobody /\ UNCHANGED <<realm, rash>>
      /\ c.kind \in {"list", "mappers"}
  BY DEF Identity!Arrive, Identity!LoadFails
<1>2. cardCalls' \subseteq IdentityCall /\ rash' \in BOOLEAN
  BY <1>0, <1>1
<1>3. CASE c.kind = "list"
  <2>1. PICK i \in SUBSET Providers : card' = [card EXCEPT !.idps = i]
    BY <1>0, <1>3 DEF Identity!Arrive, Identity!LoadFails, RealmFits
  <2>2. PICK q : q = [card EXCEPT !.idps = i]
    OBVIOUS
  <2>3. /\ CardFits(q) /\ q.editor = card.editor /\ q.open = card.open /\ q.mappers = card.mappers
        /\ q.busy = card.busy
    BY <1>0, <2>2 DEF CardFits, Identity!Card
  <2>4. \A d \in cardCalls' : Changes(d) => q.busy /\ \A e \in cardCalls' : Changes(e) => e = d
    BY <1>0, <1>1, <2>3
  <2>5. ~rash' => Calm(q, realm, cardCalls')
    BY <1>0, <1>1, <2>3, FewerCalls
  <2> QED BY <1>1, <1>2, <2>1, <2>2, <2>3, <2>4, <2>5, CardSteps
<1>4. CASE c.kind = "mappers"
  <2>0. c \in MapperFetch /\ c.ends \in BOOLEAN /\ c.alias \in Providers
    BY <1>0, <1>4, IdentityCallIs DEF MapperFetch
  <2>1. PICK k \in MapperSet :
           /\ card' = [card EXCEPT !.mappers = [known |-> k], !.busy = card.busy /\ ~c.ends]
           /\ k \subseteq MappersIn(realm, c.alias)
    <3>1. Identity!MappersOf(c.alias) = MappersIn(realm, c.alias)
            /\ Identity!MappersOf(c.alias) \in MapperSet
      BY <1>0, RealmIs DEF Identity!MappersOf, MappersIn
    <3>2. card.busy = card.busy /\ {} \in MapperSet
      BY DEF MapperSet
    <3> QED BY <1>0, <1>4, <3>1, <3>2 DEF Identity!Arrive, Identity!LoadFails, CardFits, Identity!Card
  <2>2. PICK b \in BOOLEAN : b = (card.busy /\ ~c.ends)
    OBVIOUS
  <2>3. PICK n : n = [known |-> k]
    OBVIOUS
  <2>4. n \in [known : MapperSet] /\ n.known = k /\ n # Identity!Nothing
    BY <2>3, IdentityCardIs
  <2>5. PICK q : q = [card EXCEPT !.mappers = n, !.busy = b]
    OBVIOUS
  <2>6. /\ CardFits(q) /\ q.editor = card.editor /\ q.open = card.open /\ q.mappers = n
        /\ q.busy = b
    BY <1>0, <2>4, <2>5 DEF CardFits, Identity!Card, MapperSet
  <2>7. card' = q
    BY <2>1, <2>2, <2>3, <2>5
  <2>8. \A d \in cardCalls' : Changes(d) => q.busy /\ \A e \in cardCalls' : Changes(e) => e = d
    <3>1. c.ends => Changes(c)
      BY <1>4 DEF Changes
    <3>2. ~c.ends => b = card.busy
      BY <1>0, <2>0, <2>2 DEF CardFits, Identity!Card
    <3> QED BY <1>0, <1>1, <2>6, <3>1, <3>2
  <2>9. ASSUME ~rash PROVE Calm(q, realm, cardCalls')
    <3>1. Calm(card, realm, cardCalls) /\ FetchIsOfEdited(c, card)
      BY <1>0, <2>9 DEF Calm
    <3>2. Identity!EditingOld(q) <=> Identity!EditingOld(card)
      BY <2>6 DEF Identity!EditingOld, Identity!Editing
    <3>3. CardIsTrue(q, realm)
      BY <1>4, <2>1, <2>4, <2>6, <3>1, <3>2 DEF CardIsTrue, FetchIsOfEdited
    <3> QED BY <1>1, <2>6, <3>1, <3>2, <3>3 DEF Calm, FetchIsOfEdited
  <2> QED BY <1>1, <1>2, <2>6, <2>7, <2>8, <2>9, CardSteps
<1> QED BY <1>1, <1>3, <1>4

\* Every step keeps it, and every secret of a provider that stays.
LEMMA IdentityIInvStep ==
    ASSUME Identity!ProvidersAssumption, IdentityIInv,
           [Identity!Enter \/ Identity!Work]_(Identity!vars)
    PROVE  IdentityIInv' /\ [KeepsSecrets]_realm
<1>1. CASE UNCHANGED Identity!vars
  BY <1>1 DEF Identity!vars, IdentityIInv, RealmFits, CardFits, Changes, Calm, CardIsTrue,
        PresetIsTrue, FetchIsOfEdited, Identity!EditingOld, Identity!Editing, MappersIn,
        Identity!PresetIsComplete
<1>2. CASE Identity!Enter
  <2>1. PICK q : q = [open |-> TRUE, idps |-> {}, editor |-> Identity!Nothing, saving |-> FALSE,
                      mappers |-> Identity!Nothing, busy |-> FALSE]
    OBVIOUS
  <2>2. CardFits(q) /\ q.mappers = Identity!Nothing
    BY <2>1 DEF CardFits, Identity!Card
  <2>3. /\ card' = q /\ cardCalls' = {Identity!List} /\ filled' = Identity!Nobody
        /\ UNCHANGED <<realm, rash>>
    BY <1>2, <2>1 DEF Identity!Enter
  <2>4. Calm(q, realm, cardCalls')
    BY <2>2, <2>3, IdentityCardIs DEF Calm, CardIsTrue, PresetIsTrue, FetchIsOfEdited
  <2>5. cardCalls' \subseteq IdentityCall /\ \A d \in cardCalls' : ~Changes(d)
    BY <2>3, IdentityCardIs DEF IdentityCall
  <2>6. rash' \in BOOLEAN
    BY <2>3, IdentityFacts
  <2> QED BY <2>2, <2>3, <2>4, <2>5, <2>6, CardSteps
<1>3. CASE Identity!Leave
  <2>1. /\ card' = Identity!Closed /\ cardCalls' = {} /\ filled' = Identity!Nobody /\ UNCHANGED rash
        /\ UNCHANGED realm \/ \E c \in cardCalls : Identity!Change(c)
    BY <1>3 DEF Identity!Leave
  <2>2. RealmFits(realm') /\ [KeepsSecrets]_realm
    BY <2>1, IdentityFacts, ChangeIs
  <2>3. Identity!PresetIsComplete'
    BY <2>1, <2>2 DEF Identity!PresetIsComplete, RealmFits, Identity!ProvidersAssumption, Identity!Nobody
  <2>4. Calm(card, realm, cardCalls)'
    BY <2>1, IdentityCardIs DEF Calm, CardIsTrue, Identity!EditingOld, Identity!Editing
  <2>5. RealmFits(realm)' /\ rash' \in BOOLEAN
    BY <2>1, <2>2, IdentityFacts DEF RealmFits
  <2> QED BY <2>1, <2>2, <2>3, <2>4, <2>5 DEF IdentityIInv
<1>4. CASE \E c \in cardCalls :
             \/ Identity!Stored(c) \/ Identity!MappersStored(c) \/ Identity!Fails(c)
             \/ Identity!Arrive(c) \/ Identity!LoadFails(c)
             \/ \E a \in PresetAttributes : Identity!PresetStep(c, a)
  BY <1>4, StoredIs, MappersStoredIs, IdentityFails, IdentityArrives, PresetSteps
<1> QED BY <1>1, <1>2, <1>3, <1>4, OperatorSteps DEF Identity!Work

\* So a preset that is reported as done is complete.
LEMMA IdentityIInvHolds == IdentityIInv => Identity!TypeOK /\ Identity!PresetIsComplete
<1> SUFFICES ASSUME IdentityIInv PROVE Identity!TypeOK /\ Identity!PresetIsComplete
  OBVIOUS
<1>1. \A a \in DOMAIN realm :
         realm[a] \in [secret : Secrets \cup {Blank}, mappers : SUBSET PresetAttributes]
  BY DEF IdentityIInv, RealmFits, MaybeSecret, MapperSet
<1> QED BY <1>1 DEF IdentityIInv, RealmFits, CardFits, Identity!TypeOK

-----------------------------------------------------------------------------
(* MailSettings: the mask is written back by nobody but the merge of an       *)
(* update, so the stored password is a real one.                              *)
MailWrite == [kind : {"save", "test"},
              body : [host : Mailer!Texts, auth : BOOLEAN, password : Passwords \cup {Blank}]]
             \cup [kind : {"saveIssuer"}, value : Mailer!Texts]
MailRead == [kind : {"smtp"}, answer : {Mailer!Nothing} \cup [host : Mailer!Texts, auth : BOOLEAN]]
            \cup [kind : {"issuer"}, answer : {Mailer!Nothing} \cup [value : Mailer!Texts]]

MailIInv ==
    /\ Mailer!TypeOK /\ Mailer!TestsTryAPassword
    /\ mail = Mailer!Closed => mailCalls = {}
    /\ mailCalls \subseteq MailWrite \cup MailRead

\* A mail server that logs in keeps a password.
KeepsPassword == smtp.password # Blank => smtp'.password # Blank

-----------------------------------------------------------------------------
\* A mounted card is not the closed one, and a read is no write.
LEMMA MailCardIs ==
    /\ Mailer!Closed \notin Mailer!Card
    /\ \A c \in MailWrite : c.kind \notin {"smtp", "issuer"} /\ c \notin MailRead
    /\ \A c \in MailRead : c.kind \in {"smtp", "issuer"} /\ c \notin MailWrite
BY DEF Mailer!Closed, Mailer!Card, MailWrite, MailRead

\* At first the card is closed, and the realm has its mail server.
LEMMA MailInitIInv == Mailer!MailAssumption /\ Mailer!Init => MailIInv
BY DEF Mailer!MailAssumption, Mailer!Init, MailIInv, Mailer!TypeOK, Mailer!TestsTryAPassword,
       Mailer!Server, Mailer!Texts

\* A step that leaves the stored settings alone and sends no test.
LEMMA MailCardStep ==
    ASSUME Mailer!MailAssumption, MailIInv, UNCHANGED <<smtp, issuer>>, Mailer!Quiet,
           NEW q \in Mailer!Card, mail' = q, mailCalls' \subseteq MailWrite \cup MailRead
    PROVE  MailIInv'
BY MailCardIs DEF MailIInv, Mailer!TypeOK, Mailer!TestsTryAPassword, Mailer!Quiet,
                  Mailer!MailAssumption

\* The merge reads a mask for a stored password, and the realm keeps it for a mask.
LEMMA UpdateIs ==
    ASSUME Mailer!MailAssumption, MailIInv, NEW c \in mailCalls, Mailer!UpdateSmtp(c)
    PROVE  smtp' \in Mailer!Server /\ issuer' \in Mailer!Texts /\ KeepsPassword
<1>1. /\ c.kind = "save" /\ c \in MailWrite /\ issuer' = issuer
      /\ smtp \in Mailer!Server /\ issuer \in Mailer!Texts
  BY DEF Mailer!UpdateSmtp, MailIInv, Mailer!TypeOK, MailRead
<1>2. c.body \in [host : Mailer!Texts, auth : BOOLEAN, password : Passwords \cup {Blank}]
  BY <1>1 DEF MailWrite
<1>3. PICK b : b = c.body
  OBVIOUS
<1>4. PICK f : f = Mailer!fetched
  OBVIOUS
<1>5. f.password = IF smtp.password = Blank THEN Blank ELSE Mask
  BY <1>1, <1>4 DEF Mailer!fetched, Mailer!Server
<1>6. PICK m : m = Mailer!mergeSmtp(f, b)
  OBVIOUS
<1>7. /\ m = [b EXCEPT !.password = IF b.password = Blank THEN f.password ELSE b.password]
      /\ m.host = b.host /\ m.auth = b.auth
      /\ m.password = IF b.password = Blank THEN f.password ELSE b.password
  BY <1>2, <1>3, <1>6 DEF Mailer!mergeSmtp
<1>8. smtp' = [m EXCEPT !.password = IF m.password = Mask THEN smtp.password ELSE m.password]
  BY <1>3, <1>4, <1>6, <1>7 DEF Mailer!UpdateSmtp, Mailer!Stored
<1>9. Mask \notin Passwords /\ Mask # Blank
  BY DEF Mailer!MailAssumption
<1>10. smtp'.password = IF m.password = Mask THEN smtp.password ELSE m.password
  BY <1>2, <1>3, <1>7, <1>8
<1>11. smtp' = [host |-> b.host, auth |-> b.auth, password |-> smtp'.password]
  BY <1>2, <1>3, <1>7, <1>8
<1>12. smtp'.password \in Passwords \cup {Blank} /\ KeepsPassword
  BY <1>1, <1>2, <1>3, <1>5, <1>7, <1>9, <1>10 DEF KeepsPassword, Mailer!Server
<1> QED BY <1>1, <1>2, <1>3, <1>11, <1>12 DEF Mailer!Server

\* SaveIssuer writes the mail settings back as it read them, and so their password.
LEMMA SaveIssuerIs ==
    ASSUME MailIInv, NEW c \in mailCalls, Mailer!SaveIssuer(c)
    PROVE  smtp' \in Mailer!Server /\ issuer' \in Mailer!Texts /\ KeepsPassword
BY DEF Mailer!SaveIssuer, MailIInv, MailWrite, MailRead, Mailer!TypeOK, KeepsPassword

\* The card after a call that has ended.
LEMMA EndedIs ==
    ASSUME MailIInv, mail # Mailer!Closed, NEW c
    PROVE  Mailer!Ended(c, mail) \in Mailer!Card
BY DEF Mailer!Ended, MailIInv, Mailer!TypeOK, Mailer!Card

\* Every step keeps it, and a stored password with it.
LEMMA MailIInvStep ==
    ASSUME Mailer!MailAssumption, MailIInv, [Mailer!Enter \/ Mailer!Work]_(Mailer!vars)
    PROVE  MailIInv' /\ [KeepsPassword]_smtp
<1>0. /\ smtp \in Mailer!Server /\ issuer \in Mailer!Texts
      /\ mail # Mailer!Closed => mail \in Mailer!Card
      /\ mailCalls # {} => mail # Mailer!Closed
      /\ mailCalls \subseteq MailWrite \cup MailRead
      /\ Mask # Blank
  BY DEF MailIInv, Mailer!TypeOK, Mailer!MailAssumption
<1>1. CASE UNCHANGED Mailer!vars
  BY <1>1 DEF Mailer!vars, MailIInv, Mailer!TypeOK, Mailer!TestsTryAPassword
<1>2. CASE Mailer!Enter
  <2>1. PICK q : q = [open |-> TRUE, loading |-> TRUE, host |-> Blank, auth |-> FALSE,
                      password |-> Blank, busy |-> FALSE, issuer |-> Blank, issuerBusy |-> FALSE]
    OBVIOUS
  <2>2. q \in Mailer!Card
    BY <2>1 DEF Mailer!Card, Mailer!Texts
  <2>3. {[kind |-> "smtp", answer |-> Mailer!Nothing], [kind |-> "issuer", answer |-> Mailer!Nothing]}
          \subseteq MailWrite \cup MailRead
    BY DEF MailRead
  <2> QED BY <1>2, <2>1, <2>2, <2>3, MailCardStep DEF Mailer!Enter
<1>3. CASE Mailer!Edit
  <2>1. PICK q : q = mail'
    OBVIOUS
  <2>2. q \in Mailer!Card
    BY <1>0, <1>3, <2>1 DEF Mailer!Edit, Mailer!Card
  <2> QED BY <1>0, <1>3, <2>1, <2>2, MailCardStep DEF Mailer!Edit
<1>4. ASSUME NEW v \in Mailer!Texts, Mailer!EditIssuer(v) PROVE MailIInv' /\ [KeepsPassword]_smtp
  <2>1. PICK q : q = [mail EXCEPT !.issuer = v]
    OBVIOUS
  <2>2. q \in Mailer!Card
    BY <1>0, <1>4, <2>1 DEF Mailer!EditIssuer, Mailer!Card
  <2> QED BY <1>0, <1>4, <2>1, <2>2, MailCardStep DEF Mailer!EditIssuer
<1>5. ASSUME NEW kind \in {"save", "test"}, Mailer!Send(kind) PROVE MailIInv' /\ [KeepsPassword]_smtp
  <2>1. PICK q : q = [mail EXCEPT !.busy = TRUE]
    OBVIOUS
  <2>2. q \in Mailer!Card
    BY <1>0, <1>5, <2>1 DEF Mailer!Send, Mailer!Card
  <2>3. Mailer!smtpPayload(mail) \in
          [host : Mailer!Texts, auth : BOOLEAN, password : Passwords \cup {Blank}]
    BY <1>0, <1>5 DEF Mailer!Send, Mailer!Card, Mailer!smtpPayload
  <2>4. PICK d : d = [kind |-> kind, body |-> Mailer!smtpPayload(mail)]
    OBVIOUS
  <2>5. d \in MailWrite
    BY <2>3, <2>4 DEF MailWrite
  <2> QED BY <1>0, <1>5, <2>1, <2>2, <2>4, <2>5, MailCardStep DEF Mailer!Send
<1>6. CASE Mailer!saveVcIssuer
  <2>1. PICK q : q = [mail EXCEPT !.issuerBusy = TRUE]
    OBVIOUS
  <2>2. q \in Mailer!Card
    BY <1>0, <1>6, <2>1 DEF Mailer!saveVcIssuer, Mailer!Card
  <2>4. PICK d : d = [kind |-> "saveIssuer", value |-> mail.issuer]
    OBVIOUS
  <2>5. d \in MailWrite
    BY <1>0, <1>6, <2>4 DEF MailWrite, Mailer!saveVcIssuer, Mailer!Card
  <2> QED BY <1>0, <1>6, <2>1, <2>2, <2>4, <2>5, MailCardStep DEF Mailer!saveVcIssuer
<1>7. ASSUME NEW c \in mailCalls, Mailer!Done(c) PROVE MailIInv' /\ [KeepsPassword]_smtp
  <2>1. mail' \in Mailer!Card /\ mailCalls' \subseteq MailWrite \cup MailRead
    BY <1>0, <1>7, EndedIs DEF Mailer!Done
  <2>2. smtp' \in Mailer!Server /\ issuer' \in Mailer!Texts /\ KeepsPassword
    BY <1>0, <1>7, UpdateIs, SaveIssuerIs DEF Mailer!Done, KeepsPassword
  <2>3. tested' \in Passwords \cup {Blank}
    <3>1. CASE Mailer!Quiet
      BY <3>1 DEF Mailer!Quiet
    <3>2. CASE Mailer!TestSmtp(c)
      <4>1. PICK s : s = Mailer!mergeSmtp(Mailer!fetched, c.body)
        OBVIOUS
      <4>2. /\ Mailer!Usable(s) /\ c.kind = "test" /\ c \in MailWrite
            /\ tested' = IF s.auth THEN s.password ELSE Blank
        BY <1>0, <3>2, <4>1, MailCardIs DEF Mailer!TestSmtp
      <4>3. c.body \in [host : Mailer!Texts, auth : BOOLEAN, password : Passwords \cup {Blank}]
        BY <4>2 DEF MailWrite
      <4>4. Mailer!fetched.password \in {Blank, Mask}
        BY <1>0 DEF Mailer!fetched, Mailer!Server
      <4>5. s.password \in Passwords \cup {Blank, Mask} /\ s.auth \in BOOLEAN
        BY <4>1, <4>3, <4>4 DEF Mailer!mergeSmtp
      <4> QED BY <4>2, <4>5 DEF Mailer!Usable
    <3> QED BY <1>7, <3>1, <3>2 DEF Mailer!Done
  <2>4. mail' # Mailer!Closed /\ tested' # Mask
    BY <2>1, <2>3, MailCardIs DEF Mailer!MailAssumption
  <2> QED BY <2>1, <2>2, <2>3, <2>4 DEF MailIInv, Mailer!TypeOK, Mailer!TestsTryAPassword
<1>8. ASSUME NEW c \in mailCalls, Mailer!Fails(c) PROVE MailIInv' /\ [KeepsPassword]_smtp
  <2>1. mail' \in Mailer!Card /\ mailCalls' \subseteq MailWrite \cup MailRead /\ mail' # Mailer!Closed
    BY <1>0, <1>8, EndedIs, MailCardIs DEF Mailer!Fails
  <2>2. smtp' \in Mailer!Server /\ issuer' \in Mailer!Texts /\ KeepsPassword
    BY <1>0, <1>8, UpdateIs, SaveIssuerIs DEF Mailer!Fails, KeepsPassword
  <2> QED BY <1>0, <1>8, <2>1, <2>2 DEF Mailer!Fails, Mailer!Quiet, MailIInv, Mailer!TypeOK,
             Mailer!TestsTryAPassword
<1>9. ASSUME NEW c \in mailCalls, Mailer!Serve(c) PROVE MailIInv' /\ [KeepsPassword]_smtp
  <2>1. PICK q : q = mail
    OBVIOUS
  <2>2. c \in MailRead /\ q \in Mailer!Card
    BY <1>0, <1>9, <2>1, MailCardIs DEF Mailer!Serve
  <2>3. /\ [host |-> smtp.host, auth |-> smtp.auth] \in [host : Mailer!Texts, auth : BOOLEAN]
        /\ [value |-> issuer] \in [value : Mailer!Texts]
    BY <1>0 DEF Mailer!Server
  <2>4. PICK a : a = IF c.kind = "smtp" THEN [host |-> smtp.host, auth |-> smtp.auth]
                     ELSE [value |-> issuer]
    OBVIOUS
  <2>5. PICK d : d = [c EXCEPT !.answer = a]
    OBVIOUS
  <2>6. d \in MailRead
    BY <2>2, <2>3, <2>4, <2>5 DEF MailRead
  <2>7. mailCalls' = (mailCalls \ {c}) \cup {d}
    BY <1>9, <2>4, <2>5 DEF Mailer!Serve
  <2> QED BY <1>0, <1>9, <2>1, <2>2, <2>6, <2>7, MailCardStep DEF Mailer!Serve
<1>10. ASSUME NEW c \in mailCalls, Mailer!Arrive(c) PROVE MailIInv' /\ [KeepsPassword]_smtp
  <2>1. c \in MailRead /\ mail \in Mailer!Card /\ c.answer # Mailer!Nothing
    BY <1>0, <1>10, MailCardIs DEF Mailer!Arrive
  <2>2. PICK q : q = mail'
    OBVIOUS
  <2>3. q \in Mailer!Card
    <3>1. CASE c.kind = "issuer"
      <4>1. c.answer.value \in Mailer!Texts
        BY <2>1, <3>1 DEF MailRead
      <4> QED BY <1>10, <2>1, <2>2, <3>1, <4>1 DEF Mailer!Arrive, Mailer!Card
    <3>2. CASE c.kind = "smtp"
      <4>1. c.answer.host \in Mailer!Texts /\ c.answer.auth \in BOOLEAN
        BY <2>1, <3>2 DEF MailRead
      <4> QED BY <1>10, <2>1, <2>2, <3>2, <4>1 DEF Mailer!Arrive, Mailer!Card
    <3> QED BY <1>10, <3>1, <3>2 DEF Mailer!Arrive
  <2> QED BY <1>0, <1>10, <2>2, <2>3, MailCardStep DEF Mailer!Arrive
<1>11. ASSUME NEW c \in mailCalls, Mailer!LoadFails(c) PROVE MailIInv' /\ [KeepsPassword]_smtp
  <2>1. PICK q : q = mail'
    OBVIOUS
  <2>2. q \in Mailer!Card
    BY <1>0, <1>11, <2>1 DEF Mailer!LoadFails, Mailer!Card
  <2> QED BY <1>0, <1>11, <2>1, <2>2, MailCardStep DEF Mailer!LoadFails
<1>12. CASE Mailer!Leave
  <2>1. smtp' \in Mailer!Server /\ issuer' \in Mailer!Texts /\ KeepsPassword
    BY <1>0, <1>12, UpdateIs, SaveIssuerIs DEF Mailer!Leave, KeepsPassword
  <2> QED BY <1>0, <1>12, <2>1 DEF Mailer!Leave, Mailer!Quiet, MailIInv, Mailer!TypeOK,
             Mailer!TestsTryAPassword
<1>13. CASE \E c \in mailCalls : \/ Mailer!Done(c) \/ Mailer!Fails(c) \/ Mailer!Serve(c)
                                 \/ Mailer!Arrive(c) \/ Mailer!LoadFails(c)
  BY <1>13, <1>7, <1>8, <1>9, <1>10, <1>11
<1> QED BY <1>1, <1>2, <1>3, <1>4, <1>5, <1>6, <1>12, <1>13 DEF Mailer!Work

-----------------------------------------------------------------------------
(* FlowEditor: what a save did is what the rows said.                         *)
FlowIInv ==
    /\ \/ draft = Flows!Closed
       \/ draft \in Flows!Editor /\ Len(draft.flows) <= MaxFlows
    /\ published \subseteq Flows!View /\ configured \subseteq Agreements
    /\ Flows!SaveDoesWhatTheRowsSay

-----------------------------------------------------------------------------
\* A mounted editor is not the closed one.
LEMMA FlowPageIs == Flows!Closed \notin Flows!Editor
BY DEF Flows!Closed, Flows!Editor

\* The editor counts its rows as the library does.
LEMMA FlowCount == \A S : Flows!Cardinality(S) = Cardinality(S)
BY DEF Flows!Cardinality, Cardinality

\* At first the editor is closed and nothing is published.
LEMMA FlowInitIInv == Flows!Init => FlowIInv
BY DEF Flows!Init, FlowIInv, Flows!SaveDoesWhatTheRowsSay

\* A row that is opened has a number.
LEMMA ExpandedIs ==
    ASSUME Flows!FlowAssumption
    PROVE  /\ 0 \in 0..MaxFlows /\ 1 \in 0..MaxFlows /\ MaxFlows \in Nat /\ 1 <= MaxFlows
           /\ \A i \in 1..MaxFlows : i \in 0..MaxFlows
BY DEF Flows!FlowAssumption

\* An edit of the rows, which visitors do not see.
LEMMA FlowEdits ==
    ASSUME FlowIInv, draft' \in Flows!Editor, Len(draft'.flows) <= MaxFlows, Flows!Unread
    PROVE  FlowIInv'
BY DEF FlowIInv, Flows!Unread, Flows!Quiet, Flows!SaveDoesWhatTheRowsSay

\* An edit of one row.
LEMMA FlowRowEdits ==
    ASSUME FlowIInv, draft # Flows!Closed, NEW i \in DOMAIN draft.flows, NEW f \in Flows!Flow,
           draft' = [draft EXCEPT !.flows[i] = f], Flows!Unread
    PROVE  FlowIInv'
<1>1. draft \in Flows!Editor /\ Len(draft.flows) <= MaxFlows
  BY DEF FlowIInv
<1>2. PICK s : s = [draft.flows EXCEPT ![i] = f]
  OBVIOUS
<1>3. draft.flows \in Seq(Flows!Flow)
  BY <1>1 DEF Flows!Editor
<1>4. s \in Seq(Flows!Flow) /\ Len(s) = Len(draft.flows)
  BY <1>2, <1>3
<1>5. PICK q : q = [draft EXCEPT !.flows = s]
  OBVIOUS
<1>6. q \in Flows!Editor /\ q.flows = s
  BY <1>1, <1>4, <1>5 DEF Flows!Editor
<1>7. draft' = q
  BY <1>1, <1>2, <1>5 DEF Flows!Editor
<1> QED BY <1>1, <1>4, <1>6, <1>7, FlowEdits

-----------------------------------------------------------------------------
\* The rows of an editor, by number.
LEMMA RowIs ==
    ASSUME NEW d \in Flows!Editor
    PROVE  /\ d.flows \in Seq(Flows!Flow) /\ DOMAIN d.flows = 1..Len(d.flows)
           /\ \A i \in DOMAIN d.flows : d.flows[i] \in Flows!Flow
BY DEF Flows!Editor

\* The portal refuses exactly what the rows call an error, or a relative address.
LEMMA RefusedIsShown ==
    ASSUME NEW d \in Flows!Editor
    PROVE  Flows!validateFlows(d.flows) <=>
             /\ ~\E i \in DOMAIN d.flows : Flows!flowRouteError(d.flows, i)
             /\ ~\E i \in DOMAIN d.flows : d.flows[i].registry = "relative"
<1> DEFINE N == DOMAIN d.flows
<1>1. \A i, j \in N : i \in Int /\ j \in Int /\ (i # j => i < j \/ j < i)
  BY RowIs
<1>2. (\A i, j \in N : i < j => d.flows[i].route # d.flows[j].route)
        <=> \A i \in N : ~\E j \in N \ {i} : d.flows[j].route = d.flows[i].route
  <2>1. ASSUME \A i, j \in N : i < j => d.flows[i].route # d.flows[j].route,
               NEW i \in N, NEW j \in N \ {i}
        PROVE  d.flows[j].route # d.flows[i].route
    BY <1>1, <2>1
  <2>2. ASSUME \A i \in N : ~\E j \in N \ {i} : d.flows[j].route = d.flows[i].route,
               NEW i \in N, NEW j \in N, i < j
        PROVE  d.flows[i].route # d.flows[j].route
    <3>1. i # j
      BY <1>1, <2>2
    <3> QED BY <2>2, <3>1
  <2> QED BY <2>1, <2>2
<1> HIDE DEF N
<1> QED BY <1>2 DEF Flows!validateFlows, Flows!flowRouteError, N

\* The flows visitors see, counted by their routes.
LEMMA RoutesCount ==
    ASSUME NEW d \in Flows!Editor, Flows!validateFlows(d.flows),
           NEW on \in SUBSET DOMAIN d.flows
    PROVE  Cardinality({Flows!ViewOf(d.flows[i]) : i \in on}) = Cardinality({d.flows[i].route : i \in on})
<1> DEFINE V == {Flows!ViewOf(d.flows[i]) : i \in on}
           R == {d.flows[i].route : i \in on}
           f == [i \in on |-> Flows!ViewOf(d.flows[i])]
           g == [i \in on |-> d.flows[i].route]
<1>1. IsFiniteSet(on)
  <2>1. Len(d.flows) \in Nat /\ DOMAIN d.flows = 1..Len(d.flows)
    BY RowIs
  <2>2. IsFiniteSet(1..Len(d.flows))
    BY <2>1, FS_Interval
  <2> QED BY <2>1, <2>2, FS_Subset
<1>2. \A i, j \in on : d.flows[i].route = d.flows[j].route => i = j
  <2>1. \A i, j \in DOMAIN d.flows : i \in Int /\ j \in Int /\ (i # j => i < j \/ j < i)
    BY RowIs
  <2> QED BY <2>1 DEF Flows!validateFlows
<1>3. \A i \in on : Flows!ViewOf(d.flows[i]).route = d.flows[i].route
  BY DEF Flows!ViewOf
<1>4. f \in Bijection(on, V)
  <2>1. f \in [on -> V]
    OBVIOUS
  <2>2. \A i, j \in on : f[i] = f[j] => i = j
    BY <1>2, <1>3
  <2>3. \A v \in V : \E i \in on : f[i] = v
    OBVIOUS
  <2> HIDE DEF f, V
  <2> QED BY <2>1, <2>2, <2>3 DEF Bijection, Injection, Surjection, IsInjective
<1>5. g \in Bijection(on, R)
  <2>1. g \in [on -> R]
    OBVIOUS
  <2>2. \A i, j \in on : g[i] = g[j] => i = j
    BY <1>2
  <2>3. \A v \in R : \E i \in on : g[i] = v
    OBVIOUS
  <2> HIDE DEF g, R
  <2> QED BY <2>1, <2>2, <2>3 DEF Bijection, Injection, Surjection, IsInjective
<1> HIDE DEF f, g, V, R
<1>6. Cardinality(V) = Cardinality(on)
  BY <1>1, <1>4, FS_Bijection DEF ExistsBijection
<1>7. Cardinality(R) = Cardinality(on)
  BY <1>1, <1>5, FS_Bijection DEF ExistsBijection
<1> QED BY <1>6, <1>7 DEF V, R

\* A save: what is refused leaves everything, what is taken is what the rows say.
LEMMA FlowSaves ==
    ASSUME FlowIInv, Flows!Save PROVE FlowIInv'
<1>1. draft \in Flows!Editor /\ UNCHANGED <<draft, configured>>
  BY DEF FlowIInv, Flows!Save
<1> DEFINE errors == \E i \in DOMAIN draft.flows : Flows!flowRouteError(draft.flows, i)
           relative == \E i \in DOMAIN draft.flows : draft.flows[i].registry = "relative"
           live == {draft.flows[i].route : i \in {j \in DOMAIN draft.flows : Flows!isLive(draft, j)}}
           on == {j \in DOMAIN draft.flows : draft.flows[j].enabled}
<1>2. Flows!validateFlows(draft.flows) <=> ~errors /\ ~relative
  BY <1>1, RefusedIsShown
<1>3. Flows!publicFlowViews(draft) \subseteq Flows!View
  <2>1. \A i \in DOMAIN draft.flows : Flows!ViewOf(draft.flows[i]) \in Flows!View
    BY <1>1, RowIs DEF Flows!ViewOf, Flows!View, Flows!Flow
  <2> QED BY <2>1 DEF Flows!publicFlowViews
<1>4. published' \subseteq Flows!View
  BY <1>3 DEF Flows!Save, FlowIInv
<1>5. ASSUME Flows!validateFlows(draft.flows)
      PROVE  /\ {v.route : v \in Flows!publicFlowViews(draft)} = live
             /\ Cardinality(Flows!publicFlowViews(draft)) = Cardinality(live)
  <2>1. \A i \in DOMAIN draft.flows : Flows!isLive(draft, i) <=> draft.enabled /\ draft.flows[i].enabled
    BY <1>2, <1>5 DEF Flows!isLive
  <2>2. CASE ~draft.enabled
    <3>1. Flows!publicFlowViews(draft) = {} /\ live = {}
      BY <2>1, <2>2 DEF Flows!publicFlowViews
    <3> QED BY <3>1
  <2>3. CASE draft.enabled
    <3>1. Flows!publicFlowViews(draft) = {Flows!ViewOf(draft.flows[i]) : i \in on}
      BY <2>3 DEF Flows!publicFlowViews
    <3>2. live = {draft.flows[i].route : i \in on}
      BY <2>1, <2>3
    <3>3. \A i \in on : Flows!ViewOf(draft.flows[i]).route = draft.flows[i].route
      BY DEF Flows!ViewOf
    <3>4. Cardinality({Flows!ViewOf(draft.flows[i]) : i \in on}) = Cardinality({draft.flows[i].route : i \in on})
      BY <1>1, <1>5, RoutesCount
    <3> HIDE DEF on, live
    <3> QED BY <3>1, <3>2, <3>3, <3>4
  <2> QED BY <2>2, <2>3
<1>6. Flows!SaveDoesWhatTheRowsSay'
  <2>1. /\ verdict'.accepted = Flows!validateFlows(draft.flows) /\ verdict'.live = live
        /\ verdict'.errors = errors /\ verdict'.relative = relative
    BY DEF Flows!Save
  <2>2. Flows!validateFlows(draft.flows) => published' = Flows!publicFlowViews(draft)
    BY DEF Flows!Save
  <2> HIDE DEF errors, relative, live
  <2>3. verdict'.accepted <=> ~verdict'.errors /\ ~verdict'.relative
    BY <1>2, <2>1, Zenon
  <2>4. verdict'.accepted => /\ {v.route : v \in published'} = verdict'.live
                             /\ Cardinality(published') = Cardinality(verdict'.live)
    BY <1>5, <2>1, <2>2
  <2> QED BY <2>3, <2>4, FlowCount DEF Flows!SaveDoesWhatTheRowsSay
<1> QED BY <1>1, <1>4, <1>6 DEF FlowIInv

\* The steps of an open editor.
LEMMA FlowWorkIInv ==
    ASSUME Flows!FlowAssumption, FlowIInv, Flows!Work PROVE FlowIInv'
<1>0. draft # Flows!Closed =>
         /\ draft \in Flows!Editor /\ Len(draft.flows) <= MaxFlows
         /\ draft.flows \in Seq(Flows!Flow) /\ DOMAIN draft.flows = 1..Len(draft.flows)
         /\ \A i \in DOMAIN draft.flows : draft.flows[i] \in Flows!Flow
  BY RowIs DEF FlowIInv
<1>1. CASE Flows!handleEnable
  <2>1. draft \in Flows!Editor /\ Flows!Unread
    BY <1>0, <1>1 DEF Flows!handleEnable
  <2>2. Flows!NewFlow \in Flows!Flow
    BY DEF Flows!NewFlow, Flows!Flow, Flows!Registries, Flows!FlowAssumption
  <2>3. CASE ~draft.enabled /\ draft.flows = <<>>
    <3>1. PICK s : s = <<Flows!NewFlow>>
      OBVIOUS
    <3>2. s \in Seq(Flows!Flow) /\ Len(s) = 1
      BY <2>2, <3>1
    <3>3. PICK q : q = [draft EXCEPT !.enabled = TRUE, !.flows = s, !.expanded = 1]
      OBVIOUS
    <3>4. q \in Flows!Editor /\ q.flows = s
      BY <2>1, <3>2, <3>3, ExpandedIs DEF Flows!Editor
    <3>5. draft' = q /\ 1 <= MaxFlows
      BY <1>1, <2>3, <3>1, <3>3 DEF Flows!handleEnable, Flows!FlowAssumption
    <3> QED BY <2>1, <3>2, <3>4, <3>5, FlowEdits
  <2>4. CASE ~(~draft.enabled /\ draft.flows = <<>>)
    <3>1. PICK q : q = [draft EXCEPT !.enabled = ~@]
      OBVIOUS
    <3>2. q \in Flows!Editor /\ q.flows = draft.flows
      BY <2>1, <3>1 DEF Flows!Editor
    <3>3. draft' = q /\ Len(draft.flows) <= MaxFlows
      BY <1>0, <1>1, <2>4, <3>1 DEF Flows!handleEnable
    <3> QED BY <2>1, <3>2, <3>3, FlowEdits
  <2> QED BY <2>3, <2>4
<1>2. CASE Flows!addFlow
  <2>1. draft \in Flows!Editor /\ Flows!Unread /\ Len(draft.flows) < MaxFlows
    BY <1>0, <1>2 DEF Flows!addFlow
  <2>2. Flows!NewFlow \in Flows!Flow
    BY DEF Flows!NewFlow, Flows!Flow, Flows!Registries, Flows!FlowAssumption
  <2>3. PICK s : s = Append(draft.flows, Flows!NewFlow)
    OBVIOUS
  <2>4. s \in Seq(Flows!Flow) /\ Len(s) = Len(draft.flows) + 1 /\ Len(draft.flows) \in Nat
    BY <2>1, <2>2, <2>3, RowIs
  <2>5. Len(s) \in 0..MaxFlows
    BY <2>1, <2>4 DEF Flows!FlowAssumption
  <2>6. PICK q : q = [draft EXCEPT !.flows = s, !.expanded = Len(s)]
    OBVIOUS
  <2>7. q \in Flows!Editor /\ q.flows = s
    BY <2>1, <2>4, <2>5, <2>6 DEF Flows!Editor
  <2>8. draft' = q
    BY <1>2, <2>3, <2>4, <2>6 DEF Flows!addFlow
  <2> QED BY <2>1, <2>5, <2>7, <2>8, FlowEdits DEF Flows!FlowAssumption
<1>3. CASE Flows!Save
  BY <1>3, FlowSaves
<1>4. CASE Flows!Leave
  BY <1>4 DEF Flows!Leave, FlowIInv, Flows!Unread, Flows!Quiet, Flows!SaveDoesWhatTheRowsSay
<1>5. ASSUME NEW i \in 1..MaxFlows, draft # Flows!Closed, i <= Len(draft.flows),
             \/ Flows!removeFlow(i) \/ Flows!Expand(i) \/ Flows!toggleEnabled(i)
             \/ \E r \in FlowRoutes : Flows!editRoute(i, r)
             \/ \E r \in Flows!Registries : Flows!chooseRegistry(i, r)
             \/ \E a \in Agreements : Flows!toggleAgreement(i, a)
      PROVE  FlowIInv'
  <2>1. /\ draft \in Flows!Editor /\ Len(draft.flows) <= MaxFlows
        /\ draft.flows \in Seq(Flows!Flow) /\ i \in DOMAIN draft.flows
        /\ draft.flows[i] \in Flows!Flow
    BY <1>0, <1>5
  <2>2. CASE Flows!removeFlow(i)
    <3>1. PICK s : s = [j \in 1..Len(draft.flows) - 1 |->
                          IF j < i THEN draft.flows[j] ELSE draft.flows[j + 1]]
      OBVIOUS
    <3>2. Len(draft.flows) - 1 \in Nat /\ Len(draft.flows) - 1 <= MaxFlows
      BY <2>1, <1>5, RowIs DEF Flows!FlowAssumption
    <3>3. \A j \in 1..Len(draft.flows) - 1 : j \in DOMAIN draft.flows /\ j + 1 \in DOMAIN draft.flows
      BY <1>0, <1>5
    <3>4. s \in [1..Len(draft.flows) - 1 -> Flows!Flow]
      BY <1>0, <1>5, <3>1, <3>3
    <3>5. s \in Seq(Flows!Flow) /\ Len(s) = Len(draft.flows) - 1
      BY <3>2, <3>4
    <3>6. PICK q : q = [draft EXCEPT !.expanded = 0, !.flows = s]
      OBVIOUS
    <3>7. q \in Flows!Editor /\ q.flows = s
      BY <2>1, <3>5, <3>6, ExpandedIs DEF Flows!Editor
    <3>8. draft' = q /\ Flows!Unread
      BY <2>2, <3>1, <3>6 DEF Flows!removeFlow
    <3> QED BY <3>2, <3>5, <3>7, <3>8, FlowEdits
  <2>3. CASE Flows!Expand(i)
    <3>1. PICK q : q = [draft EXCEPT !.expanded = IF @ = i THEN 0 ELSE i]
      OBVIOUS
    <3>2. q \in Flows!Editor /\ q.flows = draft.flows
      BY <1>5, <2>1, <3>1, ExpandedIs DEF Flows!Editor
    <3>3. draft' = q /\ Flows!Unread
      BY <2>3, <3>1 DEF Flows!Expand
    <3> QED BY <2>1, <3>2, <3>3, FlowEdits
  <2>4. CASE Flows!toggleEnabled(i)
    <3>1. PICK f : f = [draft.flows[i] EXCEPT !.enabled = ~@]
      OBVIOUS
    <3>2. f \in Flows!Flow
      BY <2>1, <3>1 DEF Flows!Flow
    <3>3. draft' = [draft EXCEPT !.flows[i] = f] /\ Flows!Unread
      BY <2>1, <2>4, <3>1 DEF Flows!toggleEnabled
    <3> QED BY <1>5, <2>1, <3>2, <3>3, FlowRowEdits
  <2>5. ASSUME NEW r \in FlowRoutes, Flows!editRoute(i, r) PROVE FlowIInv'
    <3>1. PICK f : f = [draft.flows[i] EXCEPT !.route = r]
      OBVIOUS
    <3>2. f \in Flows!Flow
      BY <2>1, <3>1 DEF Flows!Flow
    <3>3. draft' = [draft EXCEPT !.flows[i] = f] /\ Flows!Unread
      BY <2>1, <2>5, <3>1 DEF Flows!editRoute
    <3> QED BY <1>5, <2>1, <3>2, <3>3, FlowRowEdits
  <2>6. ASSUME NEW r \in Flows!Registries, Flows!chooseRegistry(i, r) PROVE FlowIInv'
    <3>1. PICK f : f = [draft.flows[i] EXCEPT !.registry = r]
      OBVIOUS
    <3>2. f \in Flows!Flow
      BY <2>1, <3>1 DEF Flows!Flow
    <3>3. draft' = [draft EXCEPT !.flows[i] = f] /\ Flows!Unread
      BY <2>1, <2>6, <3>1 DEF Flows!chooseRegistry
    <3> QED BY <1>5, <2>1, <3>2, <3>3, FlowRowEdits
  <2>7. ASSUME NEW a \in Agreements, Flows!toggleAgreement(i, a) PROVE FlowIInv'
    <3>1. PICK f : f = [draft.flows[i] EXCEPT !.agreementIds = IF a \in @ THEN @ \ {a} ELSE @ \cup {a}]
      OBVIOUS
    <3>2. f \in Flows!Flow
      BY <2>1, <3>1 DEF Flows!Flow
    <3>3. draft' = [draft EXCEPT !.flows[i] = f] /\ Flows!Unread
      BY <2>1, <2>7, <3>1 DEF Flows!toggleAgreement
    <3> QED BY <1>5, <2>1, <3>2, <3>3, FlowRowEdits
  <2> QED BY <1>5, <2>2, <2>3, <2>4, <2>5, <2>6, <2>7
<1>6. ASSUME NEW a \in Agreements, Flows!RemoveAgreement(a) PROVE FlowIInv'
  BY <1>6 DEF Flows!RemoveAgreement, FlowIInv, Flows!Quiet, Flows!SaveDoesWhatTheRowsSay
<1> QED BY <1>1, <1>2, <1>3, <1>4, <1>5, <1>6 DEF Flows!Work

\* Every step keeps the rows within their bound and the last save to them.
LEMMA FlowIInvStep ==
    ASSUME Flows!FlowAssumption, FlowIInv, [Flows!Enter \/ Flows!Work]_(Flows!vars)
    PROVE  FlowIInv'
<1>1. CASE UNCHANGED Flows!vars
  BY <1>1 DEF Flows!vars, FlowIInv, Flows!SaveDoesWhatTheRowsSay
<1>2. CASE Flows!Enter
  <2>1. PICK q : q = [open |-> TRUE, enabled |-> FALSE, flows |-> <<>>, expanded |-> 0]
    OBVIOUS
  <2>2. q \in Flows!Editor /\ Len(q.flows) = 0 /\ 0 <= MaxFlows
    BY <2>1 DEF Flows!Editor, Flows!FlowAssumption
  <2>3. draft' = q /\ Flows!Unread
    BY <1>2, <2>1 DEF Flows!Enter
  <2> QED BY <2>2, <2>3, FlowEdits
<1> QED BY <1>1, <1>2, FlowWorkIInv

\* So applicants get the flows the rows show.
LEMMA FlowIInvHolds == FlowIInv => Flows!TypeOK /\ Flows!FlowsAreAsShown
<1> SUFFICES ASSUME FlowIInv PROVE Flows!TypeOK /\ Flows!FlowsAreAsShown
  OBVIOUS
<1>1. Flows!NarrowedStaysNarrow
  BY DEF Flows!NarrowedStaysNarrow, Flows!flowAgreements
<1> QED BY <1>1, FlowPageIs DEF FlowIInv, Flows!TypeOK, Flows!FlowsAreAsShown

-----------------------------------------------------------------------------
(* CredentialOffers: as long as the polls did not cross there is one at most, *)
(* that of the busy button, and what has settled stays settled under it.      *)
Gone(type) == wallet[type] \in {"none", "refused"}
\* Data that say the issuer has finished are true of it.
DataIsTrue(data) ==
    data.status \in {"failed", "ready"} => \A type \in OfferTypes \ data.issued : Gone(type)

PollFits(p) ==
    /\ p \in Offers!Poll
    /\ p.at = "post" => p.by.what \in {"req", "link", "retry"} /\ p.answer = Offers!Nothing

Uncrossed(s, ps) ==
    /\ \A p, q \in ps : p = q
    /\ \A p \in ps : p.by = s.busy /\ (p.answer # Offers!Nothing => DataIsTrue(p.answer))
    /\ s.data # Offers!Nothing /\ s.busy = Offers!Idle => DataIsTrue(s.data)

OfferIInv ==
    /\ wallet \in [OfferTypes -> Offers!Stages] /\ broken \in BOOLEAN /\ crossed \in BOOLEAN
    /\ \A p \in polls : PollFits(p)
    /\ \/ section = Offers!Closed /\ polls = {}
       \/ /\ section \in Offers!Section
          /\ section.busy # Offers!Idle => \E p \in polls : p.by = section.busy
          /\ section.data = Offers!Nothing => polls # {}
          /\ ~crossed => Uncrossed(section, polls)

-----------------------------------------------------------------------------
\* A mounted section and data on it are not their absence.
LEMMA OfferPageIs ==
    /\ Offers!Closed \notin Offers!Section
    /\ Offers!Nothing \notin Offers!Data
    /\ Offers!Unavailable \in Offers!Data
BY DEF Offers!Closed, Offers!Section, Offers!Nothing, Offers!Data, Offers!Unavailable

\* What a busy button is busy with.
LEMMA BusyIs ==
    ASSUME NEW b \in Offers!Busy
    PROVE  /\ b.what \in {"req", "link"} => b.type \in OfferTypes /\ b # Offers!Idle
           /\ b.what = "retry" => b # Offers!Idle
<1>0. Offers!Idle.what = ""
  BY DEF Offers!Idle
<1>1. CASE b = Offers!Idle
  BY <1>0, <1>1
<1>2. CASE b \in [what : {"check", "retry"}, type : {Offers!NoType}]
  <2>1. b.what \in {"check", "retry"}
    BY <1>2
  <2> QED BY <1>0, <2>1
<1>3. CASE b \in [what : {"req", "link"}, type : OfferTypes]
  <2>1. b.what \in {"req", "link"} /\ b.type \in OfferTypes
    BY <1>3
  <2> QED BY <1>0, <2>1
<1> QED BY <1>1, <1>2, <1>3 DEF Offers!Busy

\* At first there is no section.
LEMMA OfferInitIInv == Offers!OffersAssumption /\ Offers!Init => OfferIInv
BY DEF Offers!OffersAssumption, Offers!Init, OfferIInv

\* What the handler relays of the issuer is true of the wallet.
LEMMA RelayedIs ==
    ASSUME wallet \in [OfferTypes -> Offers!Stages]
    PROVE  Offers!Relayed \in Offers!Data /\ DataIsTrue(Offers!Relayed)
<1>1. PICK s \in Offers!Statuses : Offers!Relayed.status = s
  BY DEF Offers!Relayed, Offers!Statuses
<1>2. /\ Offers!Relayed.issued = {type \in OfferTypes : wallet[type] \in {"issued", "offered"}}
      /\ Offers!Relayed.offers = {type \in OfferTypes : wallet[type] \in {"offered"}}
      /\ Offers!Relayed = [status |-> s, issued |-> Offers!Relayed.issued,
                           offers |-> Offers!Relayed.offers]
  BY <1>1 DEF Offers!Relayed
<1>3. Offers!Relayed \in Offers!Data
  BY <1>1, <1>2 DEF Offers!Data
<1>4. ASSUME s \in {"failed", "ready"}, NEW type \in OfferTypes PROVE wallet[type] \notin {"pending", "processing"}
  <2>1. CASE wallet[type] = "processing"
    <3>1. {t \in OfferTypes : wallet[t] \in {"processing"}} # {}
      BY <2>1
    <3>2. s = "processing"
      BY <1>1, <3>1 DEF Offers!Relayed
    <3> QED BY <1>4, <3>2
  <2>2. CASE wallet[type] = "pending"
    <3>1. {t \in OfferTypes : wallet[t] \in {"pending"}} # {}
      BY <2>2
    <3>2. s \in {"processing", "pending"}
      BY <1>1, <3>1 DEF Offers!Relayed
    <3> QED BY <1>4, <3>2
  <2> QED BY <2>1, <2>2
<1>5. \A type \in OfferTypes : wallet[type] \in Offers!Stages
  OBVIOUS
<1>6. DataIsTrue(Offers!Relayed)
  BY <1>1, <1>2, <1>4, <1>5 DEF DataIsTrue, Gone, Offers!Stages
<1> QED BY <1>3, <1>6

\* A button starts its poll.
LEMMA Started ==
    ASSUME Offers!OffersAssumption, OfferIInv, section \in Offers!Section,
           section.data # Offers!Nothing, NEW by \in Offers!Busy, by # Offers!Idle,
           NEW at \in {"post", "fetch"}, at = "post" => by.what \in {"req", "link", "retry"},
           Offers!Start(by, at), UNCHANGED <<wallet, broken>>,
           NEW q \in Offers!Section, section' = q, q.busy = by, q.data = section.data
    PROVE  OfferIInv'
<1>1. PICK d : d = [by |-> by, at |-> at, n |-> 0, answer |-> Offers!Nothing]
  OBVIOUS
<1>2. 0 \in 0..MAX_POLLS
  BY DEF Offers!OffersAssumption
<1>3. PollFits(d) /\ d.by = by /\ d.answer = Offers!Nothing
  BY <1>1, <1>2 DEF PollFits, Offers!Poll
<1>4. polls' = polls \cup {d} /\ crossed' = (crossed \/ polls # {})
  BY <1>1 DEF Offers!Start
<1>5. (\A p \in polls : PollFits(p))' /\ crossed' \in BOOLEAN
  BY <1>3, <1>4 DEF OfferIInv, PollFits
<1>6. ASSUME ~crossed' PROVE Uncrossed(section, polls)'
  <2>1. polls' = {d}
    BY <1>4, <1>6
  <2> QED BY <1>3, <2>1 DEF Uncrossed
<1>7. section' # Offers!Closed
  BY OfferPageIs
<1> QED BY <1>3, <1>4, <1>5, <1>6, <1>7 DEF OfferIInv

\* A poll goes on, the section as it is.
LEMMA PollGoesOn ==
    ASSUME OfferIInv, NEW p \in polls, NEW q, PollFits(q), q.by = p.by, Offers!Step(p, q),
           wallet' \in [OfferTypes -> Offers!Stages], broken' \in BOOLEAN, crossed' = crossed,
           NEW s \in Offers!Section, section' = s, s.busy = section.busy,
           section.data # Offers!Nothing => s.data # Offers!Nothing,
           ~crossed /\ Uncrossed(section, polls) =>
              /\ (q.answer # Offers!Nothing => DataIsTrue(q.answer))'
              /\ (s.data # Offers!Nothing /\ s.busy = Offers!Idle => DataIsTrue(s.data))'
    PROVE  OfferIInv'
<1>1. section \in Offers!Section /\ polls' = (polls \ {p}) \cup {q}
  BY DEF OfferIInv, Offers!Step
<1>2. (\A r \in polls : PollFits(r))'
  BY <1>1 DEF OfferIInv, PollFits
<1>3. section'.busy # Offers!Idle => \E r \in polls' : r.by = section'.busy
  <2>1. CASE section.busy # Offers!Idle
    <3>1. PICK r \in polls : r.by = section.busy
      BY <1>1, <2>1, OfferPageIs DEF OfferIInv
    <3>2. CASE r = p
      BY <1>1, <3>1, <3>2
    <3>3. CASE r # p
      BY <1>1, <3>1, <3>3
    <3> QED BY <3>2, <3>3
  <2> QED BY <2>1
<1>4. ASSUME ~crossed' PROVE Uncrossed(section, polls)'
  <2>1. Uncrossed(section, polls) /\ ~crossed
    BY <1>1, <1>4, OfferPageIs DEF OfferIInv
  <2>2. polls' = {q} /\ q.by = s.busy
    BY <1>1, <2>1 DEF Uncrossed
  <2>3. (q.answer # Offers!Nothing => DataIsTrue(q.answer))'
        /\ (s.data # Offers!Nothing /\ s.busy = Offers!Idle => DataIsTrue(s.data))'
    BY <2>1
  <2> QED BY <2>2, <2>3 DEF Uncrossed, DataIsTrue, Gone
<1>5. polls' # {}
  BY <1>1
<1> QED BY <1>2, <1>3, <1>4, <1>5 DEF OfferIInv

\* A poll is over.
LEMMA PollEnds ==
    ASSUME OfferIInv, NEW p \in polls, polls' = polls \ {p}, UNCHANGED <<wallet, broken, crossed>>,
           NEW data \in Offers!Data, NEW offers,
           section' = Offers!Freed([section EXCEPT !.data = data], p, offers),
           ~crossed /\ Uncrossed(section, polls) => DataIsTrue(data)
    PROVE  OfferIInv'
<1>1. section \in Offers!Section /\ PollFits(p) /\ p.by \in Offers!Busy
  BY DEF OfferIInv, PollFits, Offers!Poll
<1>2. PICK s : s = [section EXCEPT !.data = data]
  OBVIOUS
<1>3. s \in Offers!Section /\ s.data = data /\ s.busy = section.busy /\ s.noLink \subseteq OfferTypes
  BY <1>1, <1>2 DEF Offers!Section
<1>4. PICK q : q = section'
  OBVIOUS
<1>5. /\ q \in Offers!Section /\ q.data = data
      /\ p.by # Offers!Idle => q.busy = Offers!Idle
      /\ p.by = Offers!Idle => q.busy = section.busy
  <2>1. CASE p.by = Offers!Idle
    BY <1>2, <1>3, <1>4, <2>1 DEF Offers!Freed
  <2>2. CASE p.by # Offers!Idle
    <3>1. PICK l : l = IF p.by.what = "link" /\ p.by.type \notin offers
                       THEN s.noLink \cup {p.by.type} ELSE s.noLink
      OBVIOUS
    <3>2. p.by.what = "link" => p.by.type \in OfferTypes
      BY <1>1, BusyIs
    <3>3. l \in SUBSET OfferTypes
      BY <1>3, <3>1, <3>2
    <3>4. q = [s EXCEPT !.busy = Offers!Idle, !.noLink = l]
      BY <1>2, <1>3, <1>4, <2>2, <3>1 DEF Offers!Freed, Offers!Section
    <3>5. Offers!Idle \in Offers!Busy
      BY DEF Offers!Busy
    <3> QED BY <1>3, <2>2, <3>3, <3>4, <3>5 DEF Offers!Section
  <2> QED BY <2>1, <2>2
<1>6. q.busy # Offers!Idle => \E r \in polls' : r.by = q.busy
  BY <1>1, <1>5, OfferPageIs DEF OfferIInv
<1>7. ASSUME ~crossed' PROVE Uncrossed(section, polls)'
  <2>1. Uncrossed(section, polls) /\ DataIsTrue(data) /\ polls' = {}
    BY <1>1, <1>7, OfferPageIs DEF OfferIInv, Uncrossed
  <2>2. DataIsTrue(data)'
    BY <2>1 DEF DataIsTrue, Gone
  <2> QED BY <1>4, <1>5, <2>1, <2>2 DEF Uncrossed
<1>8. (\A r \in polls : PollFits(r))'
  BY DEF OfferIInv, PollFits
<1> QED BY <1>4, <1>5, <1>6, <1>7, <1>8, OfferPageIs DEF OfferIInv

\* What a button orders moves offers on.
LEMMA OrderedIs ==
    ASSUME wallet \in [OfferTypes -> Offers!Stages], broken \in BOOLEAN, NEW p, PollFits(p),
           p.at = "post", Offers!Ordered(p)
    PROVE  wallet' \in [OfferTypes -> Offers!Stages] /\ broken' \in BOOLEAN
<1>1. p.by \in Offers!Busy /\ p.by.what \in {"req", "link", "retry"}
  BY DEF PollFits, Offers!Poll
<1>2. "pending" \in Offers!Stages /\ "offered" \in Offers!Stages
  BY DEF Offers!Stages
<1>3. CASE p.by.what = "req"
  <2>1. p.by.type \in OfferTypes
    BY <1>1, <1>3, BusyIs
  <2> QED BY <1>2, <1>3, <2>1 DEF Offers!Ordered
<1>4. CASE p.by.what = "link"
  <2>1. PICK minted : wallet' = [type \in OfferTypes |->
                                   IF type \in minted THEN "offered" ELSE wallet[type]]
    BY <1>4 DEF Offers!Ordered
  <2> QED BY <1>2, <1>4, <2>1 DEF Offers!Ordered
<1>5. CASE p.by.what = "retry"
  <2>1. PICK again : wallet' = [type \in OfferTypes |->
                                   IF type \in again THEN "pending" ELSE wallet[type]]
    BY <1>5 DEF Offers!Ordered
  <2> QED BY <1>2, <1>5, <2>1 DEF Offers!Ordered
<1> QED BY <1>1, <1>3, <1>4, <1>5

\* The issuer touches nothing that has settled without a credential.
LEMMA IssuerIs ==
    ASSUME OfferIInv, NEW type \in OfferTypes, Offers!Issuer(type) PROVE OfferIInv'
<1>1. wallet' \in [OfferTypes -> Offers!Stages] /\ broken' \in BOOLEAN
  BY DEF OfferIInv, Offers!Issuer, Offers!Stages
<1>2. \A t \in OfferTypes : Gone(t) => Gone(t)'
  BY DEF OfferIInv, Offers!Issuer, Gone
<1>3. \A data : DataIsTrue(data) => DataIsTrue(data)'
  BY <1>2 DEF DataIsTrue
<1>4. UNCHANGED <<section, polls, crossed>>
  BY DEF Offers!Issuer
<1>5. Uncrossed(section, polls) => Uncrossed(section, polls)'
  BY <1>3, <1>4 DEF Uncrossed
<1> QED BY <1>1, <1>4, <1>5 DEF OfferIInv, PollFits

\* Every step keeps the polls with the buttons and the data true.
LEMMA OfferIInvStep ==
    ASSUME Offers!OffersAssumption, OfferIInv, [Offers!Enter \/ Offers!Work]_(Offers!vars)
    PROVE  OfferIInv'
<1>0. /\ wallet \in [OfferTypes -> Offers!Stages] /\ broken \in BOOLEAN /\ crossed \in BOOLEAN
      /\ \A p \in polls : PollFits(p)
      /\ section # Offers!Closed => section \in Offers!Section
      /\ polls # {} => section # Offers!Closed
      /\ 0 \in 0..MAX_POLLS
  <2>1. 0 \in 0..MAX_POLLS
    BY DEF Offers!OffersAssumption
  <2> QED BY <2>1, OfferPageIs DEF OfferIInv
<1>1. CASE UNCHANGED Offers!vars
  BY <1>1 DEF Offers!vars, OfferIInv, PollFits, Uncrossed, DataIsTrue, Gone
<1>2. CASE Offers!Enter
  <2>1. PICK q : q = [open |-> TRUE, data |-> Offers!Nothing, busy |-> Offers!Idle, requested |-> {},
                      noLink |-> {}]
    OBVIOUS
  <2>2. q \in Offers!Section /\ q.data = Offers!Nothing /\ q.busy = Offers!Idle
    BY <2>1 DEF Offers!Section, Offers!Busy
  <2>3. PICK d : d = [by |-> Offers!Idle, at |-> "fetch", n |-> 0, answer |-> Offers!Nothing]
    OBVIOUS
  <2>4. PollFits(d) /\ d.by = Offers!Idle /\ d.answer = Offers!Nothing
    BY <1>0, <2>3 DEF PollFits, Offers!Poll, Offers!Busy
  <2>5. /\ polls' = {d} /\ UNCHANGED <<wallet, broken, crossed>> /\ section' = q
    BY <1>0, <1>2, <2>1, <2>3 DEF Offers!Enter, Offers!Start
  <2>6. Uncrossed(section, polls)'
    BY <2>2, <2>4, <2>5 DEF Uncrossed
  <2>7. (\A p \in polls : PollFits(p))'
    BY <2>4, <2>5 DEF PollFits
  <2> QED BY <1>0, <2>2, <2>5, <2>6, <2>7 DEF OfferIInv
<1>3. CASE Offers!Leave
  BY <1>0, <1>3 DEF Offers!Leave, OfferIInv
<1>4. ASSUME NEW type \in OfferTypes, Offers!requestType(type) PROVE OfferIInv'
  <2>1. section \in Offers!Section /\ section.data # Offers!Nothing
    BY <1>0, <1>4 DEF Offers!requestType, Offers!CanPress
  <2>2. PICK by : by = [what |-> "req", type |-> type]
    OBVIOUS
  <2>3. by \in Offers!Busy /\ by # Offers!Idle /\ by.what = "req"
    BY <2>2 DEF Offers!Busy, Offers!Idle
  <2>4. PICK q : q = [section EXCEPT !.busy = by, !.requested = section.requested \cup {type},
                                     !.noLink = section.noLink \ {type}]
    OBVIOUS
  <2>5. q \in Offers!Section /\ q.busy = by /\ q.data = section.data
    BY <2>1, <2>3, <2>4 DEF Offers!Section
  <2>6. section' = q /\ Offers!Start(by, "post") /\ UNCHANGED <<wallet, broken>>
    BY <1>4, <2>1, <2>2, <2>4 DEF Offers!requestType, Offers!Section
  <2> QED BY <2>1, <2>3, <2>5, <2>6, Started
<1>5. ASSUME NEW by \in Offers!Busy, by # Offers!Idle, NEW at \in {"post", "fetch"},
             at = "post" => by.what \in {"req", "link", "retry"}, Offers!CanPress,
             section' = [section EXCEPT !.busy = by], Offers!Start(by, at),
             UNCHANGED <<wallet, broken>>
      PROVE  OfferIInv'
  <2>1. section \in Offers!Section /\ section.data # Offers!Nothing
    BY <1>0, <1>5 DEF Offers!CanPress
  <2>2. PICK q : q = [section EXCEPT !.busy = by]
    OBVIOUS
  <2>3. q \in Offers!Section /\ q.busy = by /\ q.data = section.data
    BY <1>5, <2>1, <2>2 DEF Offers!Section
  <2> QED BY <1>5, <2>1, <2>2, <2>3, Started
<1>6. ASSUME NEW type \in OfferTypes, Offers!getWalletLink(type) PROVE OfferIInv'
  <2>1. PICK by : by = [what |-> "link", type |-> type]
    OBVIOUS
  <2>2. by \in Offers!Busy /\ by # Offers!Idle /\ by.what = "link"
    BY <2>1 DEF Offers!Busy, Offers!Idle
  <2> QED BY <1>5, <1>6, <2>1, <2>2 DEF Offers!getWalletLink
<1>7. CASE Offers!doRetry
  <2>1. PICK by : by = [what |-> "retry", type |-> Offers!NoType]
    OBVIOUS
  <2>2. by \in Offers!Busy /\ by # Offers!Idle /\ by.what = "retry"
    BY <2>1 DEF Offers!Busy, Offers!Idle
  <2> QED BY <1>5, <1>7, <2>1, <2>2 DEF Offers!doRetry
<1>8. CASE Offers!doCheck
  <2>1. PICK by : by = [what |-> "check", type |-> Offers!NoType]
    OBVIOUS
  <2>2. by \in Offers!Busy /\ by # Offers!Idle /\ by.what = "check"
    BY <2>1 DEF Offers!Busy, Offers!Idle
  <2> QED BY <1>5, <1>8, <2>1, <2>2 DEF Offers!doCheck
<1>9. ASSUME NEW p \in polls, Offers!Post(p) PROVE OfferIInv'
  <2>0. PollFits(p) /\ p \in Offers!Poll /\ p.at = "post" /\ section \in Offers!Section
          /\ p.answer = Offers!Nothing /\ p.by # Offers!Idle
    <3>1. PollFits(p) /\ p \in Offers!Poll /\ p.at = "post" /\ section \in Offers!Section
      BY <1>0, <1>9 DEF Offers!Post, PollFits
    <3>2. p.by \in Offers!Busy
      BY <3>1 DEF Offers!Poll
    <3> QED BY <3>1, <3>2, BusyIs DEF PollFits
  <2>1. PICK q : q = [p EXCEPT !.at = "fetch"]
    OBVIOUS
  <2>2. PollFits(q) /\ q.by = p.by /\ q.answer = Offers!Nothing
    BY <2>0, <2>1 DEF PollFits, Offers!Poll
  <2>3. wallet' \in [OfferTypes -> Offers!Stages] /\ broken' \in BOOLEAN
    BY <1>0, <1>9, <2>0, OrderedIs DEF Offers!Post
  <2>4. Uncrossed(section, polls) => section.busy # Offers!Idle
    BY <2>0 DEF Uncrossed
  <2>5. Offers!Step(p, q) /\ section' = section /\ crossed' = crossed
    BY <1>9, <2>1 DEF Offers!Post
  <2>6. PICK s : s = section
    OBVIOUS
  <2>7. /\ (q.answer # Offers!Nothing => DataIsTrue(q.answer))'
        /\ ~crossed /\ Uncrossed(section, polls) =>
              (s.data # Offers!Nothing /\ s.busy = Offers!Idle => DataIsTrue(s.data))'
    BY <2>2, <2>4, <2>6
  <2> QED BY <2>0, <2>2, <2>3, <2>5, <2>6, <2>7, PollGoesOn
<1>10. ASSUME NEW p \in polls, Offers!Serve(p) PROVE OfferIInv'
  <2>0. /\ PollFits(p) /\ p \in Offers!Poll /\ p.at = "fetch" /\ section \in Offers!Section
        /\ UNCHANGED <<wallet, broken, section, crossed>>
    BY <1>0, <1>10 DEF Offers!Serve, PollFits
  <2>1. PICK q : q = [p EXCEPT !.answer = Offers!Relayed]
    OBVIOUS
  <2>2. PollFits(q) /\ q.by = p.by /\ q.answer = Offers!Relayed
    BY <1>0, <2>0, <2>1, RelayedIs DEF PollFits, Offers!Poll
  <2>3. DataIsTrue(q.answer)
    BY <1>0, <2>2, RelayedIs
  <2>4. Offers!Step(p, q)
    BY <1>10, <2>1 DEF Offers!Serve
  <2>5. PICK s : s = section
    OBVIOUS
  <2>6. ~crossed /\ Uncrossed(section, polls) =>
              /\ (q.answer # Offers!Nothing => DataIsTrue(q.answer))'
              /\ (s.data # Offers!Nothing /\ s.busy = Offers!Idle => DataIsTrue(s.data))'
    BY <2>0, <2>3, <2>5 DEF DataIsTrue, Gone, Uncrossed
  <2> QED BY <1>0, <2>0, <2>2, <2>4, <2>5, <2>6, PollGoesOn
<1>11. ASSUME NEW p \in polls, Offers!Arrive(p) PROVE OfferIInv'
  <2>0. /\ PollFits(p) /\ p \in Offers!Poll /\ p.answer \in Offers!Data /\ section \in Offers!Section
        /\ p.answer # Offers!Nothing /\ UNCHANGED <<wallet, broken, crossed>>
    BY <1>0, <1>11 DEF Offers!Arrive, PollFits, Offers!Poll
  <2>1. ~crossed /\ Uncrossed(section, polls) => DataIsTrue(p.answer)
    BY <2>0 DEF Uncrossed
  <2>2. CASE Offers!isProcessing(p.answer.status) /\ p.n < MAX_POLLS
    <3>1. PICK s : s = [section EXCEPT !.data = p.answer]
      OBVIOUS
    <3>2. s \in Offers!Section /\ s.busy = section.busy /\ s.data = p.answer
      BY <2>0, <3>1 DEF Offers!Section
    <3>3. PICK q : q = [p EXCEPT !.at = "sleep", !.n = p.n + 1, !.answer = Offers!Nothing]
      OBVIOUS
    <3>4. p.n \in 0..MAX_POLLS
      BY <2>0 DEF Offers!Poll
    <3>5. p.n + 1 \in 0..MAX_POLLS
      BY <2>2, <3>4 DEF Offers!OffersAssumption
    <3>6. PollFits(q) /\ q.by = p.by /\ q.answer = Offers!Nothing
      BY <2>0, <3>3, <3>5 DEF PollFits, Offers!Poll
    <3>7. section' = s /\ Offers!Step(p, q)
      BY <1>11, <2>0, <2>2, <3>1, <3>3 DEF Offers!Arrive, Offers!Poll
    <3>8. p.answer.status \notin {"failed", "ready"}
      BY <2>2 DEF Offers!isProcessing
    <3>9. ~crossed /\ Uncrossed(section, polls) =>
              /\ (q.answer # Offers!Nothing => DataIsTrue(q.answer))'
              /\ (s.data # Offers!Nothing /\ s.busy = Offers!Idle => DataIsTrue(s.data))'
      BY <3>2, <3>6, <3>8 DEF DataIsTrue
    <3> QED BY <1>0, <2>0, <3>2, <3>6, <3>7, <3>9, PollGoesOn
  <2>3. CASE ~(Offers!isProcessing(p.answer.status) /\ p.n < MAX_POLLS)
    <3>1. /\ section' = Offers!Freed([section EXCEPT !.data = p.answer], p, p.answer.offers)
          /\ polls' = polls \ {p}
      BY <1>11, <2>3 DEF Offers!Arrive
    <3> QED BY <2>0, <2>1, <3>1, PollEnds
  <2> QED BY <2>2, <2>3
<1>12. ASSUME NEW p \in polls, Offers!FetchFails(p) PROVE OfferIInv'
  <2>1. DataIsTrue(Offers!Unavailable)
    BY DEF DataIsTrue, Offers!Unavailable
  <2> QED BY <1>12, <2>1, OfferPageIs, PollEnds DEF Offers!FetchFails
<1>13. ASSUME NEW p \in polls, Offers!Wake(p) PROVE OfferIInv'
  <2>0. /\ PollFits(p) /\ p \in Offers!Poll /\ section \in Offers!Section
        /\ UNCHANGED <<wallet, broken, section, crossed>>
    BY <1>0, <1>13 DEF Offers!Wake, PollFits
  <2>1. PICK q : q = [p EXCEPT !.at = "fetch"]
    OBVIOUS
  <2>2. PollFits(q) /\ q.by = p.by /\ q.answer = p.answer
    BY <2>0, <2>1 DEF PollFits, Offers!Poll
  <2>3. Offers!Step(p, q)
    BY <1>13, <2>1 DEF Offers!Wake
  <2>4. PICK s : s = section
    OBVIOUS
  <2>5. ~crossed /\ Uncrossed(section, polls) =>
              /\ (q.answer # Offers!Nothing => DataIsTrue(q.answer))'
              /\ (s.data # Offers!Nothing /\ s.busy = Offers!Idle => DataIsTrue(s.data))'
    BY <2>0, <2>2, <2>4 DEF DataIsTrue, Gone, Uncrossed
  <2> QED BY <1>0, <2>0, <2>2, <2>3, <2>4, <2>5, PollGoesOn
<1>14. CASE \E p \in polls : \/ Offers!Post(p) \/ Offers!Serve(p) \/ Offers!Arrive(p)
                             \/ Offers!FetchFails(p) \/ Offers!Wake(p)
  BY <1>14, <1>9, <1>10, <1>11, <1>12, <1>13
<1>15. CASE \E type \in OfferTypes : \/ Offers!requestType(type) \/ Offers!getWalletLink(type)
                                     \/ Offers!Issuer(type)
  BY <1>15, <1>4, <1>6, IssuerIs
<1> QED BY <1>1, <1>2, <1>3, <1>7, <1>8, <1>14, <1>15 DEF Offers!Work

\* So no button stays busy without a poll, and what is said to be gone is.
LEMMA OfferIInvHolds ==
    ASSUME OfferIInv
    PROVE  Offers!TypeOK /\ Offers!ButtonsComeBack /\ Offers!NotAvailableIsTrue
<1>1. polls \subseteq Offers!Poll
  BY DEF OfferIInv, PollFits
<1>2. Offers!TypeOK
  BY <1>1 DEF OfferIInv, Offers!TypeOK
<1>3. Offers!ButtonsComeBack
  BY DEF OfferIInv, Offers!ButtonsComeBack
<1>4. ASSUME section # Offers!Closed, section.data # Offers!Nothing, section.busy = Offers!Idle,
             ~crossed, NEW type \in OfferTypes, Offers!NotAvailable(type)
      PROVE  wallet[type] \in {"none", "refused"}
  <2>1. section \in Offers!Section /\ DataIsTrue(section.data) /\ section.data \in Offers!Data
    BY <1>4 DEF OfferIInv, Uncrossed, Offers!Section
  <2>2. section.data.status \in {"failed", "ready"} /\ type \notin section.data.issued
    BY <1>4, <2>1 DEF Offers!NotAvailable, Offers!Cards, Offers!Settled, Offers!isProcessing,
                      Offers!Data, Offers!Statuses
  <2> QED BY <2>1, <2>2 DEF DataIsTrue, Gone
<1> QED BY <1>2, <1>3, <1>4 DEF Offers!NotAvailableIsTrue

-----------------------------------------------------------------------------
(* What the console promises: the invariants of the pages, together          *)

\* The review's invariant gives it its shape.
LEMMA ReviewHasShape == ReviewIInv => Reviewing!TypeOK
<1>1. ReviewIInv => /\ review \in {Reviewing!Closed} \cup Reviewing!Page
                    /\ \A c \in Reviewing!Decisions : c \in DecisionCalls
  BY CallsDiffer DEF ReviewIInv, Fits, ListPage, ReviewPage, Reviewing!Page, Reviewing!Decisions,
      ReviewListCalls, FetchCalls
<1> QED BY <1>1 DEF ReviewIInv, Reviewing!TypeOK, DecisionCalls

\* Each page opens with its invariant and keeps it; they share nothing.
ListAndPickerIInv == ListIInv /\ PickIInv /\ OfferIInv
EditorsIInv == DetailIInv /\ CallsHaveRoom /\ DeskIInv /\ LibraryIInv
FilesIInv == ClaimIInv /\ UploadIInv
SecretsIInv == MailIInv /\ IdentityIInv

\* All pages start with their invariants.
LEMMA PagesInitIInv ==
    ASSUME Init
    PROVE  /\ ListAndPickerIInv /\ EditorsIInv /\ FilesIInv /\ SecretsIInv
           /\ SubsIInv /\ CreationIInv /\ FlowIInv /\ ReviewIInv /\ FormIInv /\ UserIInv
BY PagesAssumption, ListInitIInv, PickInitIInv, OfferInitIInv, DetailInitIInv, CallsInitRoom,
   DeskInitIInv, LibraryInitIInv, ClaimInitIInv, UploadInitIInv, MailInitIInv, IdentityInitIInv,
   SubsInitIInv, CreationInitIInv, FlowInitIInv, ReviewInitIInv, FormInitIInv, UserInitIInv
   DEF Init, ListAndPickerIInv, EditorsIInv, FilesIInv, SecretsIInv

\* The pages that read keep theirs.
LEMMA ListAndPickerStep == ListAndPickerIInv /\ [Next]_vars => ListAndPickerIInv'
BY PagesAssumption, PagesStep, ListIInvStep, PickIInvStep, OfferIInvStep DEF ListAndPickerIInv

\* The pages that edit keep theirs.
LEMMA EditorsStep == EditorsIInv /\ [Next]_vars => EditorsIInv'
BY PagesAssumption, PagesStep, DetailIInvStep, CallsRoomStep, DeskIInvStep, LibraryIInvStep
   DEF EditorsIInv

\* The forms that take files keep theirs.
LEMMA FilesStep == FilesIInv /\ [Next]_vars => FilesIInv'
BY PagesAssumption, PagesStep, ClaimIInvStep, UploadIInvStep DEF FilesIInv

\* The cards that keep secrets keep theirs, and the secrets.
LEMMA SecretsStep ==
    SecretsIInv /\ [Next]_vars => SecretsIInv' /\ [KeepsSecrets]_realm /\ [KeepsPassword]_smtp
BY PagesAssumption, PagesStep, MailIInvStep, IdentityIInvStep DEF SecretsIInv

\* So does the page of the subscribers,
LEMMA SubsStep == SubsIInv /\ [Next]_vars => SubsIInv'
BY PagesAssumption, PagesStep, SubsIInvStep

\* the form a party is created with,
LEMMA CreationStepHolds == CreationIInv /\ [Next]_vars => CreationIInv'
BY PagesAssumption, PagesStep, CreationIInvStep

\* and the editor of the flows.
LEMMA FlowStepHolds == FlowIInv /\ [Next]_vars => FlowIInv'
BY PagesAssumption, PagesStep, FlowIInvStep

\* What was not touched is not written over: a claim saved from its dialog changes what
\* was typed, a save of the settings keeps what was loaded of the rest, and the live
\* theme stays in the library, as long as nobody clicked before the themes were loaded
\* (ClaimEditModal, handleSave, handleDeleteTheme).
THEOREM ConsoleKeepsTheUntouched == Spec => []UntouchedStays
<1>1. Init => EditorsIInv
  BY PagesInitIInv
<1>2. EditorsIInv => UntouchedStays
  BY PagesAssumption, DetailIInvHolds, DeskIInvHolds, LibraryIInvHolds
     DEF EditorsIInv, UntouchedStays
<1> QED BY <1>1, <1>2, EditorsStep, PTL DEF Spec

\* Files parsed or hashed late describe the claim or the agreement that is sent, in
\* whatever order they come (AddClaimModal, the uploads of SubmitClaimsForm).
THEOREM ConsoleFilesStayTrue == Spec => []LateFilesStayTrue
<1>1. Init => FilesIInv
  BY PagesInitIInv
<1>2. FilesIInv => LateFilesStayTrue
  BY PagesAssumption, ClaimIInvHolds DEF FilesIInv, UploadIInv, LateFilesStayTrue
<1> QED BY <1>1, <1>2, FilesStep, PTL DEF Spec

\* No save from a form that cannot know them loses the secret of a provider or the
\* password of the mail server, and no test mail is sent with the mask in its place
\* (UpdateIdp, UpdateSmtp, TestSmtp): two action properties and an invariant.
THEOREM ConsoleKeepsSecrets == Spec => StoredSecretsStay
<1>1. Init => SecretsIInv
  BY PagesInitIInv
<1>2. SecretsIInv => Mailer!TestsTryAPassword
  BY DEF SecretsIInv, MailIInv
<1>3. SecretsIInv /\ [Next]_vars =>
        /\ SecretsIInv'
        /\ [\A a \in DOMAIN realm \cap DOMAIN realm' :
               realm[a].secret # Blank => realm'[a].secret # Blank]_realm
        /\ [smtp.password # Blank => smtp'.password # Blank]_smtp
  BY SecretsStep DEF KeepsSecrets, KeepsPassword
<1> QED BY <1>1, <1>2, <1>3, PTL
        DEF Spec, StoredSecretsStay, Identity!SecretsStay, Mailer!PasswordStays

\* A secret on screen, a form and a party sent are those of the subscriber, or of the
\* party, they name, whatever answers come late (pages/subscribers.tsx, PartySearchSelect).
THEOREM ConsoleKeepsSubscribersApart == Spec => []SubscribersStayApart
<1>1. Init => SubsIInv /\ ListAndPickerIInv
  BY PagesInitIInv
<1>2. SubsIInv /\ ListAndPickerIInv => SubscribersStayApart
  BY PagesAssumption, SubsIInvHolds, PickIInvHolds DEF ListAndPickerIInv, SubscribersStayApart
<1> QED BY <1>1, <1>2, SubsStep, ListAndPickerStep, PTL DEF Spec

\* What the operator confirmed on the review is what is created, with all that its steps
\* ask for (SubmitClaimsForm).
THEOREM ConsoleCreatesTheConfirmed == Spec => []CreationIsAsConfirmed
<1>1. Init => CreationIInv
  BY PagesInitIInv
<1>2. CreationIInv => CreationIsAsConfirmed
  BY CreationIInvHolds DEF CreationIsAsConfirmed
<1> QED BY <1>1, <1>2, CreationStepHolds, PTL DEF Spec

\* A save of the onboarding flows publishes what the rows say, and what it leaves
\* configured is what the rows say too (OnboardingFlows).
THEOREM ConsoleFlowsAreAsShown == Spec => []FlowsAreAsShown
<1>1. Init => FlowIInv
  BY PagesInitIInv
<1>2. FlowIInv => FlowsAreAsShown
  BY FlowIInvHolds DEF FlowsAreAsShown
<1> QED BY <1>1, <1>2, FlowStepHolds, PTL DEF Spec

\* A provider whose preset is reported as done maps every attribute of it, as long as no
\* call crossed another or lost its answer (applyPreset).
THEOREM ConsoleCompletesThePreset == Spec => []PresetIsComplete
<1>1. Init => SecretsIInv
  BY PagesInitIInv
<1>2. SecretsIInv => PresetIsComplete
  BY IdentityIInvHolds DEF SecretsIInv, PresetIsComplete
<1>3. SecretsIInv /\ [Next]_vars => SecretsIInv'
  BY SecretsStep
<1> QED BY <1>1, <1>2, <1>3, PTL DEF Spec

\* Every page has its shape, and those that read participants or credentials show what
\* they were asked for or wait for an answer that is under way, whatever came late,
\* crossed or failed (participants.tsx, [id].tsx, PartySearchSelect, CredentialsSection).
THEOREM ConsolePagesAreSound == Spec => []PagesAreSound
<1> DEFINE Inv == /\ ListAndPickerIInv /\ EditorsIInv /\ FilesIInv /\ SecretsIInv
                  /\ SubsIInv /\ CreationIInv /\ FlowIInv /\ ReviewIInv /\ FormIInv /\ UserIInv
<1>1. Init => Inv
  BY PagesInitIInv
<1>2. Inv /\ [Next]_vars => Inv'
  <2>1. ReviewIInv /\ [Next]_vars => ReviewIInv'
    BY PagesAssumption, PagesStep, ReviewIInvStep
  <2>2. FormIInv /\ [Next]_vars => FormIInv'
    BY PagesAssumption, PagesStep, FormIInvStep
  <2>3. UserIInv /\ [Next]_vars => UserIInv'
    BY PagesAssumption, PagesStep, UserIInvStep
  <2> QED BY <2>1, <2>2, <2>3, ListAndPickerStep, EditorsStep, FilesStep, SecretsStep, SubsStep,
             CreationStepHolds, FlowStepHolds
<1>3. Inv => PagesAreSound
  <2>1. ListAndPickerIInv =>
          /\ Participants!TypeOK /\ Participants!RowsAnswerTheQuery
          /\ Participants!SkeletonIsAnswered
          /\ Picking!TypeOK /\ Picking!MenuIsAnswered /\ Picking!MenuIsOfTheText
          /\ Offers!TypeOK /\ Offers!ButtonsComeBack /\ Offers!NotAvailableIsTrue
    BY ListIInvHolds, PickIInvHolds, OfferIInvHolds DEF ListAndPickerIInv
  <2>2. EditorsIInv => Detail!TypeOK /\ Detail!NeverBlank /\ Settings!TypeOK /\ Library!TypeOK
    BY PagesAssumption, DetailIInvHolds, DeskIInvHolds, LibraryIInvHolds DEF EditorsIInv
  <2>3. FilesIInv /\ SecretsIInv =>
          NewClaim!TypeOK /\ Upload!TypeOK /\ Mailer!TypeOK /\ Identity!TypeOK
    BY PagesAssumption, ClaimIInvHolds, IdentityIInvHolds
       DEF FilesIInv, UploadIInv, SecretsIInv, MailIInv
  <2>4. SubsIInv /\ CreationIInv /\ FlowIInv => Webhooks!TypeOK /\ Creation!TypeOK /\ Flows!TypeOK
    BY PagesAssumption, SubsIInvHolds, CreationIInvHolds, FlowIInvHolds
  <2>5. ReviewIInv /\ FormIInv /\ UserIInv => Reviewing!TypeOK /\ Adding!TypeOK /\ Users!TypeOK
    BY ReviewHasShape DEF FormIInv, UserIInv
  <2> QED BY <2>1, <2>2, <2>3, <2>4, <2>5 DEF PagesAreSound, TypeOK
<1> HIDE DEF Inv
<1> QED BY <1>1, <1>2, <1>3, PTL DEF Spec
=============================================================================
