--------------------------- MODULE ProposalReview ---------------------------
(* The list of proposals (pages/admin.tsx) and the page on which one of them *)
(* is reviewed (pages/admin/verify/[id].tsx). The review page stays mounted  *)
(* while the browser goes from one review to another, so an answer, or the   *)
(* lack of one, can leave a proposal on the screen that the address bar does *)
(* not name; the second step acts on the one the address bar names.          *)
EXTENDS Naturals, FiniteSets

CONSTANTS
    Proposals, InitialStatuses,
    MaxCalls            \* bound: calls under way

Statuses == {"pending", "approved", "signed", "completed", "rejected"}

\* Assumed of the constants (Console).
ReviewAssumption == InitialStatuses \in [Proposals -> Statuses] /\ MaxCalls \in Nat

VARIABLES
    status,         \* the proposals at the portal, by status
    review,         \* the list, the review page, or Closed
    reviewCalls,    \* their calls under way
    past            \* the reviews the browser's history leads back to

vars == <<status, review, reviewCalls, past>>

-----------------------------------------------------------------------------
Closed == [at |-> "closed"]
Nothing == [none |-> TRUE]
Shown == [id : Proposals, status : Statuses]
Steps == {"verify-info", "verify-agreement"}
\* redirecting: the page is about to give way to the list (router.replace).
Page == [at : {"list"}, rows : {Nothing} \cup [Proposals -> Statuses]]
        \cup [at : {"review"}, id : Proposals, loading : BOOLEAN, step : Steps,
              shown : {Nothing} \cup Shown, submitting : BOOLEAN, redirecting : BOOLEAN]

Room == Cardinality(reviewCalls) < MaxCalls
Decisions == {c \in reviewCalls : c.kind \in {"approve", "reject", "complete"}}
Reviewing == review.at = "review"

\* What is mounted goes: a list or a proposal that was asked for reaches nobody,
\* though it may still redirect, and a decision under way has no step to come back to.
Unmounted == {[c EXCEPT !.here = FALSE] : c \in {d \in reviewCalls : d.kind # "list"}}
List == [kind |-> "list", here |-> TRUE, answer |-> Nothing]
Fetch(id) == [kind |-> "fetch", id |-> id, here |-> TRUE, answer |-> Nothing]

\* The list, mounted anew (AdminRoute calls loadApplications).
toList ==
    /\ review' = [at |-> "list", rows |-> Nothing]
    /\ reviewCalls' = Unmounted \cup {List}

Enter == review = Closed /\ toList /\ UNCHANGED <<status, past>>

-----------------------------------------------------------------------------
\* The rows that have a button: those whose turn is the administrator's.
Verifiable ==
    IF review.at = "list" /\ review.rows # Nothing
    THEN {id \in Proposals : review.rows[id] \notin {"completed", "rejected", "approved"}} ELSE {}

handleVerifyClick(id) ==
    /\ id \in Verifiable /\ Room
    /\ review' = [at |-> "review", id |-> id, loading |-> TRUE, step |-> "verify-info",
                  shown |-> Nothing, submitting |-> FALSE, redirecting |-> FALSE]
    /\ reviewCalls' = Unmounted \cup {Fetch(id)}
    /\ UNCHANGED <<status, past>>

\* Back, or forward, to another review. A mounted review page takes the new id and
\* keeps the rest; its steps are unmounted while it loads.
Back(id) ==
    /\ id \in past /\ review # Closed /\ Room
    /\ review' =
         IF Reviewing THEN [review EXCEPT !.id = id, !.loading = TRUE, !.submitting = FALSE,
                                          !.redirecting = FALSE]
         ELSE [at |-> "review", id |-> id, loading |-> TRUE, step |-> "verify-info",
               shown |-> Nothing, submitting |-> FALSE, redirecting |-> FALSE]
    /\ ~(Reviewing /\ review.id = id)
    /\ reviewCalls' = {[c EXCEPT !.here = @ /\ Reviewing /\ c \notin Decisions] :
                          c \in {d \in reviewCalls : d.kind # "list"}} \cup {Fetch(id)}
    /\ past' = IF Reviewing THEN past \cup {review.id} ELSE past
    /\ UNCHANGED status

\* Mutant: the first step decides on the proposal of the address bar as well.
DecidesByRoute(kind) == review.id
\* The first step decides on the proposal it shows, the second on the one the
\* address bar names.
DecidesOn(kind) == IF review.step = "verify-info" THEN review.shown.id ELSE review.id

\* The buttons of the two steps.
VerifyInfoStep == IF review.submitting THEN {} ELSE {"approve", "reject"}
VerifyAgreementStep == IF review.submitting THEN {} ELSE {"complete", "reject"}

decide(kind) ==
    /\ Reviewing /\ ~review.loading /\ review.shown # Nothing /\ Room
    /\ kind \in IF review.step = "verify-info" THEN VerifyInfoStep ELSE VerifyAgreementStep
    /\ reviewCalls' = reviewCalls \cup
         {[kind |-> kind, here |-> TRUE, id |-> DecidesOn(kind),
           step |-> review.step, told |-> review.shown.id]}
    /\ review' = [review EXCEPT !.submitting = TRUE]
    /\ UNCHANGED <<status, past>>

Redirect ==
    /\ Reviewing /\ review.redirecting
    /\ toList
    /\ UNCHANGED <<status, past>>

\* ApproveProposal and RejectProposal take a proposal in any state, CompleteProposal
\* a signed one.
Decided(c) ==
    \/ c.kind = "approve" /\ status' = [status EXCEPT ![c.id] = "approved"]
    \/ c.kind = "reject" /\ status' = [status EXCEPT ![c.id] = "rejected"]
    \/ c.kind = "complete" /\ status[c.id] = "signed"
       /\ status' = [status EXCEPT ![c.id] = "completed"]

\* A decision under way is done or not.
Leave ==
    /\ review # Closed
    /\ review' = Closed /\ reviewCalls' = {} /\ past' = {}
    /\ UNCHANGED status \/ \E c \in Decisions : Decided(c)

-----------------------------------------------------------------------------
\* Once it has succeeded the browser goes to the list, wherever it is by now; the
\* review stays in the history.
DecisionEnds(c) ==
    /\ c \in Decisions /\ Decided(c)
    /\ IF Reviewing
       THEN /\ review' = [at |-> "list", rows |-> Nothing]
            /\ reviewCalls' = (Unmounted \ {[c EXCEPT !.here = FALSE]}) \cup {List}
            /\ past' = past \cup {review.id}
       ELSE reviewCalls' = reviewCalls \ {c} /\ UNCHANGED <<review, past>>

\* Refused, or lost before or after it was done.
DecisionFails(c) ==
    /\ c \in Decisions
    /\ UNCHANGED status \/ Decided(c)
    /\ review' = IF c.here THEN [review EXCEPT !.submitting = FALSE] ELSE review
    /\ reviewCalls' = reviewCalls \ {c}
    /\ UNCHANGED past

Serve(c) ==
    /\ c \in reviewCalls /\ c.kind \in {"list", "fetch"} /\ c.answer = Nothing
    /\ reviewCalls' = (reviewCalls \ {c}) \cup
         {[c EXCEPT !.answer =
             IF c.kind = "list" THEN status ELSE [id |-> c.id, status |-> status[c.id]]]}
    /\ UNCHANGED <<status, review, past>>

\* loadApplications
Listed(c) ==
    /\ c \in reviewCalls /\ c.kind = "list" /\ c.answer # Nothing
    /\ review' = [review EXCEPT !.rows = c.answer]
    /\ reviewCalls' = reviewCalls \ {c}
    /\ UNCHANGED <<status, past>>

\* An approved proposal leaves the step as it is: the list is about to come.
StepFor(data, step) ==
    CASE data.status = "approved" -> step
      [] data.status = "signed" -> "verify-agreement"
      [] OTHER -> "verify-info"

\* fetchProposal: a changed step is mounted anew.
Fetched(c) ==
    LET step == StepFor(c.answer, review.step) IN
    /\ c \in reviewCalls /\ c.kind = "fetch" /\ c.answer # Nothing /\ c.here
    /\ review' = [review EXCEPT !.shown = c.answer, !.step = step, !.loading = FALSE,
                                !.submitting = @ /\ step = review.step,
                                !.redirecting = @ \/ c.answer.status = "approved"]
    /\ reviewCalls' =
         {[d EXCEPT !.here = @ /\ (d \in Decisions => step = review.step)] : d \in reviewCalls \ {c}}
    /\ UNCHANGED <<status, past>>

\* The answer for a review that is gone shows nothing, but an approved proposal
\* redirects all the same.
FetchedLate(c) ==
    /\ c \in reviewCalls /\ c.kind = "fetch" /\ c.answer # Nothing /\ ~c.here
    /\ reviewCalls' = reviewCalls \ {c}
    /\ review' = IF Reviewing /\ c.answer.status = "approved"
                 THEN [review EXCEPT !.redirecting = TRUE] ELSE review
    /\ UNCHANGED <<status, past>>

\* A review that could not be loaded shows what was there before it.
FetchFails(c) ==
    /\ c \in reviewCalls /\ c.kind \in {"list", "fetch"}
    /\ review' = IF c.kind = "fetch" /\ c.here THEN [review EXCEPT !.loading = FALSE] ELSE review
    /\ reviewCalls' = reviewCalls \ {c}
    /\ UNCHANGED <<status, past>>

\* The applicant signs what was approved and submits again what was rejected.
Applicant(id) ==
    /\ \/ status[id] = "approved" /\ status' = [status EXCEPT ![id] = "signed"]
       \/ status[id] = "rejected" /\ status' = [status EXCEPT ![id] = "pending"]
    /\ UNCHANGED <<review, reviewCalls, past>>

Init ==
    /\ status = InitialStatuses /\ review = Closed
    /\ reviewCalls = {} /\ past = {}

Work ==
    \/ Redirect \/ Leave
    \/ \E id \in Proposals : handleVerifyClick(id) \/ Back(id) \/ Applicant(id)
    \/ \E kind \in {"approve", "reject", "complete"} : decide(kind)
    \/ \E c \in reviewCalls : DecisionEnds(c) \/ DecisionFails(c) \/ Serve(c) \/ Listed(c)
                              \/ Fetched(c) \/ FetchedLate(c) \/ FetchFails(c)

Spec == Init /\ [][Enter \/ Work]_vars

-----------------------------------------------------------------------------
TypeOK ==
    /\ status \in [Proposals -> Statuses]
    /\ review \in {Closed} \cup Page
    /\ past \subseteq Proposals
    /\ \A c \in Decisions : c.id \in Proposals /\ c.step \in Steps

(* The second step, with the signed papers, is offered exactly for a proposal*)
(* whose signature was fetched, from whichever review one comes and whatever *)
(* failed on the way. An approved proposal is on its way back to the list.   *)
StepIsOfTheShown ==
    Reviewing /\ review.shown # Nothing /\ review.shown.status # "approved"
        => (review.step = "verify-agreement" <=> review.shown.status = "signed")

(* Who approves, or rejects at the first step, decides on the proposal that  *)
(* was on the screen, and the mail goes to its applicant, also when the      *)
(* answers of two reviews have crossed or one never came.                    *)
InfoDecisionIsOnTheShown ==
    \A c \in Decisions : c.step = "verify-info" => c.id = c.told

\* Both steps of a review are those of the proposal on the screen.
ReviewIsOfTheShown == StepIsOfTheShown /\ InfoDecisionIsOnTheShown
=============================================================================
