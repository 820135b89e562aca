--------------------------- MODULE CredentialOffers --------------------------
(* The credentials of the applicant's party (CredentialsSection): each is    *)
(* requested by a button and prepared by an external issuer, which the       *)
(* section polls until it has settled or the polls run out. The poll that    *)
(* runs when the section opens and that of a button can run side by side.    *)
EXTENDS Naturals, FiniteSets

CONSTANTS
    OfferTypes,     \* credential types
    InitialWallet,  \* what the issuer has at first
    MAX_POLLS

\* What the issuer has of a type: nothing, an order it has queued, one it works
\* on, a credential without or with a link for the wallet, or the verdict that
\* the claims of the party do not support it.
Stages == {"none", "pending", "processing", "issued", "offered", "refused"}

\* Assumed of the constants (Console).
OffersAssumption == InitialWallet \in [OfferTypes -> Stages] /\ MAX_POLLS \in Nat

VARIABLES
    wallet,     \* the issuer's stage of every type (external)
    broken,     \* its last job failed (external)
    section,    \* the mounted section, or Closed
    polls,      \* its polls under way
    crossed     \* two polls were under way at a time (history)

vars == <<wallet, broken, section, polls, crossed>>

-----------------------------------------------------------------------------
Closed == [open |-> FALSE]
Nothing == [none |-> TRUE]
Statuses == {"pending", "processing", "failed", "ready"}
Data == [status : Statuses \cup {"unavailable"},
         issued : SUBSET OfferTypes, offers : SUBSET OfferTypes]
Unavailable == [status |-> "unavailable", issued |-> {}, offers |-> {}]

\* A button by its name and type; the section's own poll has neither.
NoType == "no type"
Idle == [what |-> "", type |-> NoType]
Busy == {Idle} \cup [what : {"check", "retry"}, type : {NoType}]
               \cup [what : {"req", "link"}, type : OfferTypes]
Section == [open : {TRUE}, data : {Nothing} \cup Data, busy : Busy, requested : SUBSET OfferTypes,
            noLink : SUBSET OfferTypes]
Poll == [by : Busy, at : {"post", "fetch", "sleep"}, n : 0..MAX_POLLS,
         answer : {Nothing} \cup Data]

isProcessing(s) == s \in {"pending", "processing"}

\* GetMyCredentialOffers, as the issuer answers it now.
Relayed ==
    LET At(stages) == {type \in OfferTypes : wallet[type] \in stages}
    IN [status |-> IF At({"processing"}) # {} THEN "processing"
                   ELSE IF At({"pending"}) # {} THEN "pending"
                   ELSE IF broken THEN "failed" ELSE "ready",
        issued |-> At({"issued", "offered"}), offers |-> At({"offered"})]

-----------------------------------------------------------------------------
\* The start of a poll: a button calls the issuer first.
Start(by, at) ==
    /\ polls' = polls \cup {[by |-> by, at |-> at, n |-> 0, answer |-> Nothing]}
    /\ crossed' = (crossed \/ polls # {})

Enter ==
    /\ section = Closed
    /\ section' = [open |-> TRUE, data |-> Nothing, busy |-> Idle, requested |-> {},
                   noLink |-> {}]
    /\ Start(Idle, "fetch")
    /\ UNCHANGED <<wallet, broken>>

Leave ==
    /\ section # Closed
    /\ section' = Closed /\ polls' = {}
    /\ UNCHANGED <<wallet, broken, crossed>>

\* The buttons that are there, each disabled while another is busy.
CanPress == section # Closed /\ section.data # Nothing /\ section.busy = Idle
Cards == section.data.status # "unavailable"
Settled == ~isProcessing(section.data.status)
NotAvailable(type) ==
    /\ Cards /\ Settled /\ type \in section.requested \ section.data.issued
    /\ section.busy # [what |-> "req", type |-> type]

requestType(type) ==
    /\ CanPress /\ Cards
    /\ type \notin section.data.issued /\ ~NotAvailable(type)
    /\ section' = [section EXCEPT !.busy = [what |-> "req", type |-> type],
                                  !.requested = @ \cup {type}, !.noLink = @ \ {type}]
    /\ Start([what |-> "req", type |-> type], "post")
    /\ UNCHANGED <<wallet, broken>>

getWalletLink(type) ==
    /\ CanPress /\ Cards
    /\ type \in section.data.issued \ (section.data.offers \cup section.noLink)
    /\ section' = [section EXCEPT !.busy = [what |-> "link", type |-> type]]
    /\ Start([what |-> "link", type |-> type], "post")
    /\ UNCHANGED <<wallet, broken>>

doRetry ==
    /\ CanPress /\ section.data.status = "failed"
    /\ section' = [section EXCEPT !.busy = [what |-> "retry", type |-> NoType]]
    /\ Start([what |-> "retry", type |-> NoType], "post")
    /\ UNCHANGED <<wallet, broken>>

doCheck ==
    /\ CanPress
    /\ section' = [section EXCEPT !.busy = [what |-> "check", type |-> NoType]]
    /\ Start([what |-> "check", type |-> NoType], "fetch")
    /\ UNCHANGED <<wallet, broken>>

-----------------------------------------------------------------------------
Step(p, q) == polls' = (polls \ {p}) \cup {q}

\* The issuer has taken the order of a button. What failed is tried anew; a link
\* is minted for what is issued, if it can be.
Ordered(p) ==
    CASE p.by.what = "req" ->
           /\ wallet' = [wallet EXCEPT ![p.by.type] =
                            IF @ \in {"none", "refused"} THEN "pending" ELSE @]
           /\ UNCHANGED broken
      [] p.by.what = "link" ->
           /\ \E minted \in SUBSET {type \in OfferTypes : wallet[type] = "issued"} :
                 wallet' = [type \in OfferTypes |->
                              IF type \in minted THEN "offered" ELSE wallet[type]]
           /\ UNCHANGED broken
      [] p.by.what = "retry" ->
           /\ \E again \in SUBSET {type \in OfferTypes : wallet[type] \in {"none", "refused"}} :
                 wallet' = [type \in OfferTypes |->
                              IF type \in again THEN "pending" ELSE wallet[type]]
           /\ broken' = FALSE

\* A refusal, an error and an answer that is lost are passed over.
Post(p) ==
    /\ p \in polls /\ p.at = "post"
    /\ Ordered(p) \/ UNCHANGED <<wallet, broken>>
    /\ Step(p, [p EXCEPT !.at = "fetch"])
    /\ UNCHANGED <<section, crossed>>

Serve(p) ==
    /\ p \in polls /\ p.at = "fetch" /\ p.answer = Nothing
    /\ Step(p, [p EXCEPT !.answer = Relayed])
    /\ UNCHANGED <<wallet, broken, section, crossed>>

\* What is left when a poll is over: its button is free again, and a link that
\* its last answer does not have is not to be had.
Freed(s, p, offers) ==
    IF p.by = Idle THEN s
    ELSE [s EXCEPT !.busy = Idle,
                   !.noLink = IF p.by.what = "link" /\ p.by.type \notin offers
                              THEN @ \cup {p.by.type} ELSE @]

\* fetchOffers and the loop of poll around it.
Arrive(p) ==
    /\ p \in polls /\ p.answer # Nothing
    /\ LET shown == [section EXCEPT !.data = p.answer]
       IN IF isProcessing(p.answer.status) /\ p.n < MAX_POLLS
          THEN /\ section' = shown
               /\ Step(p, [p EXCEPT !.at = "sleep", !.n = @ + 1, !.answer = Nothing])
          ELSE /\ section' = Freed(shown, p, p.answer.offers)
               /\ polls' = polls \ {p}
    /\ UNCHANGED <<wallet, broken, crossed>>

\* The fetch, or the issuer behind it: the poll is over.
FetchFails(p) ==
    /\ p \in polls /\ p.at = "fetch"
    /\ section' = Freed([section EXCEPT !.data = Unavailable], p, {})
    /\ polls' = polls \ {p}
    /\ UNCHANGED <<wallet, broken, crossed>>

Wake(p) ==
    /\ p \in polls /\ p.at = "sleep"
    /\ Step(p, [p EXCEPT !.at = "fetch"])
    /\ UNCHANGED <<wallet, broken, section, crossed>>

\* The issuer goes on with an order, and the holder takes an offer up.
Issuer(type) ==
    /\ \/ wallet[type] = "pending" /\ wallet' = [wallet EXCEPT ![type] = "processing"]
          /\ UNCHANGED broken
       \/ wallet[type] = "processing" /\ UNCHANGED broken
          /\ \E end \in {"issued", "offered", "refused"} :
                wallet' = [wallet EXCEPT ![type] = end]
       \/ wallet[type] = "processing" /\ broken' = TRUE
          /\ wallet' = [wallet EXCEPT ![type] = "none"]
       \/ wallet[type] = "offered" /\ wallet' = [wallet EXCEPT ![type] = "issued"]
          /\ UNCHANGED broken
    /\ UNCHANGED <<section, polls, crossed>>

Init ==
    /\ wallet = InitialWallet /\ broken = FALSE
    /\ section = Closed /\ polls = {} /\ crossed = FALSE

Work ==
    \/ Leave \/ doRetry \/ doCheck
    \/ \E type \in OfferTypes : requestType(type) \/ getWalletLink(type) \/ Issuer(type)
    \/ \E p \in polls : Post(p) \/ Serve(p) \/ Arrive(p) \/ FetchFails(p) \/ Wake(p)

-----------------------------------------------------------------------------
TypeOK ==
    /\ wallet \in [OfferTypes -> Stages] /\ {broken, crossed} \subseteq BOOLEAN
    /\ section \in {Closed} \cup Section /\ polls \subseteq Poll

(* A button that is busy has its poll under way, and the skeleton some poll: *)
(* no failure leaves the section with every button disabled (requestType,    *)
(* getWalletLink, doRetry, doCheck; "busy state persists for the whole job").*)
ButtonsComeBack ==
    section # Closed =>
        /\ section.busy # Idle => \E p \in polls : p.by = section.busy
        /\ section.data = Nothing => polls # {}

(* "Not available" is said of a credential only after the issuer has         *)
(* finished with it and has none ("only after a request has settled with no  *)
(* offer"), as long as the section's polls did not cross.                    *)
NotAvailableIsTrue ==
    section # Closed /\ section.data # Nothing /\ section.busy = Idle /\ ~crossed
        => \A type \in OfferTypes : NotAvailable(type) => wallet[type] \in {"none", "refused"}
=============================================================================
