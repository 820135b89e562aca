----------------------------- MODULE FlowEditor -----------------------------
(* The editor of the public onboarding flows                                 *)
(* (components/OnboardingFlowsSettings), the check the portal makes of what  *)
(* it saves and what anonymous visitors are then shown                       *)
(* (handlers/onboarding_flows.go). Loading and saving are SettingsPage's;    *)
(* here a save is answered before the next edit.                             *)
EXTENDS Naturals, Sequences, FiniteSets

CONSTANTS
    FlowRoutes,     \* what can be typed as a route
    RefusedRoutes,  \* those that are reserved, or no bare path segment
    BaseRoute,      \* the empty route, which is the base URL
    Agreements,     \* the configured agreements at first
    MaxFlows,       \* bound: rows
    MaxTicks        \* bound: agreements ticked at a time

\* Assumed of the constants (Console).
FlowAssumption ==
    /\ BaseRoute \in FlowRoutes \ RefusedRoutes /\ RefusedRoutes \subseteq FlowRoutes
    /\ MaxFlows \in Nat \ {0} /\ MaxTicks \in Nat

VARIABLES
    draft,          \* the mounted editor, or Closed
    published,      \* the stored flows visitors are shown
    configured,     \* the agreements that still exist
    verdict         \* the answer to the save just made, or Nothing

vars == <<draft, published, configured, verdict>>

-----------------------------------------------------------------------------
Closed == [open |-> FALSE]
Nothing == [none |-> TRUE]
\* The registry's address: none or usable, or not an http(s) one.
Registries == {"usable", "relative"}
Flow == [route : FlowRoutes, enabled : BOOLEAN, registry : Registries, agreementIds : SUBSET Agreements]
Editor == [open : {TRUE}, enabled : BOOLEAN, flows : Seq(Flow), expanded : 0..MaxFlows]
View == [route : FlowRoutes, agreementIds : SUBSET Agreements]

NewFlow == [route |-> BaseRoute, enabled |-> TRUE, registry |-> "usable", agreementIds |-> {}]
Quiet == verdict' = Nothing
Unread == UNCHANGED <<published, configured>> /\ Quiet

Enter ==
    /\ draft = Closed
    /\ draft' = [open |-> TRUE, enabled |-> FALSE, flows |-> <<>>, expanded |-> 0]
    /\ Unread

\* Enabling seeds one flow when there is none.
handleEnable ==
    /\ draft # Closed
    /\ draft' = IF ~draft.enabled /\ draft.flows = <<>>
                THEN [draft EXCEPT !.enabled = TRUE, !.flows = <<NewFlow>>, !.expanded = 1]
                ELSE [draft EXCEPT !.enabled = ~@]
    /\ Unread

\* The rows are there while the switch is on.
addFlow ==
    /\ draft # Closed /\ draft.enabled /\ Len(draft.flows) < MaxFlows
    /\ draft' = [draft EXCEPT !.flows = Append(@, NewFlow), !.expanded = Len(draft.flows) + 1]
    /\ Unread

removeFlow(i) ==
    /\ draft # Closed /\ draft.enabled
    /\ draft' = [draft EXCEPT !.expanded = 0,
           !.flows = [j \in 1..Len(@) - 1 |-> IF j < i THEN @[j] ELSE @[j + 1]]]
    /\ Unread

Expand(i) ==
    /\ draft # Closed /\ draft.enabled
    /\ draft' = [draft EXCEPT !.expanded = IF @ = i THEN 0 ELSE i]
    /\ Unread

editRoute(i, r) ==
    /\ draft # Closed /\ draft.enabled
    /\ draft' = [draft EXCEPT !.flows[i].route = r]
    /\ Unread

toggleEnabled(i) ==
    /\ draft # Closed /\ draft.enabled
    /\ draft' = [draft EXCEPT !.flows[i].enabled = ~@]
    /\ Unread

\* One of the registry's authorisation registries, with the address it has there.
chooseRegistry(i, r) ==
    /\ draft # Closed /\ draft.enabled /\ draft.expanded = i
    /\ draft' = [draft EXCEPT !.flows[i].registry = r]
    /\ Unread

Ticks == UNION {{i} \X draft.flows[i].agreementIds : i \in DOMAIN draft.flows}
\* Only agreements that exist have a box to tick.
toggleAgreement(i, a) ==
    /\ draft # Closed /\ draft.enabled /\ draft.expanded = i /\ a \in configured
    /\ a \in draft.flows[i].agreementIds \/ Cardinality(Ticks) < MaxTicks
    /\ draft' = [draft EXCEPT !.flows[i].agreementIds = IF a \in @ THEN @ \ {a} ELSE @ \cup {a}]
    /\ Unread

Leave == draft # Closed /\ draft' = Closed /\ Unread

-----------------------------------------------------------------------------
\* Mutant: the base URL is not looked at for a second flow.
routeErrorButBase(flows, i) ==
    \/ flows[i].route \in RefusedRoutes
    \/ /\ flows[i].route # BaseRoute
       /\ \E j \in DOMAIN flows \ {i} : flows[j].route = flows[i].route
\* What the row says of its route.
flowRouteError(flows, i) ==
    \/ flows[i].route \in RefusedRoutes
    \/ \E j \in DOMAIN flows \ {i} : flows[j].route = flows[i].route

isLive(d, i) == d.enabled /\ d.flows[i].enabled /\ ~flowRouteError(d.flows, i)

\* validateFlows: a route that is refused or was seen before, or an address that is
\* not an absolute one, refuses the whole save.
validateFlows(flows) ==
    /\ \A i \in DOMAIN flows : flows[i].route \notin RefusedRoutes /\ flows[i].registry # "relative"
    /\ \A i, j \in DOMAIN flows : i < j => flows[i].route # flows[j].route

ViewOf(f) == [route |-> f.route, agreementIds |-> f.agreementIds]

\* What is kept of a save that visitors will see: the enabled flows, behind the switch.
publicFlowViews(d) ==
    IF d.enabled THEN {ViewOf(d.flows[i]) : i \in {j \in DOMAIN d.flows : d.flows[j].enabled}} ELSE {}

Save ==
    /\ draft # Closed
    /\ published' = IF validateFlows(draft.flows) THEN publicFlowViews(draft) ELSE published
    /\ verdict' = [accepted |-> validateFlows(draft.flows),
                   live |-> {draft.flows[i].route : i \in {j \in DOMAIN draft.flows : isLive(draft, j)}},
                   errors |-> \E i \in DOMAIN draft.flows : flowRouteError(draft.flows, i),
                   relative |-> \E i \in DOMAIN draft.flows : draft.flows[i].registry = "relative"]
    /\ UNCHANGED <<draft, configured>>

\* An agreement is removed under Agreements; the flows keep its id.
RemoveAgreement(a) ==
    /\ configured' = configured \ {a} /\ configured' # configured
    /\ Quiet /\ UNCHANGED <<draft, published>>

\* No selection means all agreements; ids that no longer exist are skipped.
flowAgreements(ids) == IF ids = {} THEN configured ELSE ids \cap configured

Init == draft = Closed /\ published = {} /\ configured = Agreements /\ verdict = Nothing

Work ==
    \/ handleEnable \/ addFlow \/ Save \/ Leave
    \/ \E i \in 1..MaxFlows :
          /\ draft # Closed /\ i <= Len(draft.flows)
          /\ \/ removeFlow(i) \/ Expand(i) \/ toggleEnabled(i)
             \/ \E r \in FlowRoutes : editRoute(i, r)
             \/ \E r \in Registries : chooseRegistry(i, r)
             \/ \E a \in Agreements : toggleAgreement(i, a)
    \/ \E a \in Agreements : RemoveAgreement(a)

Spec == Init /\ [][Enter \/ Work]_vars

-----------------------------------------------------------------------------
TypeOK ==
    /\ draft \in {Closed} \cup Editor /\ (draft # Closed => Len(draft.flows) <= MaxFlows)
    /\ published \subseteq View /\ configured \subseteq Agreements

(* What the editor says of its rows is what the portal makes of them: a save *)
(* is refused only where a row has an error, or an address of a registry     *)
(* that is no URL, and otherwise exactly the routes shown as published are   *)
(* published, each once ("there is never an implicitly published surface").  *)
SaveDoesWhatTheRowsSay ==
    verdict # Nothing =>
        /\ verdict.accepted <=> ~verdict.errors /\ ~verdict.relative
        /\ verdict.accepted => /\ {v.route : v \in published} = verdict.live
                               /\ Cardinality(published) = Cardinality(verdict.live)

(* A flow that was narrowed to some agreements asks for no other, also when  *)
(* those it was narrowed to are removed (flowAgreements).                    *)
NarrowedStaysNarrow ==
    \A v \in published : v.agreementIds # {} => flowAgreements(v.agreementIds) \subseteq v.agreementIds

\* What the editor shows of the flows is what applicants get.
FlowsAreAsShown == SaveDoesWhatTheRowsSay /\ NarrowedStaysNarrow
=============================================================================
