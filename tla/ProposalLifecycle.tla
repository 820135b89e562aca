-------------------------- MODULE ProposalLifecycle --------------------------
(* What the onboarding workflow promises a registrar, without requests,      *)
(* snapshots or statuses: a party is registered first, then its proposal may *)
(* be completed under that id and its applicant may be made its admin.       *)
EXTENDS Naturals

CONSTANTS Proposals, Owners, Parties, None

VARIABLES
    registered,     \* {<<proposal, owner, party>>}: what the registry holds
    completedAs,    \* proposal -> the party it is completed as, or None
    adminOf         \* owner -> the party of its partyId attribute, or None

vars == <<registered, completedAs, adminOf>>

Init ==
    /\ registered = {}
    /\ completedAs = [p \in Proposals |-> None]
    /\ adminOf = [o \in Owners |-> None]

\* The registry takes a party on, for one owner per proposal; it may know it.
Register(p, o, x) ==
    /\ \A r \in registered : r[1] = p => r[2] = o
    /\ registered' = registered \cup {<<p, o, x>>}
    /\ UNCHANGED <<completedAs, adminOf>>

Complete(p, o, x) ==
    /\ <<p, o, x>> \in registered
    /\ completedAs' = [completedAs EXCEPT ![p] = x]
    /\ UNCHANGED <<registered, adminOf>>

\* A later decision, signature or modification takes the status back.
Reopen(p) ==
    /\ completedAs[p] # None
    /\ completedAs' = [completedAs EXCEPT ![p] = None]
    /\ UNCHANGED <<registered, adminOf>>

Appoint(p, o, x) ==
    /\ <<p, o, x>> \in registered
    /\ adminOf' = [adminOf EXCEPT ![o] = x]
    /\ UNCHANGED <<registered, completedAs>>

Next ==
    \/ \E p \in Proposals, o \in Owners, x \in Parties :
         Register(p, o, x) \/ Complete(p, o, x) \/ Appoint(p, o, x)
    \/ \E p \in Proposals : Reopen(p)
Spec == Init /\ [][Next]_vars
=============================================================================
