----------------------------- MODULE Delegation -----------------------------
(* Organisations, the people they delegate to, and their identity providers. *)
(*                                                                           *)
(* The first session that eHerkenning proves to represent a KVK number makes *)
(* the organisation's record and its first owner, as two inserts that may    *)
(* race with another first session, fail, or be cut off by a restart. Owners *)
(* let other people in by e-mail address and connect identity providers,     *)
(* which exist twice: in the realm and as a row. Nothing is ever removed,    *)
(* except that an administrator may delete a provider from the realm.        *)
EXTENDS Naturals, FiniteSets

CONSTANTS
    People,         \* accounts of the realm; the token's subject
    EmailOf,        \* person -> the e-mail address in the token
    Represents,     \* person -> the KVK numbers eHerkenning proves
    Kvks,
    Aliases,        \* names of identity providers in the realm
    Nobody,         \* no subject: a member known by e-mail address only
    Workers,        \* requests in progress at the same time
    MaxInvited      \* bound: members that owners let in

ASSUME NobodyIsNoPerson == Nobody \notin People
ASSUME WellTypedClaims == Represents \in [People -> SUBSET Kvks]
ASSUME BoundIsNat == MaxInvited \in Nat

VARIABLES
    orgs,           \* KVK number -> the record; the column is unique
    members,        \* the rows of organization_members
    connections,    \* the rows of organization_idp_connections
    realm,          \* aliases of the realm's providers (external)
    deleted,        \* history: aliases an administrator deleted
    reqs            \* worker -> the request it is executing

vars == <<orgs, members, connections, realm, deleted, reqs>>

Emails == {EmailOf[p] : p \in People}
Idle == [at |-> "idle"]

Org == [by : People, named : BOOLEAN]
\* The username of a token is folded into the subject: both are the account's.
\* Addresses are the ones Keycloak puts in tokens, which are in lower case.
Member == [org : Kvks, subject : People \cup {Nobody}, email : Emails,
           role : {"owner", "contributor"}, by : People]
Connection == [org : Kvks, alias : Aliases]
Request == [at : {"name", "create", "owner"}, who : People, org : Kvks,
            named : BOOLEAN]
           \cup [at : {"provision", "connect"}, org : Kvks, alias : Aliases]

TypeOK ==
    /\ DOMAIN orgs \subseteq Kvks /\ \A k \in DOMAIN orgs : orgs[k] \in Org
    /\ members \subseteq Member
    /\ connections \subseteq Connection
    /\ realm \subseteq Aliases
    /\ deleted \subseteq Aliases
    /\ reqs \in [Workers -> {Idle} \cup Request]

Init ==
    /\ orgs = [k \in {} |-> {}]
    /\ members = {}
    /\ connections = {}
    /\ realm = {}
    /\ deleted = {}
    /\ reqs = [w \in Workers |-> Idle]

Goto(w, r) == reqs' = [reqs EXCEPT ![w] = r]
At(w, stage) == reqs[w] # Idle /\ reqs[w].at = stage

-----------------------------------------------------------------------------
(* Who may do what                                                           *)

\* keycloak_subject = ? OR email = ? OR username = ?
Names(m, p) == m.subject = p \/ m.email = EmailOf[p]

\* Mutant: the alternatives of the query are not in parentheses.
LooseAlternatives(p, k) ==
    \E m \in members :
      (m.org = k /\ m.role = "owner" /\ m.subject = p) \/ m.email = EmailOf[p]
actorOwnsOrganization(p, k) ==
    \E m \in members : m.org = k /\ m.role = "owner" /\ Names(m, p)

userCanActForKvk(p, k) == \E m \in members : m.org = k /\ Names(m, p)

-----------------------------------------------------------------------------
(* GetOverview: ensureVerifiedOrganization in a session that proves k        *)

\* The record may lack the name this session brings.
GetOverview(w, p, k, named) ==
    /\ reqs[w] = Idle
    /\ k \in Represents[p]
    /\ k \in DOMAIN orgs => named /\ ~orgs[k].named
    /\ Goto(w, [at |-> IF k \in DOMAIN orgs THEN "name" ELSE "create",
                who |-> p, org |-> k, named |-> named])
    /\ UNCHANGED <<orgs, members, connections, realm, deleted>>

FillName(w) ==
    /\ At(w, "name")
    /\ orgs' = [orgs EXCEPT ![reqs[w].org].named = TRUE]
    /\ Goto(w, Idle)
    /\ UNCHANGED <<members, connections, realm, deleted>>

\* Mutant: no unique index on the KVK number.
InsertOrganization(w) ==
    /\ At(w, "create")
    /\ LET r == reqs[w]
       IN  /\ orgs' = [k \in DOMAIN orgs \cup {r.org} |->
                         IF k = r.org THEN [by |-> r.who, named |-> r.named]
                         ELSE orgs[k]]
           /\ Goto(w, [r EXCEPT !.at = "owner"])
    /\ UNCHANGED <<members, connections, realm, deleted>>

CreateOrganization(w) ==
    /\ At(w, "create")
    /\ reqs[w].org \notin DOMAIN orgs
    /\ LET r == reqs[w]
       IN  /\ orgs' = [k \in DOMAIN orgs \cup {r.org} |->
                         IF k = r.org THEN [by |-> r.who, named |-> r.named]
                         ELSE orgs[k]]
           /\ Goto(w, [r EXCEPT !.at = "owner"])
    /\ UNCHANGED <<members, connections, realm, deleted>>

CreateOwner(w) ==
    /\ At(w, "owner")
    /\ members' = members \cup
         {[org |-> reqs[w].org, subject |-> reqs[w].who,
           email |-> EmailOf[reqs[w].who], role |-> "owner", by |-> reqs[w].who]}
    /\ Goto(w, Idle)
    /\ UNCHANGED <<orgs, connections, realm, deleted>>

-----------------------------------------------------------------------------
(* What owners do                                                            *)

\* One step: being an owner, once seen, is for ever.
CreateMember(p, k, email, role) ==
    /\ actorOwnsOrganization(p, k)
    /\ Cardinality({m \in members : m.subject = Nobody}) < MaxInvited
    /\ members' = members \cup
         {[org |-> k, subject |-> Nobody, email |-> email, role |-> role,
           by |-> p]}
    /\ UNCHANGED <<orgs, connections, realm, deleted, reqs>>

CreateIdpConnection(w, p, k, a) ==
    /\ reqs[w] = Idle
    /\ actorOwnsOrganization(p, k)
    /\ Goto(w, [at |-> "provision", org |-> k, alias |-> a])
    /\ UNCHANGED <<orgs, members, connections, realm, deleted>>

\* Mutant: the row is stored whatever Keycloak answered.
RefusalIsMissed(w) ==
    /\ At(w, "provision")
    /\ Goto(w, [reqs[w] EXCEPT !.at = "connect"])
    /\ UNCHANGED <<orgs, members, connections, realm, deleted>>

\* Keycloak makes the provider, or answers that the alias is taken, which
\* passes for success.
provisionKeycloakIdp(w) ==
    /\ At(w, "provision")
    /\ realm' = realm \cup {reqs[w].alias}
    /\ Goto(w, [reqs[w] EXCEPT !.at = "connect"])
    /\ UNCHANGED <<orgs, members, connections, deleted>>

\* A refusal, or an answer that is lost after the provider was made.
ProvisioningFails(w) ==
    /\ At(w, "provision")
    /\ realm' \in {realm, realm \cup {reqs[w].alias}}
    /\ Goto(w, Idle)
    /\ UNCHANGED <<orgs, members, connections, deleted>>

CreateConnection(w) ==
    /\ At(w, "connect")
    /\ connections' =
         connections \cup {[org |-> reqs[w].org, alias |-> reqs[w].alias]}
    /\ Goto(w, Idle)
    /\ UNCHANGED <<orgs, members, realm, deleted>>

\* An insert fails, the KVK number is taken, or the server stops. The failure of
\* the owner's insert is not even reported.
InsertFails(w) ==
    /\ reqs[w] # Idle
    /\ Goto(w, Idle)
    /\ UNCHANGED <<orgs, members, connections, realm, deleted>>

-----------------------------------------------------------------------------
(* The administrator's view of the realm's providers                         *)

CreateIdp(a) ==
    /\ a \notin realm
    /\ realm' = realm \cup {a}
    /\ UNCHANGED <<orgs, members, connections, deleted, reqs>>

DeleteIdp(a) ==
    /\ a \in realm
    /\ realm' = realm \ {a}
    /\ deleted' = deleted \cup {a}
    /\ UNCHANGED <<orgs, members, connections, reqs>>

Next ==
    \/ \E w \in Workers :
         \/ \E p \in People, k \in Kvks, named \in BOOLEAN :
              GetOverview(w, p, k, named)
         \/ \E p \in People, k \in Kvks, a \in Aliases :
              CreateIdpConnection(w, p, k, a)
         \/ FillName(w) \/ CreateOrganization(w) \/ CreateOwner(w)
         \/ provisionKeycloakIdp(w) \/ ProvisioningFails(w)
         \/ CreateConnection(w) \/ InsertFails(w)
    \/ \E p \in People, k \in Kvks, e \in Emails,
          role \in {"owner", "contributor"} : CreateMember(p, k, e, role)
    \/ \E a \in Aliases : CreateIdp(a) \/ DeleteIdp(a)

Spec == Init /\ [][Next]_vars

-----------------------------------------------------------------------------
(* Properties                                                                *)

\* A set of people that an organisation's own representative and the owners in
\* it have let in, and nobody else could have.
ClosedUnderInvitation(S, k) ==
    /\ k \in DOMAIN orgs => orgs[k].by \in S
    /\ \A m \in members, p \in People :
         (m.org = k /\ m.by \in S /\ Names(m, p)) => p \in S

\* Whoever may act for an organisation was let in along a chain of invitations
\* that starts with a person whom eHerkenning proved to represent it: such a
\* person is in every set closed under invitation. No race of first sessions
\* and no failed insert makes a member out of thin air.
DelegationIsRooted ==
    /\ \A k \in DOMAIN orgs : k \in Represents[orgs[k].by]
    /\ \A k \in Kvks, p \in People :
         userCanActForKvk(p, k) =>
           \A S \in SUBSET People : ClosedUnderInvitation(S, k) => p \in S

\* However first sessions of several representatives race, an organisation has
\* at most one founding owner, the one its record names, and it has members
\* only after that owner: when the second insert of ensureVerifiedOrganization
\* is lost, nobody ever gets in.
FounderComesFirst ==
    \A m \in members :
      /\ m.org \in DOMAIN orgs
      /\ m.subject # Nobody => m.subject = orgs[m.org].by
      /\ \E f \in members : f.org = m.org /\ f.subject # Nobody

\* An organisation's connection has a provider behind it, unless an
\* administrator deleted that: the row is stored after Keycloak agreed.
ConnectionHasProvider ==
    \A c \in connections : c.alias \in realm \cup deleted
=============================================================================
