-------------------------- MODULE DelegationProofs --------------------------
(* Delegation keeps its invariants for any people, organisations, providers  *)
(* and number of concurrent requests. Everything follows from what the       *)
(* requests under way have already established (RequestsAreBacked).          *)
EXTENDS Delegation, TLAPS

\* What a request has seen to or been told before its next step: the session
\* that creates a record represents the organisation, the owner about to be
\* stored is the one the record names, the provider of a connection about to be
\* stored is there or was deleted since.
RequestsAreBacked ==
    \A w \in Workers :
      /\ At(w, "create") => reqs[w].org \in Represents[reqs[w].who]
      /\ At(w, "name") => reqs[w].org \in DOMAIN orgs
      /\ At(w, "owner") => /\ reqs[w].org \in DOMAIN orgs
                           /\ orgs[reqs[w].org].by = reqs[w].who
      /\ At(w, "connect") => reqs[w].alias \in realm \cup deleted

IInv == /\ TypeOK /\ RequestsAreBacked
        /\ DelegationIsRooted /\ FounderComesFirst /\ ConnectionHasProvider

\* Nothing is delegated, registered or under way when the tables are empty.
THEOREM InitIInv == Init => IInv
<1> SUFFICES ASSUME Init PROVE IInv
  OBVIOUS
<1>1. DOMAIN orgs = {}
  BY DEF Init
<1>2. TypeOK
  BY <1>1 DEF Init, TypeOK
<1>3. RequestsAreBacked
  BY DEF Init, RequestsAreBacked, At
<1>4. DelegationIsRooted
  BY <1>1 DEF Init, DelegationIsRooted, userCanActForKvk
<1>5. FounderComesFirst /\ ConnectionHasProvider
  BY DEF Init, FounderComesFirst, ConnectionHasProvider
<1> QED
  BY <1>2, <1>3, <1>4, <1>5 DEF IInv

\* A stage a request is in says which fields the request has.
LEMMA RequestFields ==
    ASSUME TypeOK, NEW w \in Workers
    PROVE  /\ At(w, "name") => reqs[w].org \in Kvks
           /\ (At(w, "create") \/ At(w, "owner")) =>
                /\ reqs[w].who \in People /\ reqs[w].org \in Kvks
                /\ reqs[w].named \in BOOLEAN
           /\ (At(w, "provision") \/ At(w, "connect")) =>
                reqs[w].alias \in Aliases /\ reqs[w].org \in Kvks
<1>1. reqs[w] \in {Idle} \cup Request
  BY DEF TypeOK
<1> QED
  BY <1>1 DEF At, Request, Idle

\* Every action leaves values of the right shape behind.
LEMMA TypeStep == TypeOK /\ [Next]_vars => TypeOK'
<1> SUFFICES ASSUME TypeOK, [Next]_vars PROVE TypeOK'
  OBVIOUS
<1> USE DEF TypeOK
<1>1. ASSUME NEW w \in Workers, NEW p \in People, NEW k \in Kvks,
             NEW named \in BOOLEAN, GetOverview(w, p, k, named)
      PROVE  TypeOK'
  <2> DEFINE r == [at |-> IF k \in DOMAIN orgs THEN "name" ELSE "create",
                   who |-> p, org |-> k, named |-> named]
  <2>1. r \in Request
    BY DEF Request
  <2>2. reqs' = [reqs EXCEPT ![w] = r]
    BY <1>1 DEF GetOverview, Goto
  <2>3. reqs' \in [Workers -> {Idle} \cup Request]
    BY <2>1, <2>2
  <2> QED
    BY <1>1, <2>3 DEF GetOverview
<1>2. ASSUME NEW w \in Workers, NEW k \in Kvks, NEW a \in Aliases,
             NEW p \in People, CreateIdpConnection(w, p, k, a)
      PROVE  TypeOK'
  <2>1. [at |-> "provision", org |-> k, alias |-> a] \in Request
    BY DEF Request
  <2>2. reqs' \in [Workers -> {Idle} \cup Request]
    BY <1>2, <2>1 DEF CreateIdpConnection, Goto
  <2> QED
    BY <1>2, <2>2 DEF CreateIdpConnection
<1>3. ASSUME NEW w \in Workers, FillName(w) PROVE TypeOK'
  <2>1. reqs[w].org \in Kvks
    BY <1>3, RequestFields DEF FillName
  <2>2. \A k \in DOMAIN orgs : orgs'[k] \in Org
    BY <1>3 DEF FillName, Org
  <2>3. DOMAIN orgs' = DOMAIN orgs
    BY <1>3 DEF FillName
  <2>4. reqs' \in [Workers -> {Idle} \cup Request]
    BY <1>3 DEF FillName, Goto
  <2> QED
    BY <1>3, <2>2, <2>3, <2>4 DEF FillName
<1>4. ASSUME NEW w \in Workers, CreateOrganization(w) PROVE TypeOK'
  <2>1. /\ reqs[w].who \in People /\ reqs[w].org \in Kvks
        /\ reqs[w].named \in BOOLEAN /\ reqs[w].at = "create"
    BY <1>4, RequestFields DEF CreateOrganization, At
  <2>2. [by |-> reqs[w].who, named |-> reqs[w].named] \in Org
    BY <2>1 DEF Org
  <2>3. DOMAIN orgs' = DOMAIN orgs \cup {reqs[w].org}
    BY <1>4 DEF CreateOrganization
  <2>4. \A k \in DOMAIN orgs' : orgs'[k] \in Org
    BY <1>4, <2>2, <2>3 DEF CreateOrganization
  <2>5. [reqs[w] EXCEPT !.at = "owner"] \in Request
    <3>1. reqs[w] \in [at : {"name", "create", "owner"}, who : People,
                       org : Kvks, named : BOOLEAN]
      BY <2>1 DEF Request, Idle
    <3> QED
      BY <3>1 DEF Request
  <2>6. reqs' \in [Workers -> {Idle} \cup Request]
    BY <1>4, <2>5 DEF CreateOrganization, Goto
  <2> QED
    BY <1>4, <2>1, <2>3, <2>4, <2>6 DEF CreateOrganization
<1>5. ASSUME NEW w \in Workers, CreateOwner(w) PROVE TypeOK'
  <2>1. reqs[w].who \in People /\ reqs[w].org \in Kvks
    BY <1>5, RequestFields DEF CreateOwner
  <2>2. [org |-> reqs[w].org, subject |-> reqs[w].who,
         email |-> EmailOf[reqs[w].who], role |-> "owner",
         by |-> reqs[w].who] \in Member
    BY <2>1 DEF Member, Emails
  <2>3. reqs' \in [Workers -> {Idle} \cup Request]
    BY <1>5 DEF CreateOwner, Goto
  <2> QED
    BY <1>5, <2>2, <2>3 DEF CreateOwner
<1>6. ASSUME NEW p \in People, NEW k \in Kvks, NEW e \in Emails,
             NEW role \in {"owner", "contributor"}, CreateMember(p, k, e, role)
      PROVE  TypeOK'
  <2>1. [org |-> k, subject |-> Nobody, email |-> e, role |-> role,
         by |-> p] \in Member
    BY DEF Member
  <2> QED
    BY <1>6, <2>1 DEF CreateMember
<1>7. ASSUME NEW w \in Workers, provisionKeycloakIdp(w) PROVE TypeOK'
  <2>1. /\ reqs[w].alias \in Aliases /\ reqs[w].at = "provision"
    BY <1>7, RequestFields DEF provisionKeycloakIdp, At
  <2>2. [reqs[w] EXCEPT !.at = "connect"] \in Request
    <3>1. reqs[w] \in [at : {"provision", "connect"}, org : Kvks,
                       alias : Aliases]
      BY <2>1 DEF Request, Idle
    <3> QED
      BY <3>1 DEF Request
  <2>3. reqs' \in [Workers -> {Idle} \cup Request]
    BY <1>7, <2>2 DEF provisionKeycloakIdp, Goto
  <2> QED
    BY <1>7, <2>1, <2>3 DEF provisionKeycloakIdp
<1>8. ASSUME NEW w \in Workers, ProvisioningFails(w) PROVE TypeOK'
  <2>1. reqs[w].alias \in Aliases
    BY <1>8, RequestFields DEF ProvisioningFails
  <2>2. reqs' \in [Workers -> {Idle} \cup Request]
    BY <1>8 DEF ProvisioningFails, Goto
  <2> QED
    BY <1>8, <2>1, <2>2 DEF ProvisioningFails
<1>9. ASSUME NEW w \in Workers, CreateConnection(w) PROVE TypeOK'
  <2>1. [org |-> reqs[w].org, alias |-> reqs[w].alias] \in Connection
    BY <1>9, RequestFields DEF CreateConnection, Connection
  <2>2. reqs' \in [Workers -> {Idle} \cup Request]
    BY <1>9 DEF CreateConnection, Goto
  <2> QED
    BY <1>9, <2>1, <2>2 DEF CreateConnection
<1>10. ASSUME NEW w \in Workers, InsertFails(w) PROVE TypeOK'
  BY <1>10 DEF InsertFails, Goto
<1>11. ASSUME NEW a \in Aliases, CreateIdp(a) \/ DeleteIdp(a) PROVE TypeOK'
  BY <1>11 DEF CreateIdp, DeleteIdp
<1>12. CASE UNCHANGED vars
  BY <1>12 DEF vars
<1> QED
  BY <1>1, <1>2, <1>3, <1>4, <1>5, <1>6, <1>7, <1>8, <1>9, <1>10, <1>11,
     <1>12 DEF Next

\* What the requests rely on stays true while they wait: records, providers and
\* deletions are never taken back, and no record changes its founder.
LEMMA BackedStep ==
    TypeOK /\ RequestsAreBacked /\ [Next]_vars => RequestsAreBacked'
<1> SUFFICES ASSUME TypeOK, RequestsAreBacked, [Next]_vars,
                    NEW v \in Workers
             PROVE  /\ At(v, "create")' =>
                         reqs'[v].org \in Represents[reqs'[v].who]
                    /\ At(v, "name")' => reqs'[v].org \in DOMAIN orgs'
                    /\ At(v, "owner")' =>
                         /\ reqs'[v].org \in DOMAIN orgs'
                         /\ orgs'[reqs'[v].org].by = reqs'[v].who
                    /\ At(v, "connect")' =>
                         reqs'[v].alias \in realm' \cup deleted'
  BY DEF RequestsAreBacked, At
<1> DEFINE Goal ==
      /\ At(v, "create")' => reqs'[v].org \in Represents[reqs'[v].who]
      /\ At(v, "name")' => reqs'[v].org \in DOMAIN orgs'
      /\ At(v, "owner")' => /\ reqs'[v].org \in DOMAIN orgs'
                            /\ orgs'[reqs'[v].org].by = reqs'[v].who
      /\ At(v, "connect")' => reqs'[v].alias \in realm' \cup deleted'
<1>1. /\ reqs \in [Workers -> {Idle} \cup Request]
      /\ \A k \in DOMAIN orgs : orgs[k] \in Org
  BY DEF TypeOK
<1>2. ASSUME NEW w \in Workers, NEW p \in People, NEW k \in Kvks,
             NEW named \in BOOLEAN, GetOverview(w, p, k, named)
      PROVE  Goal
  BY <1>1, <1>2 DEF GetOverview, Goto, At, RequestsAreBacked
<1>3. ASSUME NEW w \in Workers, NEW k \in Kvks, NEW a \in Aliases,
             NEW p \in People, CreateIdpConnection(w, p, k, a)
      PROVE  Goal
  BY <1>1, <1>3 DEF CreateIdpConnection, Goto, At, RequestsAreBacked
<1>4. ASSUME NEW w \in Workers, FillName(w) PROVE Goal
  <2>1. /\ DOMAIN orgs' = DOMAIN orgs
        /\ \A k \in DOMAIN orgs : orgs'[k].by = orgs[k].by
    BY <1>1, <1>4 DEF FillName, Org
  <2> QED
    BY <1>1, <1>4, <2>1 DEF FillName, Goto, At, RequestsAreBacked
<1>5. ASSUME NEW w \in Workers, CreateOrganization(w) PROVE Goal
  <2>1. /\ DOMAIN orgs' = DOMAIN orgs \cup {reqs[w].org}
        /\ \A k \in DOMAIN orgs : orgs'[k] = orgs[k]
        /\ orgs'[reqs[w].org].by = reqs[w].who
    BY <1>5 DEF CreateOrganization
  <2>2. CASE v = w
    <3>1. reqs[w] \in [at : {"name", "create", "owner"}, who : People,
                       org : Kvks, named : BOOLEAN]
      BY <1>1, <1>5 DEF CreateOrganization, At, Request, Idle
    <3>2. /\ reqs'[v].at = "owner" /\ reqs'[v].who = reqs[w].who
          /\ reqs'[v].org = reqs[w].org
      BY <1>1, <1>5, <2>2, <3>1 DEF CreateOrganization, Goto
    <3> QED
      BY <2>1, <3>2 DEF At
  <2>3. CASE v # w
    <3>1. reqs'[v] = reqs[v]
      BY <1>1, <1>5, <2>3 DEF CreateOrganization, Goto
    <3> QED
      BY <1>5, <2>1, <3>1 DEF CreateOrganization, At, RequestsAreBacked
  <2> QED
    BY <2>2, <2>3
<1>6. ASSUME NEW w \in Workers,
             CreateOwner(w) \/ CreateConnection(w) \/ InsertFails(w)
      PROVE  Goal
  BY <1>1, <1>6 DEF CreateOwner, CreateConnection, InsertFails, Goto, At,
                    RequestsAreBacked
<1>7. ASSUME NEW w \in Workers, provisionKeycloakIdp(w) PROVE Goal
  <2>1. CASE v = w
    <3>1. reqs[w] \in [at : {"provision", "connect"}, org : Kvks,
                       alias : Aliases]
      BY <1>1, <1>7 DEF provisionKeycloakIdp, At, Request, Idle
    <3>2. reqs'[v].at = "connect" /\ reqs'[v].alias = reqs[w].alias
      BY <1>1, <1>7, <2>1, <3>1 DEF provisionKeycloakIdp, Goto
    <3> QED
      BY <1>7, <3>2 DEF provisionKeycloakIdp, At
  <2>2. CASE v # w
    <3>1. reqs'[v] = reqs[v]
      BY <1>1, <1>7, <2>2 DEF provisionKeycloakIdp, Goto
    <3> QED
      BY <1>7, <3>1 DEF provisionKeycloakIdp, At, RequestsAreBacked
  <2> QED
    BY <2>1, <2>2
<1>8. ASSUME NEW w \in Workers, ProvisioningFails(w) PROVE Goal
  BY <1>1, <1>8 DEF ProvisioningFails, Goto, At, RequestsAreBacked
<1>9. ASSUME NEW p \in People, NEW k \in Kvks, NEW e \in Emails,
             NEW role \in {"owner", "contributor"}, CreateMember(p, k, e, role)
      PROVE  Goal
  BY <1>9 DEF CreateMember, At, RequestsAreBacked
<1>10. ASSUME NEW a \in Aliases, CreateIdp(a) \/ DeleteIdp(a) PROVE Goal
  BY <1>10 DEF CreateIdp, DeleteIdp, At, RequestsAreBacked
<1>11. CASE UNCHANGED vars
  BY <1>11 DEF vars, At, RequestsAreBacked
<1> QED
  BY <1>2, <1>3, <1>4, <1>5, <1>6, <1>7, <1>8, <1>9, <1>10, <1>11 DEF Next

\* A record stays, with the person it was verified by.
LEMMA RecordsStay ==
    TypeOK /\ [Next]_vars =>
      /\ DOMAIN orgs \subseteq DOMAIN orgs'
      /\ \A k \in DOMAIN orgs : orgs'[k].by = orgs[k].by
<1> SUFFICES ASSUME TypeOK, [Next]_vars
             PROVE  /\ DOMAIN orgs \subseteq DOMAIN orgs'
                    /\ \A k \in DOMAIN orgs : orgs'[k].by = orgs[k].by
  OBVIOUS
<1>1. \A k \in DOMAIN orgs : orgs[k] \in Org
  BY DEF TypeOK
<1>2. ASSUME NEW w \in Workers, FillName(w)
      PROVE  /\ DOMAIN orgs' = DOMAIN orgs
             /\ \A k \in DOMAIN orgs : orgs'[k].by = orgs[k].by
  BY <1>1, <1>2 DEF FillName, Org
<1>3. ASSUME NEW w \in Workers, CreateOrganization(w)
      PROVE  /\ DOMAIN orgs \subseteq DOMAIN orgs'
             /\ \A k \in DOMAIN orgs : orgs'[k] = orgs[k]
  BY <1>3 DEF CreateOrganization
<1>4. (\A w \in Workers : ~FillName(w) /\ ~CreateOrganization(w))
        => UNCHANGED orgs
  BY DEF Next, vars, GetOverview, CreateIdpConnection, CreateOwner,
         provisionKeycloakIdp, ProvisioningFails, CreateConnection,
         InsertFails, CreateMember, CreateIdp, DeleteIdp
<1> QED
  BY <1>2, <1>3, <1>4

\* Members are only added: by the second insert of the first session, or by an
\* owner.
LEMMA MembersComeIn ==
    TypeOK /\ [Next]_vars =>
      \/ members' = members
      \/ \E w \in Workers : CreateOwner(w)
      \/ \E p \in People, k \in Kvks, e \in Emails,
            role \in {"owner", "contributor"} : CreateMember(p, k, e, role)
BY DEF Next, vars, GetOverview, CreateIdpConnection, FillName,
       CreateOrganization, provisionKeycloakIdp, ProvisioningFails,
       CreateConnection, InsertFails, CreateIdp, DeleteIdp

\* An organisation's first member is its founder, and stays the only one.
LEMMA FounderStep ==
    IInv /\ [Next]_vars => FounderComesFirst'
<1> SUFFICES ASSUME IInv, [Next]_vars PROVE FounderComesFirst'
  OBVIOUS
<1>1. /\ DOMAIN orgs \subseteq DOMAIN orgs'
      /\ \A k \in DOMAIN orgs : orgs'[k].by = orgs[k].by
  BY RecordsStay DEF IInv
<1>2. FounderComesFirst
  BY DEF IInv
<1>3. CASE members' = members
  BY <1>1, <1>2, <1>3 DEF FounderComesFirst
<1>4. ASSUME NEW w \in Workers, CreateOwner(w) PROVE FounderComesFirst'
  <2> DEFINE n == [org |-> reqs[w].org, subject |-> reqs[w].who,
                   email |-> EmailOf[reqs[w].who], role |-> "owner",
                   by |-> reqs[w].who]
  <2>1. members' = members \cup {n}
    BY <1>4 DEF CreateOwner
  <2>2. n.org \in DOMAIN orgs /\ orgs[n.org].by = n.subject
    BY <1>4 DEF IInv, RequestsAreBacked, CreateOwner
  <2>3. n.subject # Nobody
    BY <1>4, RequestFields, NobodyIsNoPerson DEF IInv, CreateOwner
  <2> QED
    BY <1>1, <1>2, <2>1, <2>2, <2>3 DEF FounderComesFirst
<1>5. ASSUME NEW p \in People, NEW k \in Kvks, NEW e \in Emails,
             NEW role \in {"owner", "contributor"}, CreateMember(p, k, e, role)
      PROVE  FounderComesFirst'
  <2> DEFINE n == [org |-> k, subject |-> Nobody, email |-> e, role |-> role,
                   by |-> p]
  <2>1. members' = members \cup {n}
    BY <1>5 DEF CreateMember
  <2>2. PICK m \in members : m.org = k
    BY <1>5 DEF CreateMember, actorOwnsOrganization
  <2>3. PICK f \in members : f.org = k /\ f.subject # Nobody
    BY <1>2, <2>2 DEF FounderComesFirst
  <2>4. n.org \in DOMAIN orgs /\ n.subject = Nobody
    BY <1>2, <2>2 DEF FounderComesFirst
  <2> QED
    BY <1>1, <1>2, <2>1, <2>3, <2>4 DEF FounderComesFirst
<1> QED
  BY <1>3, <1>4, <1>5, MembersComeIn DEF IInv

\* A set that is closed after a step was closed before it: members and records
\* only come, and so do the demands on the set.
LEMMA ClosedBefore ==
    ASSUME TypeOK, [Next]_vars, NEW S \in SUBSET People, NEW k \in Kvks,
           ClosedUnderInvitation(S, k)'
    PROVE  ClosedUnderInvitation(S, k)
<1>1. /\ DOMAIN orgs \subseteq DOMAIN orgs'
      /\ \A l \in DOMAIN orgs : orgs'[l].by = orgs[l].by
  BY RecordsStay
<1>2. members \subseteq members'
  BY MembersComeIn DEF CreateOwner, CreateMember
<1> QED
  BY <1>1, <1>2 DEF ClosedUnderInvitation, Names

\* The chain of invitations reaches whoever a step lets in.
LEMMA RootedStep ==
    IInv /\ [Next]_vars => DelegationIsRooted'
<1> SUFFICES ASSUME IInv, [Next]_vars PROVE DelegationIsRooted'
  OBVIOUS
<1> USE DEF IInv
<1>1. \A k \in DOMAIN orgs' : k \in Represents[orgs'[k].by]
  <2>1. ASSUME NEW w \in Workers, CreateOrganization(w)
        PROVE  \A k \in DOMAIN orgs' : k \in Represents[orgs'[k].by]
    BY <2>1 DEF CreateOrganization, RequestsAreBacked, DelegationIsRooted
  <2>2. (\A w \in Workers : ~CreateOrganization(w))
          => DOMAIN orgs' = DOMAIN orgs
    BY DEF Next, vars, FillName, GetOverview, CreateIdpConnection, CreateOwner,
           provisionKeycloakIdp, ProvisioningFails, CreateConnection,
           InsertFails, CreateMember, CreateIdp, DeleteIdp
  <2> QED
    BY <2>1, <2>2, RecordsStay DEF DelegationIsRooted
<1>2. ASSUME NEW k \in Kvks, NEW p \in People, userCanActForKvk(p, k)',
             NEW S \in SUBSET People, ClosedUnderInvitation(S, k)'
      PROVE  p \in S
  <2>1. ClosedUnderInvitation(S, k)
    BY <1>2, ClosedBefore
  <2>2. \A q \in People : userCanActForKvk(q, k) => q \in S
    BY <2>1 DEF DelegationIsRooted
  <2>3. PICK m \in members' : m.org = k /\ Names(m, p)
    BY <1>2 DEF userCanActForKvk, Names
  <2>4. CASE m \in members
    BY <2>2, <2>3, <2>4 DEF userCanActForKvk
  <2>5. ASSUME NEW w \in Workers, CreateOwner(w), m \notin members PROVE p \in S
    <3>1. m.by = reqs[w].who /\ reqs[w].org = k
      BY <2>3, <2>5 DEF CreateOwner
    <3>2. k \in DOMAIN orgs /\ orgs[k].by = m.by
      BY <2>5, <3>1 DEF CreateOwner, RequestsAreBacked
    <3>3. m.by \in S
      BY <2>1, <3>2 DEF ClosedUnderInvitation
    <3> QED
      BY <1>2, <2>3, <3>3 DEF ClosedUnderInvitation, Names
  <2>6. ASSUME NEW q \in People, NEW l \in Kvks, NEW e \in Emails,
               NEW role \in {"owner", "contributor"},
               CreateMember(q, l, e, role), m \notin members
        PROVE  p \in S
    <3>1. m.by = q /\ l = k
      BY <2>3, <2>6 DEF CreateMember
    <3>2. userCanActForKvk(q, k)
      BY <2>6, <3>1 DEF CreateMember, actorOwnsOrganization, userCanActForKvk
    <3>3. m.by \in S
      BY <2>2, <3>1, <3>2
    <3> QED
      BY <1>2, <2>3, <3>3 DEF ClosedUnderInvitation, Names
  <2> QED
    BY <2>3, <2>4, <2>5, <2>6, MembersComeIn
<1> QED
  BY <1>1, <1>2 DEF DelegationIsRooted

\* A stored connection's provider goes only when an administrator deletes it.
LEMMA ProviderStep ==
    IInv /\ [Next]_vars => ConnectionHasProvider'
<1> SUFFICES ASSUME IInv, [Next]_vars PROVE ConnectionHasProvider'
  OBVIOUS
<1> USE DEF IInv
<1>1. realm \cup deleted \subseteq realm' \cup deleted'
  BY DEF Next, vars, FillName, GetOverview, CreateIdpConnection, CreateOwner,
         CreateOrganization, provisionKeycloakIdp, ProvisioningFails,
         CreateConnection, InsertFails, CreateMember, CreateIdp, DeleteIdp
<1>2. ASSUME NEW w \in Workers, CreateConnection(w) PROVE ConnectionHasProvider'
  BY <1>1, <1>2 DEF CreateConnection, RequestsAreBacked, ConnectionHasProvider
<1>3. (\A w \in Workers : ~CreateConnection(w)) => connections' = connections
  BY DEF Next, vars, FillName, GetOverview, CreateIdpConnection, CreateOwner,
         CreateOrganization, provisionKeycloakIdp, ProvisioningFails,
         InsertFails, CreateMember, CreateIdp, DeleteIdp
<1> QED
  BY <1>1, <1>2, <1>3 DEF ConnectionHasProvider

\* The strengthened invariant holds in every reachable state.
THEOREM Invariance == Spec => []IInv
<1>1. IInv /\ [Next]_vars => IInv'
  BY TypeStep, BackedStep, RootedStep, FounderStep, ProviderStep DEF IInv
<1> QED
  BY InitIInv, <1>1, PTL DEF Spec

\* Every variable keeps its type for any constants.
THEOREM DelegationTypes == Spec => []TypeOK
<1>1. IInv => TypeOK
  BY DEF IInv
<1> QED
  BY Invariance, <1>1, PTL

\* Whoever may act for an organisation was let in along a chain from a person
\* eHerkenning proved to represent it: userCanActForKvk never says more than
\* the owners did.
THEOREM RootedDelegation == Spec => []DelegationIsRooted
<1>1. IInv => DelegationIsRooted
  BY DEF IInv
<1> QED
  BY Invariance, <1>1, PTL

\* However many first sessions race in ensureVerifiedOrganization, one founds
\* the organisation, and nobody is a member before its owner row is there.
THEOREM OneFounder == Spec => []FounderComesFirst
<1>1. IInv => FounderComesFirst
  BY DEF IInv
<1> QED
  BY Invariance, <1>1, PTL

\* A row of organization_idp_connections has a provider in the realm behind it,
\* unless an administrator deleted the provider.
THEOREM ProvidersBehindConnections == Spec => []ConnectionHasProvider
<1>1. IInv => ConnectionHasProvider
  BY DEF IInv
<1> QED
  BY Invariance, <1>1, PTL
=============================================================================
