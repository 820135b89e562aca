-------------------------- MODULE OnboardingProofs --------------------------
(* Proofs about Onboarding, for any number of requests, proposals, papers    *)
(* and registrations: types, what is registered before anything says so, the *)
(* papers, what a registration carries, what a signature leaves, where a     *)
(* registered id comes from, and that the request-level workflow implements  *)
(* the registrar's view of it in ProposalLifecycle.                          *)
EXTENDS Onboarding, PartyIdProofs, FiniteSetTheorems

-----------------------------------------------------------------------------
(* Type correctness                                                          *)

\* What the wizard sends is a party id and a certificate of the model.
LEMMA SubmissionTypes ==
    ASSUME NEW s \in Submissions
    PROVE  s.party \in PartyId /\ s.cert \in Certs
BY WellTypedSubmissions DEF Certs

\* A row's certificate is one somebody submitted.
LEMMA CertTypes == Certs \subseteq PartyId \cup {NoCert, BadCert}
BY WellTypedSubmissions DEF Certs

\* A row of a well typed table has the type of a row.
LEMMA RowAt ==
    ASSUME TypeOK, NEW i \in DOMAIN rows
    PROVE  rows[i] \in Row /\ i \in 1..MaxProposals
BY Bounds DEF TypeOK

\* A request in progress has the fields of a request and refers to a row.
LEMMA RequestAt ==
    ASSUME TypeOK, NEW w \in Workers, reqs[w] # Idle
    PROVE  reqs[w] \in Request /\ reqs[w].id \in DOMAIN rows /\ reqs[w].row \in Row
BY DEF TypeOK, Request

\* Reading a row and taking a changed copy of it keeps the types.
LEMMA BeginType ==
    ASSUME TypeOK, NEW w \in Workers, NEW i \in DOMAIN rows, NEW op \in Ops,
           NEW stage \in Stages, NEW row \in Row, Begin(w, op, stage, i, row),
           rows' = rows
    PROVE  /\ reqs' \in [Workers -> {Idle} \cup Request]
           /\ \A v \in Workers : reqs'[v] # Idle => reqs'[v].id \in DOMAIN rows'
<1> DEFINE new == [op |-> op, stage |-> stage, id |-> i, row |-> row]
<1>1. new \in Request /\ new.id = i
  BY RowAt DEF Request
<1>2. reqs' = [reqs EXCEPT ![w] = new]
  BY DEF Begin
<1> HIDE DEF new
<1> QED BY <1>1, <1>2 DEF TypeOK

\* Ending a request keeps the table of requests well typed.
LEMMA EndType ==
    ASSUME TypeOK, NEW w \in Workers, reqs' = [reqs EXCEPT ![w] = Idle],
           DOMAIN rows' = DOMAIN rows
    PROVE  /\ reqs' \in [Workers -> {Idle} \cup Request]
           /\ \A v \in Workers : reqs'[v] # Idle => reqs'[v].id \in DOMAIN rows'
BY DEF TypeOK

\* Writing a well typed copy over a row keeps the table well typed.
LEMMA SaveType ==
    ASSUME TypeOK, NEW i \in DOMAIN rows, NEW row \in Row,
           rows' = [rows EXCEPT ![i] = row]
    PROVE  /\ rows' \in Seq(Row) /\ Len(rows') = Len(rows)
           /\ DOMAIN rows' = DOMAIN rows
           /\ rows'[i] = row
           /\ \A j \in DOMAIN rows : j # i => rows'[j] = rows[j]
<1>1. rows \in Seq(Row) /\ i \in 1..Len(rows)
  BY DEF TypeOK
<1> QED BY <1>1, ExceptSeq

\* What a completion posts for a well typed row is a registration.
LEMMA RegistrationType ==
    ASSUME TypeOK, NEW i \in 1..MaxProposals, NEW row \in Row
    PROVE  /\ RegistrationOf(i, row) \in Registration
           /\ RegistryId(Version, row.party, row.cert) \in PartyId
<1>1. row.party \in PartyId /\ row.cert \in PartyId \cup {NoCert, BadCert}
  BY CertTypes DEF Row
<1>2. RegistryId(Version, row.party, row.cert) \in PartyId
  BY <1>1, RegistryIdType, KnownVersion
<1> QED BY <1>2 DEF RegistrationOf, Registration, Row

\* The empty tables a server starts with are well typed.
THEOREM InitType == Init => TypeOK
BY Bounds DEF Init, TypeOK, Idle

\* HandlePropose adds a well typed row, aligned id included.
LEMMA ProposeType ==
    ASSUME TypeOK, NEW u \in Applicants, NEW s \in Submissions,
           NEW status \in {"pending", "signed"}, HandlePropose(u, s, status)
    PROVE  TypeOK'
<1> DEFINE party == alignPartyIDWithCertificate(s.party, s.cert)
           new == [owner |-> u, status |-> status, party |-> party,
                   cert |-> s.cert, via |-> "", papers |-> {},
                   assertion |-> FALSE, submitted |-> party]
<1>1. party \in PartyId /\ s.cert \in Certs
  BY SubmissionTypes, CertTypes, AlignType
<1>2. new \in Row
  BY <1>1 DEF Row, Status
<1>3. rows' = Append(rows, new) /\ Len(rows) < MaxProposals
  BY DEF HandlePropose
<1> HIDE DEF new
<1>4. rows \in Seq(Row)
  BY DEF TypeOK
<1>5. /\ rows' \in Seq(Row) /\ Len(rows') = Len(rows) + 1
      /\ DOMAIN rows \subseteq DOMAIN rows'
  BY <1>2, <1>3, <1>4
<1>6. Len(rows') <= MaxProposals
  BY <1>3, <1>4, <1>5, Bounds
<1> QED BY <1>5, <1>6 DEF TypeOK, HandlePropose

\* ApproveProposal and RejectProposal take a well typed copy.
LEMMA DecideType ==
    ASSUME TypeOK, NEW w \in Workers, NEW i \in DOMAIN rows,
           ApproveProposal(w, i) \/ RejectProposal(w, i)
    PROVE  TypeOK'
<1>1. \A st \in Status : [rows[i] EXCEPT !.status = st] \in Row
  BY RowAt DEF Row
<1>2. CASE ApproveProposal(w, i)
  <2>1. [rows[i] EXCEPT !.status = "approved"] \in Row
    BY <1>1 DEF Status
  <2> QED BY <1>2, <2>1, BeginType DEF ApproveProposal, TypeOK, Ops, Stages
<1>3. CASE RejectProposal(w, i)
  <2>1. [rows[i] EXCEPT !.status = "rejected"] \in Row
    BY <1>1 DEF Status
  <2> QED BY <1>3, <2>1, BeginType DEF RejectProposal, TypeOK, Ops, Stages
<1> QED BY <1>2, <1>3

\* SignProposal by eHerkenning consent takes a well typed copy.
LEMMA EherkenningType ==
    ASSUME TypeOK, NEW w \in Workers, NEW caller \in Users,
           NEW owner \in Applicants, NEW i \in DOMAIN rows,
           SignWithEherkenning(w, caller, owner, i)
    PROVE  TypeOK'
<1>1. [rows[i] EXCEPT !.assertion = TRUE, !.papers = {},
                      !.via = "eherkenning", !.status = "signed"] \in Row
  BY RowAt DEF Row, Status
<1> QED BY <1>1, BeginType DEF SignWithEherkenning, TypeOK, Ops, Stages

\* SignProposal with uploads names only files of the model.
LEMMA ManualType ==
    ASSUME TypeOK, NEW w \in Workers, NEW caller \in Users,
           NEW owner \in Applicants, NEW i \in DOMAIN rows, NEW n \in Files,
           SignManually(w, caller, owner, i, n)
    PROVE  TypeOK'
<1>1. FreshNames(n) \subseteq Files /\ uploads + n \in 0..MaxFiles
  BY Bounds DEF SignManually, FreshNames, Files, TypeOK
<1>2. [rows[i] EXCEPT !.papers = FreshNames(n), !.via = "manual",
                      !.status = "signed"] \in Row
  BY <1>1, RowAt DEF Row, Status
<1> QED BY <1>1, <1>2, BeginType DEF SignManually, TypeOK, Ops, Stages

\* ModifyProposal takes the submitted id into a well typed copy.
LEMMA ModifyType ==
    ASSUME TypeOK, NEW w \in Workers, NEW caller \in Users,
           NEW owner \in Applicants, NEW i \in DOMAIN rows,
           NEW s \in Submissions, ModifyProposal(w, caller, owner, i, s)
    PROVE  TypeOK'
<1>1. [rows[i] EXCEPT !.party = s.party, !.submitted = s.party,
                      !.status = "pending"] \in Row
  BY RowAt, SubmissionTypes DEF Row, Status
<1> QED BY <1>1, BeginType DEF ModifyProposal, TypeOK, Ops, Stages

\* CompleteProposal starts from the row as it is.
LEMMA CompleteType ==
    ASSUME TypeOK, NEW w \in Workers, NEW caller \in Users,
           NEW i \in DOMAIN rows, CompleteProposal(w, caller, i)
    PROVE  TypeOK'
BY RowAt, BeginType DEF CompleteProposal, TypeOK, Ops, Stages

\* The registry's answer puts a well typed id into the copy.
LEMMA AcceptType ==
    ASSUME TypeOK, NEW w \in Workers, RegistryAccepts(w)
    PROVE  TypeOK'
<1> DEFINE q == reqs[w]
           new == RegistrationOf(q.id, q.row)
<1>1. q \in Request /\ q.id \in DOMAIN rows /\ q.row \in Row
  BY RequestAt DEF RegistryAccepts, Posting
<1>2. new \in Registration /\ new.party \in PartyId
  BY <1>1, RowAt, RegistrationType DEF RegistrationOf
<1>3. registry' = registry \cup {new}
  BY DEF RegistryAccepts
<1>4. reqs' = [reqs EXCEPT ![w].row.party = new.party,
                           ![w].row.status = "completed", ![w].stage = "grant"]
  BY DEF RegistryAccepts
<1> HIDE DEF new
<1>5. [q EXCEPT !.row.party = new.party, !.row.status = "completed",
                !.stage = "grant"] \in Request
  BY <1>1, <1>2 DEF Request, Row, Status, Stages
<1>6. /\ reqs' \in [Workers -> {Idle} \cup Request]
      /\ \A v \in Workers : reqs'[v] # Idle => reqs'[v].id \in DOMAIN rows
  BY <1>1, <1>4, <1>5 DEF TypeOK, Request
<1> QED BY <1>2, <1>3, <1>6 DEF RegistryAccepts, TypeOK

\* A lost answer leaves a well typed registration behind.
LEMMA LostType ==
    ASSUME TypeOK, NEW w \in Workers, AnswerIsLost(w)
    PROVE  TypeOK'
<1>1. RegistrationOf(reqs[w].id, reqs[w].row) \in Registration
  BY RequestAt, RowAt, RegistrationType DEF AnswerIsLost, Posting
<1> QED BY <1>1, EndType DEF AnswerIsLost, TypeOK

\* grantOnboardingPartyAdmin stores an applicant and a party id.
LEMMA GrantType ==
    ASSUME TypeOK, NEW w \in Workers, GrantPartyAdmin(w)
    PROVE  TypeOK'
<1>1. reqs[w] \in Request /\ reqs[w].id \in DOMAIN rows
      /\ reqs[w].row.owner \in Applicants /\ reqs[w].row.party \in PartyId
  BY RequestAt DEF GrantPartyAdmin, Row
<1>2. [reqs[w] EXCEPT !.stage = "save"] \in Request
  BY <1>1 DEF Request, Stages
<1>3. /\ reqs' \in [Workers -> {Idle} \cup Request]
      /\ \A v \in Workers : reqs'[v] # Idle => reqs'[v].id \in DOMAIN rows
  BY <1>1, <1>2 DEF TypeOK, GrantPartyAdmin, Request
<1>4. /\ partyAdmin' \subseteq Applicants
      /\ partyAttr' \in [Applicants -> PartyId \cup {NoParty}]
  BY <1>1 DEF TypeOK, GrantPartyAdmin
<1> QED BY <1>3, <1>4 DEF GrantPartyAdmin, TypeOK

\* Saving, failing to save and failing to complete keep the types.
LEMMA SavingType ==
    ASSUME TypeOK, NEW w \in Workers, Save(w)
    PROVE  TypeOK'
<1>1. reqs[w].id \in DOMAIN rows /\ reqs[w].row \in Row
  BY RequestAt DEF Save, Saving
<1>2. /\ rows' \in Seq(Row) /\ Len(rows') = Len(rows)
      /\ DOMAIN rows' = DOMAIN rows
  BY <1>1, SaveType DEF Save
<1> QED BY <1>2, EndType DEF Save, TypeOK

\* Every step of the workflow keeps every variable in its type.
THEOREM TypeStep == TypeOK /\ [Next]_vars => TypeOK'
<1> SUFFICES ASSUME TypeOK, [Next]_vars PROVE TypeOK'
  OBVIOUS
<1>1. CASE Submit
  BY <1>1, ProposeType DEF Submit
<1>2. ASSUME NEW w \in Workers, Decide(w) PROVE TypeOK'
  BY <1>2, DecideType DEF Decide
<1>3. ASSUME NEW w \in Workers, Sign(w) PROVE TypeOK'
  BY <1>3, EherkenningType, ManualType DEF Sign
<1>4. ASSUME NEW w \in Workers, Modify(w) PROVE TypeOK'
  BY <1>4, ModifyType DEF Modify
<1>5. ASSUME NEW w \in Workers, Complete(w) PROVE TypeOK'
  BY <1>5, CompleteType DEF Complete
<1>6. ASSUME NEW w \in Workers, Proceed(w) PROVE TypeOK'
  <2>1. ASSUME CompletionFails(w) PROVE TypeOK'
    BY <2>1, EndType DEF CompletionFails, TypeOK
  <2>2. ASSUME SaveFails(w) PROVE TypeOK'
    BY <2>2, EndType DEF SaveFails, TypeOK
  <2> QED
    BY <1>6, <2>1, <2>2, AcceptType, LostType, GrantType, SavingType DEF Proceed
<1>7. CASE Crash
  BY <1>7 DEF Crash, TypeOK
<1>8. CASE UNCHANGED vars
  BY <1>8 DEF vars, TypeOK
<1> QED BY <1>1, <1>2, <1>3, <1>4, <1>5, <1>6, <1>7, <1>8 DEF Next

\* Every reachable state is well typed.
THEOREM TypeCorrect == Spec => []TypeOK
BY InitType, TypeStep, PTL DEF Spec

-----------------------------------------------------------------------------
(* A party is registered before anything says so                             *)

\* The strengthening: a completion whose answer arrived holds, in its copy, a
\* party the registry took on for that proposal and that owner; no other
\* request holds a completed copy it would write.
Registered(i, row) ==
    \E r \in registry :
      r.proposal = i /\ r.owner = row.owner /\ r.party = row.party

RequestOK(w) ==
    reqs[w] # Idle =>
      /\ reqs[w].stage # "save" => reqs[w].op = "complete"
      /\ reqs[w].op # "complete" => reqs[w].row.status # "completed"
      /\ (reqs[w].op = "complete" /\ reqs[w].stage # "post")
            => Registered(reqs[w].id, reqs[w].row)
RequestsOK == \A w \in Workers : RequestOK(w)

RegInv == RequestsOK /\ CompletedIsRegistered /\ PartyAttributeIsRegistered

\* With no row and no request, nothing can be ahead of the registry.
LEMMA RegInit == Init => RegInv
BY DEF Init, RegInv, RequestsOK, RequestOK, CompletedIsRegistered,
       PartyAttributeIsRegistered

\* A step that only reads a row, into a copy that is not completed.
LEMMA BeginReg ==
    ASSUME TypeOK, RegInv, NEW w \in Workers, NEW i \in DOMAIN rows,
           NEW op \in Ops, NEW stage \in Stages, NEW row \in Row,
           Begin(w, op, stage, i, row),
           op = "complete" => stage = "post",
           op # "complete" => stage = "save" /\ row.status # "completed",
           UNCHANGED <<rows, registry, partyAttr>>
    PROVE  RegInv'
<1> DEFINE new == [op |-> op, stage |-> stage, id |-> i, row |-> row]
<1>1. reqs' = [reqs EXCEPT ![w] = new]
  BY DEF Begin
<1>2. new.op = op /\ new.stage = stage /\ new.row = row
  OBVIOUS
<1> HIDE DEF new
<1>3. ASSUME NEW v \in Workers PROVE RequestOK(v)'
  <2>1. CASE v = w
    BY <1>1, <1>2, <2>1 DEF TypeOK, RequestOK
  <2>2. CASE v # w
    <3>1. reqs'[v] = reqs[v]
      BY <1>1, <2>2 DEF TypeOK
    <3> QED BY <3>1 DEF RegInv, RequestsOK, RequestOK, Registered
  <2> QED BY <2>1, <2>2
<1>4. CompletedIsRegistered' /\ PartyAttributeIsRegistered'
  BY DEF RegInv, CompletedIsRegistered, PartyAttributeIsRegistered
<1> QED BY <1>3, <1>4 DEF RegInv, RequestsOK

\* Requests that end, and registrations that are added, disturb nothing.
LEMMA EndReg ==
    ASSUME TypeOK, RegInv, NEW w \in Workers,
           reqs' = [reqs EXCEPT ![w] = Idle],
           registry \subseteq registry', UNCHANGED <<rows, partyAttr>>
    PROVE  RegInv'
<1>1. ASSUME NEW v \in Workers PROVE RequestOK(v)'
  <2>1. reqs'[v] = Idle \/ reqs'[v] = reqs[v]
    BY DEF TypeOK
  <2> QED BY <2>1 DEF RegInv, RequestsOK, RequestOK, Registered
<1>2. CompletedIsRegistered' /\ PartyAttributeIsRegistered'
  BY DEF RegInv, CompletedIsRegistered, PartyAttributeIsRegistered
<1> QED BY <1>1, <1>2 DEF RegInv, RequestsOK

\* A new row is not completed, so it owes the registry nothing.
LEMMA ProposeReg ==
    ASSUME TypeOK, RegInv, NEW u \in Applicants, NEW s \in Submissions,
           NEW status \in {"pending", "signed"}, HandlePropose(u, s, status)
    PROVE  RegInv'
<1> DEFINE party == alignPartyIDWithCertificate(s.party, s.cert)
           new == [owner |-> u, status |-> status, party |-> party,
                   cert |-> s.cert, via |-> "", papers |-> {},
                   assertion |-> FALSE, submitted |-> party]
<1>1. rows' = Append(rows, new) /\ new.status # "completed"
  BY DEF HandlePropose
<1> HIDE DEF new
<1>2. \A i \in DOMAIN rows' : rows'[i].status = "completed" =>
         i \in DOMAIN rows /\ rows'[i] = rows[i]
  <2>1. rows \in Seq(Row)
    BY DEF TypeOK
  <2> QED BY <1>1, <2>1
<1>3. CompletedIsRegistered'
  <2>1. registry' = registry
    BY DEF HandlePropose
  <2> QED BY <1>2, <2>1 DEF RegInv, CompletedIsRegistered
<1>4. RequestsOK' /\ PartyAttributeIsRegistered'
  BY DEF RegInv, RequestsOK, RequestOK, Registered, HandlePropose,
         PartyAttributeIsRegistered
<1> QED BY <1>3, <1>4 DEF RegInv

\* What the registry's answer changes in a request, and what it leaves.
LEMMA AcceptedRequest ==
    ASSUME TypeOK, NEW w \in Workers, RegistryAccepts(w)
    PROVE  /\ \A v \in Workers : v # w => reqs'[v] = reqs[v]
           /\ reqs'[w].op = reqs[w].op /\ reqs'[w].id = reqs[w].id /\ reqs'[w].stage = "grant"
           /\ reqs'[w].row.owner = reqs[w].row.owner /\ reqs'[w].row.via = reqs[w].row.via
           /\ reqs'[w].row.papers = reqs[w].row.papers
           /\ reqs'[w].row.assertion = reqs[w].row.assertion
           /\ reqs'[w].row.party = RegistrationOf(reqs[w].id, reqs[w].row).party
<1> DEFINE q == reqs[w]
           new == RegistrationOf(q.id, q.row)
           a == [q EXCEPT !.row.party = new.party]
           b == [a EXCEPT !.row.status = "completed"]
<1>1. /\ DOMAIN q = {"op", "stage", "id", "row"}
      /\ DOMAIN q.row = {"owner", "status", "party", "cert", "via", "papers",
                         "assertion", "submitted"}
  BY RequestAt DEF RegistryAccepts, Posting, Request, Row
<1>2. /\ \A v \in Workers : v # w => reqs'[v] = reqs[v]
      /\ reqs'[w] = [b EXCEPT !.stage = "grant"]
  BY DEF RegistryAccepts, TypeOK
<1> HIDE DEF q, new
<1>3. /\ DOMAIN a = DOMAIN q /\ a.op = q.op /\ a.id = q.id
      /\ a.row = [q.row EXCEPT !.party = new.party]
  BY <1>1
<1>4. /\ DOMAIN b = DOMAIN a /\ b.op = a.op /\ b.id = a.id
      /\ b.row = [a.row EXCEPT !.status = "completed"]
  BY <1>1, <1>3
<1> HIDE DEF a, b
<1>5. /\ reqs'[w].op = b.op /\ reqs'[w].id = b.id /\ reqs'[w].stage = "grant"
      /\ reqs'[w].row = b.row
  BY <1>1, <1>2, <1>3, <1>4
<1>6. /\ a.row.owner = q.row.owner /\ a.row.via = q.row.via /\ a.row.papers = q.row.papers
      /\ a.row.assertion = q.row.assertion /\ a.row.party = new.party
      /\ DOMAIN a.row = DOMAIN q.row
  BY <1>1, <1>3
<1>7. /\ b.row.owner = a.row.owner /\ b.row.via = a.row.via /\ b.row.papers = a.row.papers
      /\ b.row.assertion = a.row.assertion /\ b.row.party = a.row.party
  BY <1>1, <1>4, <1>6
<1> QED BY <1>2, <1>3, <1>4, <1>5, <1>6, <1>7 DEF q, new

\* A copy turns completed together with its registration.
LEMMA AcceptReg ==
    ASSUME TypeOK, RegInv, NEW w \in Workers, RegistryAccepts(w)
    PROVE  RegInv'
<1> DEFINE q == reqs[w]
           new == RegistrationOf(q.id, q.row)
<1>1. q \in Request /\ q # Idle /\ q.row \in Row
  BY RequestAt DEF RegistryAccepts, Posting
<1>2. /\ new.proposal = q.id /\ new.owner = q.row.owner
      /\ new \in registry' /\ registry \subseteq registry'
  BY DEF RegistryAccepts, RegistrationOf
<1>3. \A v \in Workers : v # w => reqs'[v] = reqs[v]
  BY AcceptedRequest
<1> HIDE DEF new
<1>4. q.op = "complete"
  BY <1>1 DEF RegInv, RequestsOK, RequestOK, RegistryAccepts, Posting
<1>5. /\ reqs'[w].op = "complete" /\ reqs'[w].stage = "grant"
      /\ reqs'[w].id = q.id /\ reqs'[w].row.owner = q.row.owner
      /\ reqs'[w].row.party = new.party
  BY <1>4, AcceptedRequest DEF new
<1>6. RequestOK(w)'
  BY <1>2, <1>5 DEF RequestOK, Registered
<1>7. ASSUME NEW v \in Workers, v # w PROVE RequestOK(v)'
  BY <1>2, <1>3, <1>7 DEF RegInv, RequestsOK, RequestOK, Registered
<1>8. CompletedIsRegistered' /\ PartyAttributeIsRegistered'
  BY <1>2 DEF RegInv, CompletedIsRegistered, PartyAttributeIsRegistered,
              RegistryAccepts
<1> QED BY <1>6, <1>7, <1>8 DEF RegInv, RequestsOK

\* The attribute granted is the id just registered for its owner.
LEMMA GrantReg ==
    ASSUME TypeOK, RegInv, NEW w \in Workers, GrantPartyAdmin(w)
    PROVE  RegInv'
<1> DEFINE q == reqs[w]
<1>1. q \in Request /\ q # Idle /\ q.row.owner \in Applicants
  BY RequestAt DEF GrantPartyAdmin, Row
<1>2. Registered(q.id, q.row) /\ q.op = "complete"
  BY <1>1 DEF RegInv, RequestsOK, RequestOK, GrantPartyAdmin
<1>3. /\ \A v \in Workers : v # w => reqs'[v] = reqs[v]
      /\ reqs'[w] = [q EXCEPT !.stage = "save"]
  BY <1>1 DEF GrantPartyAdmin, TypeOK
<1>4. ASSUME NEW v \in Workers PROVE RequestOK(v)'
  <2>1. CASE v = w
    BY <1>1, <1>2, <1>3, <2>1 DEF RequestOK, Registered, Request,
                                  GrantPartyAdmin
  <2>2. CASE v # w
    BY <1>3, <2>2 DEF RegInv, RequestsOK, RequestOK, Registered,
                      GrantPartyAdmin
  <2> QED BY <2>1, <2>2
<1>5. PartyAttributeIsRegistered'
  <2>1. CASE partyAttr' = partyAttr
    BY <2>1 DEF RegInv, PartyAttributeIsRegistered, GrantPartyAdmin
  <2>2. CASE partyAttr' = [partyAttr EXCEPT ![q.row.owner] = q.row.party]
    BY <1>1, <1>2, <2>2 DEF RegInv, PartyAttributeIsRegistered, Registered,
                            GrantPartyAdmin, TypeOK
  <2> QED BY <2>1, <2>2 DEF GrantPartyAdmin
<1>6. CompletedIsRegistered'
  BY DEF RegInv, CompletedIsRegistered, GrantPartyAdmin
<1> QED BY <1>4, <1>5, <1>6 DEF RegInv, RequestsOK

\* A completed copy is saved only over the row it was registered for.
LEMMA SaveReg ==
    ASSUME TypeOK, RegInv, NEW w \in Workers, Save(w)
    PROVE  RegInv'
<1> DEFINE q == reqs[w]
<1>1. q \in Request /\ q # Idle /\ q.id \in DOMAIN rows /\ q.row \in Row
  BY RequestAt DEF Save, Saving
<1>2. /\ DOMAIN rows' = DOMAIN rows /\ rows'[q.id] = q.row
      /\ \A j \in DOMAIN rows : j # q.id => rows'[j] = rows[j]
  BY <1>1, SaveType DEF Save
<1>3. q.row.status = "completed" => Registered(q.id, q.row)
  BY <1>1 DEF RegInv, RequestsOK, RequestOK, Save, Saving
<1>4. CompletedIsRegistered'
  BY <1>2, <1>3 DEF RegInv, CompletedIsRegistered, Registered, Save
<1>5. ASSUME NEW v \in Workers PROVE RequestOK(v)'
  <2>1. reqs'[v] = Idle \/ reqs'[v] = reqs[v]
    BY DEF TypeOK, Save
  <2> QED BY <2>1 DEF RegInv, RequestsOK, RequestOK, Registered, Save
<1>6. PartyAttributeIsRegistered'
  BY DEF RegInv, PartyAttributeIsRegistered, Save
<1> QED BY <1>4, <1>5, <1>6 DEF RegInv, RequestsOK

\* Every step keeps completed rows, completed copies and granted
\* attributes behind the registry: nothing is ever completed ahead of it.
THEOREM RegStep == TypeOK /\ RegInv /\ [Next]_vars => RegInv'
<1> SUFFICES ASSUME TypeOK, RegInv, [Next]_vars PROVE RegInv'
  OBVIOUS
<1>1. CASE Submit
  BY <1>1, ProposeReg DEF Submit
<1>2. ASSUME NEW w \in Workers, Decide(w) PROVE RegInv'
  <2>1. PICK i \in DOMAIN rows : ApproveProposal(w, i) \/ RejectProposal(w, i)
    BY <1>2 DEF Decide
  <2>2. \A st \in Status : /\ [rows[i] EXCEPT !.status = st] \in Row
                           /\ [rows[i] EXCEPT !.status = st].status = st
    BY RowAt DEF Row
  <2> QED
    BY <2>1, <2>2, BeginReg
    DEF ApproveProposal, RejectProposal, Ops, Stages, Status
<1>3. ASSUME NEW w \in Workers, Sign(w) PROVE RegInv'
  <2>1. ASSUME NEW caller \in Users, NEW owner \in Applicants,
               NEW i \in DOMAIN rows, SignWithEherkenning(w, caller, owner, i)
        PROVE  RegInv'
    <3> DEFINE row == [rows[i] EXCEPT !.assertion = TRUE, !.papers = {},
                                      !.via = "eherkenning", !.status = "signed"]
    <3>1. row \in Row /\ row.status = "signed"
      BY RowAt DEF Row, Status
    <3> QED BY <2>1, <3>1, BeginReg DEF SignWithEherkenning, Ops, Stages
  <2>2. ASSUME NEW caller \in Users, NEW owner \in Applicants,
               NEW i \in DOMAIN rows, NEW n \in Files,
               SignManually(w, caller, owner, i, n)
        PROVE  RegInv'
    <3> DEFINE row == [rows[i] EXCEPT !.papers = FreshNames(n),
                                      !.via = "manual", !.status = "signed"]
    <3>1. FreshNames(n) \subseteq Files
      BY <2>2, Bounds DEF SignManually, FreshNames, Files, TypeOK
    <3>2. row \in Row /\ row.status = "signed"
      BY <3>1, RowAt DEF Row, Status
    <3> QED BY <2>2, <3>2, BeginReg DEF SignManually, Ops, Stages
  <2> QED BY <1>3, <2>1, <2>2 DEF Sign
<1>4. ASSUME NEW w \in Workers, Modify(w) PROVE RegInv'
  <2>1. PICK caller \in Users, owner \in Applicants, i \in DOMAIN rows,
             s \in Submissions : ModifyProposal(w, caller, owner, i, s)
    BY <1>4 DEF Modify
  <2> DEFINE row == [rows[i] EXCEPT !.party = s.party, !.submitted = s.party,
                                    !.status = "pending"]
  <2>2. row \in Row /\ row.status = "pending"
    BY RowAt, SubmissionTypes DEF Row, Status
  <2> QED BY <2>1, <2>2, BeginReg DEF ModifyProposal, Ops, Stages
<1>5. ASSUME NEW w \in Workers, Complete(w) PROVE RegInv'
  <2>1. PICK caller \in Users, i \in DOMAIN rows : CompleteProposal(w, caller, i)
    BY <1>5 DEF Complete
  <2> QED BY <2>1, RowAt, BeginReg DEF CompleteProposal, Ops, Stages
<1>6. ASSUME NEW w \in Workers, Proceed(w) PROVE RegInv'
  <2>1. ASSUME AnswerIsLost(w) \/ CompletionFails(w) \/ SaveFails(w)
        PROVE  RegInv'
    BY <2>1, EndReg DEF AnswerIsLost, CompletionFails, SaveFails
  <2> QED BY <1>6, <2>1, AcceptReg, GrantReg, SaveReg DEF Proceed
<1>7. CASE Crash
  BY <1>7 DEF Crash, RegInv, RequestsOK, RequestOK, CompletedIsRegistered,
              PartyAttributeIsRegistered
<1>8. CASE UNCHANGED vars
  BY <1>8 DEF vars, RegInv, RequestsOK, RequestOK, Registered,
              CompletedIsRegistered, PartyAttributeIsRegistered
<1> QED BY <1>1, <1>2, <1>3, <1>4, <1>5, <1>6, <1>7, <1>8 DEF Next

\* A completed proposal names a party the registry accepted for it, and the
\* partyId attribute of a user a party the registry accepted from that user,
\* for every interleaving of any number of requests.
THEOREM RegistrationComesFirst == Spec => []RegInv
<1>1. Init => TypeOK /\ RegInv
  BY InitType, RegInit
<1>2. TypeOK /\ RegInv /\ [Next]_vars => TypeOK' /\ RegInv'
  BY TypeStep, RegStep
<1> QED BY <1>1, <1>2, PTL DEF Spec

\* A completed proposal names a party the registry took on for it: the row
\* is saved by CompleteProposal only after the registry's answer.
THEOREM CompletedRegistered == Spec => []CompletedIsRegistered
BY RegistrationComesFirst, PTL DEF RegInv

\* The partyId attribute grantOnboardingPartyAdmin stores is a party the
\* registry holds from a proposal of that very user.
THEOREM AttributeRegistered == Spec => []PartyAttributeIsRegistered
BY RegistrationComesFirst, PTL DEF RegInv

-----------------------------------------------------------------------------
(* Signed agreements are never lost                                          *)

\* The strengthening: names are never reused, and the papers of a signature
\* under way, the only ones its clean-up removes, are nobody else's yet.
Private(w) ==
    (reqs[w] # Idle /\ reqs[w].op = "sign") =>
      /\ \A i \in DOMAIN rows : rows[i].papers \cap reqs[w].row.papers = {}
      /\ \A v \in Workers : (v # w /\ reqs[v] # Idle) =>
           reqs[v].row.papers \cap reqs[w].row.papers = {}
      /\ \A r \in registry : r.papers \cap reqs[w].row.papers = {}
PapersInv ==
    /\ PapersAreKept
    /\ disk \subseteq 1..uploads
    /\ \A w \in Workers : Private(w)

\* An empty disk loses nothing.
LEMMA PapersInit == Init => PapersInv
BY DEF Init, PapersInv, PapersAreKept, Private

\* A request that starts with the papers of the row it read.
LEMMA BeginPapers ==
    ASSUME TypeOK, PapersInv, NEW w \in Workers, NEW i \in DOMAIN rows,
           NEW op \in Ops, NEW stage \in Stages, NEW row \in Row,
           Begin(w, op, stage, i, row),
           row.papers = {} \/ (op # "sign" /\ row.papers = rows[i].papers),
           UNCHANGED <<rows, registry, disk, uploads>>
    PROVE  PapersInv'
<1> DEFINE new == [op |-> op, stage |-> stage, id |-> i, row |-> row]
<1>1. reqs' = [reqs EXCEPT ![w] = new]
  BY DEF Begin
<1>2. new.op = op /\ new.row = row
  OBVIOUS
<1> HIDE DEF new
<1>3. /\ reqs'[w] = new
      /\ \A v \in Workers : v # w => reqs'[v] = reqs[v]
  BY <1>1 DEF TypeOK
<1>4. PapersAreKept'
  BY <1>2, <1>3 DEF PapersInv, PapersAreKept
<1>5. ASSUME NEW v \in Workers PROVE Private(v)'
  <2>1. CASE v = w
    BY <1>2, <1>3, <2>1 DEF Private
  <2>2. CASE v # w
    BY <1>2, <1>3, <2>2 DEF PapersInv, Private
  <2> QED BY <2>1, <2>2
<1> QED BY <1>4, <1>5 DEF PapersInv

\* A request that ends without touching the disk loses no paper.
LEMMA EndPapers ==
    ASSUME TypeOK, PapersInv, NEW w \in Workers,
           reqs' = [reqs EXCEPT ![w] = Idle],
           UNCHANGED <<rows, registry, disk, uploads>>
    PROVE  PapersInv'
<1>1. \A v \in Workers : reqs'[v] = Idle \/ (v # w /\ reqs'[v] = reqs[v])
  BY DEF TypeOK
<1> QED BY <1>1 DEF PapersInv, PapersAreKept, Private

\* SignProposal stores its uploads under names nobody else refers to.
LEMMA ManualPapers ==
    ASSUME TypeOK, PapersInv, NEW w \in Workers, NEW caller \in Users,
           NEW owner \in Applicants, NEW i \in DOMAIN rows, NEW n \in Files,
           SignManually(w, caller, owner, i, n)
    PROVE  PapersInv'
<1> DEFINE row == [rows[i] EXCEPT !.papers = FreshNames(n), !.via = "manual",
                                  !.status = "signed"]
           new == [op |-> "sign", stage |-> "save", id |-> i, row |-> row]
<1>1. rows[i] \in Row
  BY RowAt
<1>2. row.papers = FreshNames(n)
  BY <1>1 DEF Row
<1>3. new.op = "sign" /\ new.row.papers = FreshNames(n)
  BY <1>2
<1>4. /\ reqs'[w] = new
      /\ \A v \in Workers : v # w => reqs'[v] = reqs[v]
  BY DEF SignManually, Begin, TypeOK
<1> HIDE DEF new
<1>5. /\ disk' = disk \cup FreshNames(n) /\ uploads' = uploads + n
      /\ rows' = rows /\ registry' = registry
  BY DEF SignManually
<1>6. /\ disk \cap FreshNames(n) = {}
      /\ disk' \subseteq 1..uploads'
  BY <1>5 DEF PapersInv, FreshNames, TypeOK, Files
<1>7. PapersAreKept'
  BY <1>3, <1>4, <1>5 DEF PapersInv, PapersAreKept
<1>8. ASSUME NEW v \in Workers PROVE Private(v)'
  <2>1. CASE v = w
    BY <1>3, <1>4, <1>5, <1>6, <2>1 DEF PapersInv, PapersAreKept, Private
  <2>2. CASE v # w
    <3>1. reqs[v] # Idle => reqs[v].row.papers \subseteq disk
      BY DEF PapersInv, PapersAreKept
    <3> QED BY <1>3, <1>4, <1>5, <1>6, <2>2, <3>1 DEF PapersInv, Private
  <2> QED BY <2>1, <2>2
<1> QED BY <1>6, <1>7, <1>8 DEF PapersInv

\* A registration takes the papers of a completion, which no signature holds.
LEMMA RegisterPapers ==
    ASSUME TypeOK, RegInv, PapersInv, NEW w \in Workers,
           RegistryAccepts(w) \/ AnswerIsLost(w)
    PROVE  PapersInv'
<1> DEFINE q == reqs[w]
           new == RegistrationOf(q.id, q.row)
<1>1. q \in Request /\ q # Idle /\ q.row \in Row /\ q.stage = "post"
  BY RequestAt DEF RegistryAccepts, AnswerIsLost, Posting
<1>2. q.op = "complete"
  BY <1>1 DEF RegInv, RequestsOK, RequestOK
<1>3. new.papers = q.row.papers
  BY DEF RegistrationOf
<1>4. registry' = registry \cup {new} /\ UNCHANGED <<rows, disk, uploads>>
  BY DEF RegistryAccepts, AnswerIsLost
<1>5. /\ \A v \in Workers : v # w => reqs'[v] = reqs[v]
      /\ reqs'[w] # Idle => /\ reqs'[w].op = "complete"
                            /\ reqs'[w].row.papers = q.row.papers
  <2>1. CASE AnswerIsLost(w)
    BY <2>1 DEF AnswerIsLost, TypeOK
  <2>2. CASE RegistryAccepts(w)
    BY <1>2, <2>2, AcceptedRequest
  <2> QED BY <2>1, <2>2
<1> HIDE DEF q, new
<1>6. q.row.papers \subseteq disk
  BY <1>1 DEF PapersInv, PapersAreKept, q
<1>7. PapersAreKept'
  BY <1>3, <1>4, <1>5, <1>6 DEF PapersInv, PapersAreKept
<1>8. ASSUME NEW v \in Workers PROVE Private(v)'
  <2>1. CASE v = w
    BY <1>5, <2>1 DEF Private
  <2>2. CASE v # w
    <3>1. reqs'[v] = reqs[v] /\ Private(v)
      BY <1>5, <2>2 DEF PapersInv
    <3>2. (reqs[v] # Idle /\ reqs[v].op = "sign") =>
             q.row.papers \cap reqs[v].row.papers = {}
      BY <1>1, <2>2, <3>1 DEF Private, q
    <3> QED BY <1>3, <1>4, <1>5, <2>2, <3>1, <3>2 DEF Private
  <2> QED BY <2>1, <2>2
<1> QED BY <1>4, <1>7, <1>8 DEF PapersInv

\* Granting moves a completion on and leaves its papers alone.
LEMMA GrantPapers ==
    ASSUME TypeOK, PapersInv, NEW w \in Workers, GrantPartyAdmin(w)
    PROVE  PapersInv'
<1>1. reqs[w] \in Request /\ reqs[w] # Idle
  BY RequestAt DEF GrantPartyAdmin
<1>2. /\ \A v \in Workers : v # w => reqs'[v] = reqs[v]
      /\ reqs'[w].row = reqs[w].row /\ reqs'[w].op = reqs[w].op
      /\ UNCHANGED <<rows, registry, disk, uploads>>
  BY <1>1 DEF GrantPartyAdmin, TypeOK, Request
<1>3. \A v \in Workers : /\ reqs'[v] # Idle => reqs[v] # Idle
                         /\ reqs'[v] # Idle => /\ reqs'[v].row = reqs[v].row
                                               /\ reqs'[v].op = reqs[v].op
  BY <1>1, <1>2
<1> QED BY <1>2, <1>3 DEF PapersInv, PapersAreKept, Private

\* A saved copy refers to papers that are there.
LEMMA SavePapers ==
    ASSUME TypeOK, PapersInv, NEW w \in Workers, Save(w)
    PROVE  PapersInv'
<1> DEFINE q == reqs[w]
<1>1. q # Idle /\ q.id \in DOMAIN rows /\ q.row \in Row
  BY RequestAt DEF Save, Saving
<1>2. /\ DOMAIN rows' = DOMAIN rows /\ rows'[q.id] = q.row
      /\ \A j \in DOMAIN rows : j # q.id => rows'[j] = rows[j]
  BY <1>1, SaveType DEF Save
<1>3. /\ \A v \in Workers : v # w => reqs'[v] = reqs[v]
      /\ reqs'[w] = Idle /\ UNCHANGED <<registry, disk, uploads>>
  BY DEF Save, TypeOK
<1>4. PapersAreKept'
  BY <1>1, <1>2, <1>3 DEF PapersInv, PapersAreKept
<1>5. ASSUME NEW v \in Workers PROVE Private(v)'
  BY <1>1, <1>2, <1>3 DEF PapersInv, Private
<1> QED BY <1>3, <1>4, <1>5 DEF PapersInv

\* The clean-up after a failed save removes only papers no one else has.
LEMMA SaveFailsPapers ==
    ASSUME TypeOK, PapersInv, NEW w \in Workers, SaveFails(w)
    PROVE  PapersInv'
<1>1. reqs[w] # Idle
  BY DEF SaveFails, Saving
<1>2. /\ \A v \in Workers : v # w => reqs'[v] = reqs[v]
      /\ reqs'[w] = Idle /\ UNCHANGED <<rows, registry, uploads>>
  BY DEF SaveFails, TypeOK
<1>3. CASE reqs[w].op # "sign"
  BY <1>3, EndPapers DEF SaveFails
<1>4. CASE reqs[w].op = "sign"
  <2>1. disk' = disk \ reqs[w].row.papers
    BY <1>4 DEF SaveFails
  <2>2. Private(w)
    BY DEF PapersInv
  <2>3. PapersAreKept'
    BY <1>1, <1>2, <1>4, <2>1, <2>2 DEF PapersInv, PapersAreKept, Private
  <2>4. ASSUME NEW v \in Workers PROVE Private(v)'
    BY <1>2 DEF PapersInv, Private
  <2> QED BY <1>2, <2>1, <2>3, <2>4 DEF PapersInv
<1> QED BY <1>3, <1>4

\* Every step keeps the papers that rows, copies and registrations refer to,
\* and keeps a signature's fresh papers its own until it is saved.
THEOREM PapersStep == TypeOK /\ RegInv /\ PapersInv /\ [Next]_vars => PapersInv'
<1> SUFFICES ASSUME TypeOK, RegInv, PapersInv, [Next]_vars PROVE PapersInv'
  OBVIOUS
<1>1. CASE Submit
  <2>1. PICK u \in Applicants, s \in Submissions,
             status \in {"pending", "signed"} : HandlePropose(u, s, status)
    BY <1>1 DEF Submit
  <2>2. UNCHANGED <<reqs, registry, disk, uploads>>
    BY <2>1 DEF HandlePropose
  <2>3. \A i \in DOMAIN rows' :
           rows'[i].papers = {} \/ (i \in DOMAIN rows /\ rows'[i] = rows[i])
    <3> DEFINE party == alignPartyIDWithCertificate(s.party, s.cert)
               new == [owner |-> u, status |-> status, party |-> party,
                       cert |-> s.cert, via |-> "", papers |-> {},
                       assertion |-> FALSE, submitted |-> party]
    <3>1. rows' = Append(rows, new) /\ new.papers = {}
      BY <2>1 DEF HandlePropose
    <3>2. rows \in Seq(Row)
      BY DEF TypeOK
    <3> HIDE DEF new
    <3> QED BY <3>1, <3>2
  <2> QED BY <2>2, <2>3 DEF PapersInv, PapersAreKept, Private
<1>2. ASSUME NEW w \in Workers, Decide(w) PROVE PapersInv'
  <2>1. PICK i \in DOMAIN rows : ApproveProposal(w, i) \/ RejectProposal(w, i)
    BY <1>2 DEF Decide
  <2>2. \A st \in Status :
           /\ [rows[i] EXCEPT !.status = st] \in Row
           /\ [rows[i] EXCEPT !.status = st].papers = rows[i].papers
    BY RowAt DEF Row
  <2> QED
    BY <2>1, <2>2, BeginPapers
    DEF ApproveProposal, RejectProposal, Ops, Stages, Status
<1>3. ASSUME NEW w \in Workers, Sign(w) PROVE PapersInv'
  <2>1. ASSUME NEW caller \in Users, NEW owner \in Applicants,
               NEW i \in DOMAIN rows, SignWithEherkenning(w, caller, owner, i)
        PROVE  PapersInv'
    <3> DEFINE row == [rows[i] EXCEPT !.assertion = TRUE, !.papers = {},
                                      !.via = "eherkenning", !.status = "signed"]
    <3>1. row \in Row /\ row.papers = {}
      BY RowAt DEF Row, Status
    <3> QED BY <2>1, <3>1, BeginPapers DEF SignWithEherkenning, Ops, Stages
  <2> QED BY <1>3, <2>1, ManualPapers DEF Sign
<1>4. ASSUME NEW w \in Workers, Modify(w) PROVE PapersInv'
  <2>1. PICK caller \in Users, owner \in Applicants, i \in DOMAIN rows,
             s \in Submissions : ModifyProposal(w, caller, owner, i, s)
    BY <1>4 DEF Modify
  <2> DEFINE row == [rows[i] EXCEPT !.party = s.party, !.submitted = s.party,
                                    !.status = "pending"]
  <2>2. row \in Row /\ row.papers = rows[i].papers
    BY RowAt, SubmissionTypes DEF Row, Status
  <2> QED BY <2>1, <2>2, BeginPapers DEF ModifyProposal, Ops, Stages
<1>5. ASSUME NEW w \in Workers, Complete(w) PROVE PapersInv'
  BY <1>5, RowAt, BeginPapers DEF Complete, CompleteProposal, Ops, Stages
<1>6. ASSUME NEW w \in Workers, Proceed(w) PROVE PapersInv'
  <2>1. ASSUME CompletionFails(w) PROVE PapersInv'
    BY <2>1, EndPapers DEF CompletionFails
  <2> QED
    BY <1>6, <2>1, RegisterPapers, GrantPapers, SavePapers, SaveFailsPapers
    DEF Proceed
<1>7. CASE Crash
  BY <1>7 DEF Crash, PapersInv, PapersAreKept, Private
<1>8. CASE UNCHANGED vars
  BY <1>8 DEF vars, PapersInv, PapersAreKept, Private
<1> QED BY <1>1, <1>2, <1>3, <1>4, <1>5, <1>6, <1>7, <1>8 DEF Next

\* No signed agreement that a row, a completion under way or a registration
\* refers to is ever removed from ./uploads.
THEOREM PapersKept == Spec => []PapersAreKept
<1>1. Init => TypeOK /\ RegInv /\ PapersInv
  BY InitType, RegInit, PapersInit
<1>2. TypeOK /\ RegInv /\ PapersInv /\ [Next]_vars
         => TypeOK' /\ RegInv' /\ PapersInv'
  BY TypeStep, RegStep, PapersStep
<1>3. PapersInv => PapersAreKept
  BY DEF PapersInv
<1> QED BY <1>1, <1>2, <1>3, PTL DEF Spec

-----------------------------------------------------------------------------
(* What a registration carries                                               *)

\* Only the two outcomes of a post with a payload add to the registry.
LEMMA RegistryGrows ==
    ASSUME TypeOK, [Next]_vars, NEW r \in registry', r \notin registry
    PROVE  \E w \in Workers :
             /\ reqs[w] # Idle /\ reqs[w] \in Request /\ reqs[w].row \in Row
             /\ PayloadCanBeBuilt(reqs[w].row)
             /\ r = RegistrationOf(reqs[w].id, reqs[w].row)
<1>1. ASSUME NEW w \in Workers, RegistryAccepts(w) \/ AnswerIsLost(w)
      PROVE  /\ reqs[w] # Idle /\ reqs[w] \in Request /\ reqs[w].row \in Row
             /\ PayloadCanBeBuilt(reqs[w].row)
             /\ r = RegistrationOf(reqs[w].id, reqs[w].row)
  BY <1>1, RequestAt DEF RegistryAccepts, AnswerIsLost, Posting
<1>2. \/ \E w \in Workers : RegistryAccepts(w) \/ AnswerIsLost(w)
      \/ registry' = registry
  <2>1. CASE Submit \/ Crash \/ UNCHANGED vars
    BY <2>1 DEF Submit, HandlePropose, Crash, vars
  <2>2. ASSUME NEW w \in Workers, Decide(w) \/ Modify(w) \/ Complete(w)
        PROVE  registry' = registry
    BY <2>2 DEF Decide, Modify, Complete, ApproveProposal, RejectProposal,
                ModifyProposal, CompleteProposal
  <2>3. ASSUME NEW w \in Workers, Sign(w)
        PROVE  registry' = registry
    BY <2>3 DEF Sign, SignWithEherkenning, SignManually
  <2>4. ASSUME NEW w \in Workers, Proceed(w)
        PROVE  RegistryAccepts(w) \/ AnswerIsLost(w) \/ registry' = registry
    BY <2>4 DEF Proceed, CompletionFails, GrantPartyAdmin, Save, SaveFails
  <2> QED BY <2>1, <2>2, <2>3, <2>4 DEF Next
<1> QED BY <1>1, <1>2

\* On the versions that demand one, every registration carries an identity
\* proof: a certificate that parses, or the eHerkenning assertion.
THEOREM IdentityProofSent ==
    ASSUME Version \in {"2.2", "3.0"}
    PROVE  Spec => []RegisteredWithIdentityProof
<1>1. Init => TypeOK /\ RegisteredWithIdentityProof
  BY InitType DEF Init, RegisteredWithIdentityProof
<1>2. TypeOK /\ RegisteredWithIdentityProof /\ [Next]_vars
         => TypeOK' /\ RegisteredWithIdentityProof'
  <2> SUFFICES ASSUME TypeOK, RegisteredWithIdentityProof, [Next]_vars,
                      NEW r \in registry'
               PROVE  r.cert # BadCert /\ (r.cert # NoCert \/ r.assertion)
    BY TypeStep DEF RegisteredWithIdentityProof
  <2>1. CASE r \in registry
    BY <2>1 DEF RegisteredWithIdentityProof
  <2>2. CASE r \notin registry
    <3>1. PICK w \in Workers :
             /\ PayloadCanBeBuilt(reqs[w].row)
             /\ r = RegistrationOf(reqs[w].id, reqs[w].row)
      BY <2>2, RegistryGrows
    <3>2. HasIdentityProof(reqs[w].row)
      BY <3>1 DEF PayloadCanBeBuilt
    <3> QED BY <3>1, <3>2 DEF HasIdentityProof, RegistrationOf
  <2> QED BY <2>1, <2>2
<1> QED BY <1>1, <1>2, PTL DEF Spec

\* On version 3 a party with an NTR certificate is registered under the id that
\* the certificate decides, whatever ModifyProposal stored in between.
THEOREM CertificateDecides ==
    ASSUME Version = "3.0"
    PROVE  Spec => []CertificateDecidesParty
<1>1. Init => TypeOK /\ CertificateDecidesParty
  BY InitType DEF Init, CertificateDecidesParty
<1>2. TypeOK /\ CertificateDecidesParty /\ [Next]_vars
         => TypeOK' /\ CertificateDecidesParty'
  <2> SUFFICES ASSUME TypeOK, CertificateDecidesParty, [Next]_vars,
                      NEW r \in registry', r.cert \notin {NoCert, BadCert},
                      IsNtrIdentifier(r.cert)
               PROVE  r.party = calcIshareDid(r.cert)
    BY TypeStep DEF CertificateDecidesParty
  <2>1. CASE r \in registry
    BY <2>1 DEF CertificateDecidesParty
  <2>2. CASE r \notin registry
    <3>1. PICK w \in Workers :
             /\ reqs[w].row \in Row
             /\ r = RegistrationOf(reqs[w].id, reqs[w].row)
      BY <2>2, RegistryGrows
    <3> DEFINE row == reqs[w].row
    <3>2. /\ r.cert = row.cert
          /\ r.party = RegistryId("3.0", row.party, row.cert)
      BY <3>1 DEF RegistrationOf
    <3>3. row.party \in PartyId /\ row.cert \in PartyId
      BY <3>1, <3>2, CertTypes DEF Row
    <3> QED BY <3>2, <3>3, CertificateDecidesId
  <2> QED BY <2>1, <2>2
<1> QED BY <1>1, <1>2, PTL DEF Spec

-----------------------------------------------------------------------------
(* What a signature leaves on a proposal                                     *)

\* The strengthening: the papers a row or a copy holds go with the way it was
\* signed, and whatever is signed is the oldest row of its owner.
Shape(row) ==
    /\ row.via = "" => row.papers = {}
    /\ row.via = "eherkenning" => row.assertion
    /\ row.via = "manual" => Cardinality(row.papers) >= 2
Oldest(i) == \A j \in DOMAIN rows : rows[j].owner = rows[i].owner => i <= j
SignedAs(i, row) ==
    /\ row.owner = rows[i].owner
    /\ Shape(row)
    /\ row.via # "" => Oldest(i)
SignInv ==
    /\ \A i \in DOMAIN rows : SignedAs(i, rows[i])
    /\ \A w \in Workers : reqs[w] # Idle => SignedAs(reqs[w].id, reqs[w].row)

\* With nothing signed there is nothing to hold.
LEMMA SignInit == Init => SignInv
BY DEF Init, SignInv

\* A step that reads row i of an owner who is still the oldest's, or that leaves
\* the signature alone.
LEMMA BeginSign ==
    ASSUME TypeOK, SignInv, NEW w \in Workers, NEW i \in DOMAIN rows,
           NEW op \in Ops, NEW stage \in Stages, NEW row \in Row,
           Begin(w, op, stage, i, row), SignedAs(i, row), rows' = rows
    PROVE  SignInv'
<1> DEFINE new == [op |-> op, stage |-> stage, id |-> i, row |-> row]
<1>1. reqs' = [reqs EXCEPT ![w] = new]
  BY DEF Begin
<1>2. new.id = i /\ new.row = row
  OBVIOUS
<1> HIDE DEF new
<1>3. ASSUME NEW v \in Workers, reqs'[v] # Idle
      PROVE  SignedAs(reqs'[v].id, reqs'[v].row)
  <2>1. CASE v = w
    BY <1>1, <1>2, <2>1 DEF TypeOK
  <2>2. CASE v # w
    BY <1>1, <1>3, <2>2 DEF TypeOK, SignInv
  <2> QED BY <2>1, <2>2
<1> QED BY <1>3 DEF SignInv, SignedAs, Oldest

\* The copies that a decision or a modification takes keep owner and signature.
LEMMA CopySigned ==
    ASSUME NEW i, NEW old, NEW row, SignedAs(i, old),
           row.owner = old.owner, row.via = old.via, row.papers = old.papers,
           row.assertion = old.assertion
    PROVE  SignedAs(i, row)
BY DEF SignedAs, Shape

\* A request that ends changes no signature.
LEMMA EndSign ==
    ASSUME TypeOK, SignInv, NEW w \in Workers,
           reqs' = [reqs EXCEPT ![w] = Idle], rows' = rows
    PROVE  SignInv'
<1>1. \A v \in Workers : reqs'[v] = Idle \/ reqs'[v] = reqs[v]
  BY DEF TypeOK
<1> QED BY <1>1 DEF SignInv, SignedAs, Oldest

\* A row that is added is not signed and is nobody's oldest but its own.
LEMMA ProposeSign ==
    ASSUME TypeOK, SignInv, NEW u \in Applicants, NEW s \in Submissions,
           NEW status \in {"pending", "signed"}, HandlePropose(u, s, status)
    PROVE  SignInv'
<1> DEFINE party == alignPartyIDWithCertificate(s.party, s.cert)
           new == [owner |-> u, status |-> status, party |-> party,
                   cert |-> s.cert, via |-> "", papers |-> {},
                   assertion |-> FALSE, submitted |-> party]
<1>1. reqs' = reqs /\ new.via = "" /\ new.papers = {}
  BY DEF HandlePropose
<1>2. new \in Row
  BY SubmissionTypes, CertTypes, AlignType DEF Row, Status
<1>3. rows' = Append(rows, new)
  BY DEF HandlePropose
<1> HIDE DEF new
<1>4. /\ Len(rows) \in Nat /\ DOMAIN rows = 1..Len(rows)
      /\ DOMAIN rows' = 1..(Len(rows) + 1)
      /\ \A i \in 1..Len(rows) : rows'[i] = rows[i]
      /\ rows'[Len(rows) + 1] = new
  <2>1. rows \in Seq(Row) /\ Len(rows) \in Nat /\ DOMAIN rows = 1..Len(rows)
    BY DEF TypeOK
  <2>2. rows' \in Seq(Row) /\ Len(rows') = Len(rows) + 1
    BY <1>2, <1>3, <2>1
  <2>3. DOMAIN rows' = 1..(Len(rows) + 1)
    BY <2>2
  <2>4. \A i \in 1..Len(rows) : rows'[i] = rows[i]
    BY <1>2, <1>3, <2>1
  <2>5. rows'[Len(rows) + 1] = new
    BY <1>2, <1>3, <2>1
  <2> QED BY <2>1, <2>3, <2>4, <2>5
<1>5. \A i \in DOMAIN rows : Oldest(i) => Oldest(i)'
  BY <1>4 DEF Oldest
<1>6. \A i \in DOMAIN rows : \A row : SignedAs(i, row) => SignedAs(i, row)'
  BY <1>4, <1>5 DEF SignedAs
<1>7. ASSUME NEW i \in DOMAIN rows' PROVE SignedAs(i, rows[i])'
  <2>1. CASE i \in DOMAIN rows
    BY <1>4, <1>6, <2>1 DEF SignInv
  <2>2. CASE i \notin DOMAIN rows
    <3>1. i = Len(rows) + 1
      BY <1>4, <2>2
    <3> QED BY <1>1, <1>4, <3>1 DEF SignedAs, Shape
  <2> QED BY <2>1, <2>2
<1>8. ASSUME NEW w \in Workers, reqs'[w] # Idle
      PROVE  SignedAs(reqs[w].id, reqs[w].row)'
  BY <1>1, <1>6, <1>8 DEF SignInv, TypeOK
<1> QED BY <1>7, <1>8 DEF SignInv

\* SignProposal finds the row by its owner's name, so it signs the oldest.
LEMMA SignSign ==
    ASSUME TypeOK, SignInv, NEW w \in Workers, Sign(w)
    PROVE  SignInv'
<1>1. ASSUME NEW i \in DOMAIN rows, NEW owner, IsOldestOf(i, owner)
      PROVE  Oldest(i)
  BY <1>1 DEF IsOldestOf, Oldest
<1>2. ASSUME NEW caller \in Users, NEW owner \in Applicants,
             NEW i \in DOMAIN rows, SignWithEherkenning(w, caller, owner, i)
      PROVE  SignInv'
  <2> DEFINE row == [rows[i] EXCEPT !.assertion = TRUE, !.papers = {},
                                    !.via = "eherkenning", !.status = "signed"]
  <2>1. /\ row \in Row /\ row.owner = rows[i].owner /\ row.papers = {}
        /\ row.assertion = TRUE /\ row.via = "eherkenning"
    BY RowAt DEF Row, Status
  <2>2. SignedAs(i, row)
    BY <1>1, <1>2, <2>1 DEF SignedAs, Shape, SignWithEherkenning
  <2> HIDE DEF row
  <2>3. Begin(w, "sign", "save", i, row) /\ rows' = rows
    BY <1>2 DEF SignWithEherkenning, row
  <2> QED BY <2>1, <2>2, <2>3, BeginSign DEF Ops, Stages
<1>3. ASSUME NEW caller \in Users, NEW owner \in Applicants,
             NEW i \in DOMAIN rows, NEW n \in Files,
             SignManually(w, caller, owner, i, n)
      PROVE  SignInv'
  <2> DEFINE row == [rows[i] EXCEPT !.papers = FreshNames(n), !.via = "manual",
                                    !.status = "signed"]
  <2>1. /\ FreshNames(n) \subseteq Files
        /\ n \in Nat /\ n >= 2 /\ uploads \in Nat
    BY <1>3, Bounds DEF SignManually, FreshNames, Files, TypeOK, MinPapers
  <2>2. Cardinality(FreshNames(n)) = n
    BY <2>1, FS_Interval DEF FreshNames
  <2>3. /\ row \in Row /\ row.owner = rows[i].owner
        /\ row.papers = FreshNames(n) /\ row.via = "manual"
    BY <2>1, RowAt DEF Row, Status
  <2>4. SignedAs(i, row)
    BY <1>1, <1>3, <2>1, <2>2, <2>3 DEF SignedAs, Shape, SignManually
  <2> HIDE DEF row
  <2>5. Begin(w, "sign", "save", i, row) /\ rows' = rows
    BY <1>3 DEF SignManually, row
  <2> QED BY <2>3, <2>4, <2>5, BeginSign DEF Ops, Stages
<1> QED BY <1>2, <1>3 DEF Sign

\* The registry's answer and the grant move a completion on, as it was signed.
LEMMA ProgressSign ==
    ASSUME TypeOK, SignInv, NEW w \in Workers,
           RegistryAccepts(w) \/ GrantPartyAdmin(w)
    PROVE  SignInv'
<1> DEFINE q == reqs[w]
<1>1. q \in Request /\ q # Idle /\ q.row \in Row
  BY RequestAt DEF RegistryAccepts, GrantPartyAdmin, Posting
<1>2. /\ \A v \in Workers : v # w => reqs'[v] = reqs[v]
      /\ rows' = rows
      /\ reqs'[w].id = q.id
      /\ reqs'[w].row.owner = q.row.owner /\ reqs'[w].row.via = q.row.via
      /\ reqs'[w].row.papers = q.row.papers
      /\ reqs'[w].row.assertion = q.row.assertion
  <2>1. CASE RegistryAccepts(w)
    BY <2>1, AcceptedRequest DEF RegistryAccepts
  <2>2. CASE GrantPartyAdmin(w)
    <3>1. /\ \A v \in Workers : v # w => reqs'[v] = reqs[v]
          /\ reqs'[w] = [q EXCEPT !.stage = "save"]
          /\ rows' = rows
      BY <1>1, <2>2 DEF GrantPartyAdmin, TypeOK
    <3>2. DOMAIN q = {"op", "stage", "id", "row"}
      BY <1>1 DEF Request
    <3> HIDE DEF q
    <3>3. reqs'[w].id = q.id /\ reqs'[w].row = q.row
      BY <3>1, <3>2
    <3> QED BY <3>1, <3>3
  <2> QED BY <2>1, <2>2 DEF RegistryAccepts, GrantPartyAdmin
<1>3. SignedAs(reqs'[w].id, reqs'[w].row)
  BY <1>1, <1>2, CopySigned DEF SignInv
<1>4. \A v \in Workers : reqs'[v] # Idle =>
         SignedAs(reqs'[v].id, reqs'[v].row)
  BY <1>2, <1>3 DEF SignInv
<1> QED BY <1>2, <1>4 DEF SignInv, SignedAs, Oldest

\* A saved copy takes the place of a row of the same owner.
LEMMA SaveSign ==
    ASSUME TypeOK, SignInv, NEW w \in Workers, Save(w)
    PROVE  SignInv'
<1> DEFINE q == reqs[w]
<1>1. q # Idle /\ q.id \in DOMAIN rows /\ q.row \in Row
  BY RequestAt DEF Save, Saving
<1>2. /\ DOMAIN rows' = DOMAIN rows /\ rows'[q.id] = q.row
      /\ \A j \in DOMAIN rows : j # q.id => rows'[j] = rows[j]
  BY <1>1, SaveType DEF Save
<1>3. SignedAs(q.id, q.row)
  BY <1>1 DEF SignInv
<1>4. \A j \in DOMAIN rows : rows'[j].owner = rows[j].owner
  BY <1>1, <1>2, <1>3 DEF SignedAs
<1>5. \A i \in DOMAIN rows : \A row : SignedAs(i, row) => SignedAs(i, row)'
  BY <1>2, <1>4 DEF SignedAs, Oldest
<1>6. ASSUME NEW i \in DOMAIN rows PROVE SignedAs(i, rows'[i])
  BY <1>2, <1>3 DEF SignInv
<1>7. \A v \in Workers : reqs'[v] = Idle \/ reqs'[v] = reqs[v]
  BY DEF Save, TypeOK
<1>8. \A i \in DOMAIN rows' : SignedAs(i, rows[i])'
  BY <1>2, <1>5, <1>6
<1>9. \A v \in Workers : reqs'[v] # Idle => SignedAs(reqs[v].id, reqs[v].row)'
  BY <1>5, <1>7 DEF SignInv, TypeOK
<1> QED BY <1>8, <1>9 DEF SignInv

\* Every step keeps what a signature leaves on a row and on the copies of it.
THEOREM SignStep == TypeOK /\ SignInv /\ [Next]_vars => SignInv'
<1> SUFFICES ASSUME TypeOK, SignInv, [Next]_vars PROVE SignInv'
  OBVIOUS
<1>1. CASE Submit
  BY <1>1, ProposeSign DEF Submit
<1>2. ASSUME NEW w \in Workers, Decide(w) PROVE SignInv'
  <2>1. PICK i \in DOMAIN rows : ApproveProposal(w, i) \/ RejectProposal(w, i)
    BY <1>2 DEF Decide
  <2>2. PICK st \in {"approved", "rejected"} :
           /\ \E op \in {"approve", "reject"} :
                Begin(w, op, "save", i, [rows[i] EXCEPT !.status = st])
           /\ rows' = rows
    BY <2>1 DEF ApproveProposal, RejectProposal
  <2> DEFINE row == [rows[i] EXCEPT !.status = st]
  <2>3. /\ row \in Row /\ row.owner = rows[i].owner /\ row.via = rows[i].via
        /\ row.papers = rows[i].papers /\ row.assertion = rows[i].assertion
    BY RowAt DEF Row, Status
  <2>4. SignedAs(i, row)
    BY <2>3, CopySigned DEF SignInv
  <2> HIDE DEF row
  <2>5. \E op \in {"approve", "reject"} : Begin(w, op, "save", i, row)
    BY <2>2 DEF row
  <2> QED BY <2>2, <2>3, <2>4, <2>5, BeginSign DEF Ops, Stages
<1>3. ASSUME NEW w \in Workers, Sign(w) PROVE SignInv'
  BY <1>3, SignSign
<1>4. ASSUME NEW w \in Workers, Modify(w) PROVE SignInv'
  <2>1. PICK caller \in Users, owner \in Applicants, i \in DOMAIN rows,
             s \in Submissions : ModifyProposal(w, caller, owner, i, s)
    BY <1>4 DEF Modify
  <2> DEFINE row == [rows[i] EXCEPT !.party = s.party, !.submitted = s.party,
                                    !.status = "pending"]
  <2>2. /\ row \in Row /\ row.owner = rows[i].owner /\ row.via = rows[i].via
        /\ row.papers = rows[i].papers /\ row.assertion = rows[i].assertion
    BY RowAt, SubmissionTypes DEF Row, Status
  <2>3. SignedAs(i, row)
    BY <2>2, CopySigned DEF SignInv
  <2> HIDE DEF row
  <2>4. Begin(w, "modify", "save", i, row) /\ rows' = rows
    BY <2>1 DEF ModifyProposal, row
  <2> QED BY <2>2, <2>3, <2>4, BeginSign DEF Ops, Stages
<1>5. ASSUME NEW w \in Workers, Complete(w) PROVE SignInv'
  <2>1. PICK i \in DOMAIN rows :
           Begin(w, "complete", "post", i, rows[i]) /\ rows' = rows
    BY <1>5 DEF Complete, CompleteProposal
  <2>2. rows[i] \in Row /\ SignedAs(i, rows[i])
    BY RowAt DEF SignInv
  <2> QED BY <2>1, <2>2, BeginSign DEF Ops, Stages
<1>6. ASSUME NEW w \in Workers, Proceed(w) PROVE SignInv'
  <2>1. ASSUME AnswerIsLost(w) \/ CompletionFails(w) \/ SaveFails(w)
        PROVE  SignInv'
    BY <2>1, EndSign DEF AnswerIsLost, CompletionFails, SaveFails
  <2> QED BY <1>6, <2>1, ProgressSign, SaveSign DEF Proceed
<1>7. CASE Crash
  BY <1>7 DEF Crash, SignInv, SignedAs, Oldest
<1>8. CASE UNCHANGED vars
  BY <1>8 DEF vars, SignInv, SignedAs, Oldest
<1> QED BY <1>1, <1>2, <1>3, <1>4, <1>5, <1>6, <1>7, <1>8 DEF Next

\* Only the oldest proposal of a user is ever signed: the routes of SignProposal
\* and ModifyProposal find the row by username.
THEOREM OldestSigned == Spec => []OnlyOldestIsSigned
<1>1. Init => TypeOK /\ SignInv
  BY InitType, SignInit
<1>2. TypeOK /\ SignInv /\ [Next]_vars => TypeOK' /\ SignInv'
  BY TypeStep, SignStep
<1>3. TypeOK /\ SignInv => OnlyOldestIsSigned
  <2> SUFFICES ASSUME TypeOK, SignInv, NEW i \in DOMAIN rows,
                      NEW j \in DOMAIN rows, i < j,
                      rows[i].owner = rows[j].owner
               PROVE  rows[j].via = ""
    BY DEF OnlyOldestIsSigned
  <2>1. i \in Int /\ j \in Int
    BY DEF TypeOK
  <2>2. Oldest(j) => j <= i
    BY DEF Oldest
  <2>3. SignedAs(j, rows[j])
    BY DEF SignInv
  <2>4. ~ Oldest(j)
    BY <2>1, <2>2
  <2> QED BY <2>3, <2>4 DEF SignedAs
<1> QED BY <1>1, <1>2, <1>3, PTL DEF Spec

\* On 2.x no party is registered without the agreements its applicant signed.
THEOREM AgreementsSent ==
    ASSUME Version # "3.0"
    PROVE  Spec => []RegisteredWithAgreements
<1>1. Init => TypeOK /\ SignInv /\ RegisteredWithAgreements
  BY InitType, SignInit DEF Init, RegisteredWithAgreements
<1>2. TypeOK /\ SignInv /\ RegisteredWithAgreements /\ [Next]_vars
         => TypeOK' /\ SignInv' /\ RegisteredWithAgreements'
  <2> SUFFICES ASSUME TypeOK, SignInv, RegisteredWithAgreements, [Next]_vars,
                      NEW r \in registry'
               PROVE  \/ r.via = "eherkenning" /\ r.assertion
                      \/ r.via = "manual" /\ Cardinality(r.papers) >= 2
    BY TypeStep, SignStep DEF RegisteredWithAgreements
  <2>1. CASE r \in registry
    BY <2>1 DEF RegisteredWithAgreements
  <2>2. CASE r \notin registry
    <3>1. PICK w \in Workers :
             /\ reqs[w] # Idle /\ reqs[w].row \in Row
             /\ PayloadCanBeBuilt(reqs[w].row)
             /\ r = RegistrationOf(reqs[w].id, reqs[w].row)
      BY <2>2, RegistryGrows
    <3> DEFINE row == reqs[w].row
    <3>2. HasAgreements(row) /\ Shape(row)
      BY <3>1 DEF PayloadCanBeBuilt, SignInv, SignedAs
    <3>3. row.via \in {"", "manual", "eherkenning"}
      BY <3>1 DEF Row
    <3>4. /\ r.via = row.via /\ r.papers = row.papers
          /\ r.assertion = row.assertion
      BY <3>1 DEF RegistrationOf
    <3> HIDE DEF row
    <3> QED BY <3>2, <3>3, <3>4 DEF HasAgreements, Shape
  <2> QED BY <2>1, <2>2
<1> QED BY <1>1, <1>2, PTL DEF Spec

-----------------------------------------------------------------------------
(* What makes completing again harmless                                      *)

Settles(x, c) ==
    RegistryId(Version, RegistryId(Version, x, c), c) = RegistryId(Version, x, c)
IdsSettle == \A x \in SubmittedIds, c \in Certs : Settles(x, c)

\* Putting the certificate's country in front adds no NTR piece.
LEMMA LiftKeepsSane ==
    ASSUME NEW id \in PartyId, IsNtrIdentifier(id), Sane(id)
    PROVE  Sane(LiftNtr(id))
<1> DEFINE c == CountryPrefix(id[2])
           x == <<c>> \o id
<1>1. c \in Pieces /\ c # Ntr
  BY PrefixesArePieces DEF CountryPrefix, Ntr
<1>2. <<c>> \in Seq(Pieces) /\ Len(<<c>>) = 1 /\ id \in Seq(Pieces)
  BY <1>1 DEF PartyId
<1>3. /\ x \in Seq(Pieces) /\ Len(x) = 1 + Len(id) /\ Len(id) \in Nat
      /\ \A i \in 1..Len(x) : x[i] = IF i <= 1 THEN c ELSE id[i - 1]
  BY <1>2, ConcatProperties
<1> HIDE DEF x, c
<1>4. ASSUME NEW i \in 1..Len(x), i + 2 \in 1..Len(x),
             x[i] = Ntr, x[i + 1] = Ntr, x[i + 2] = Ntr
      PROVE  FALSE
  <2>1. i # 1
    BY <1>1, <1>3, <1>4
  <2>2. /\ i - 1 \in 1..Len(id) /\ (i - 1) + 2 \in 1..Len(id)
        /\ id[i - 1] = Ntr /\ id[(i - 1) + 1] = Ntr /\ id[(i - 1) + 2] = Ntr
    BY <1>3, <1>4, <2>1
  <2> QED BY <2>2 DEF Sane
<1> QED BY <1>4 DEF Sane, LiftNtr, x, c

\* A certificate's id is sane when its organisation identifier is.
LEMMA CertificateIdSane ==
    ASSUME NEW identifier \in PartyId, Sane(identifier)
    PROVE  Sane(PartyIDFromOrganizationIdentifier(identifier))
<1> DEFINE k == FirstKvk(identifier)
<1>1. Len(<<Eori, k>>) = 2
  OBVIOUS
<1>2. Sane(<<Eori, k>>)
  BY <1>1 DEF Sane
<1> QED BY <1>2, LiftKeepsSane DEF PartyIDFromOrganizationIdentifier

\* Version 3: completing a proposal again derives the same id.
LEMMA V3IdsSettle ==
    ASSUME Version = "3.0", NEW x \in PartyId, NEW c \in PartyId \cup {NoCert, BadCert},
           Sane(x), c \in PartyId => Sane(c)
    PROVE  Settles(x, c)
<1> DEFINE a == alignPartyIDWithCertificate(x, c)
           d == deriveV3Identity(a)
<1>1. \A y : RegistryId(Version, y, c)
               = deriveV3Identity(alignPartyIDWithCertificate(y, c))
  BY DEF RegistryId
<1>2. a \in PartyId /\ Sane(a)
  <2>1. c \in {NoCert, BadCert} \/ (c \in PartyId /\ Sane(c))
    OBVIOUS
  <2> QED BY <2>1, AlignType, CertificateIdSane DEF alignPartyIDWithCertificate
<1>3. deriveV3Identity(d) = d
  BY <1>2, DeriveSettles
<1>4. alignPartyIDWithCertificate(d, c) = d \/ alignPartyIDWithCertificate(d, c) = a
  BY DEF alignPartyIDWithCertificate
<1> QED BY <1>1, <1>3, <1>4 DEF Settles

\* What is submitted, aligned or not, is an identifier.
LEMMA SubmittedIdsAreIds == SubmittedIds \subseteq PartyId
BY SubmissionTypes, CertTypes, AlignType DEF SubmittedIds

\* On version 3, every proposal can be completed any number of times: the ids
\* settle whenever no submitted identifier repeats NTR three times.
THEOREM V3Settles ==
    ASSUME Version = "3.0",
           \A s \in Submissions :
             Sane(s.party) /\ (s.cert \in PartyId => Sane(s.cert))
    PROVE  IdsSettle
<1>1. ASSUME NEW x \in SubmittedIds, NEW c \in Certs PROVE Settles(x, c)
  <2>1. c \in PartyId \cup {NoCert, BadCert} /\ (c \in PartyId => Sane(c))
    BY CertTypes DEF Certs
  <2>2. x \in PartyId
    BY SubmittedIdsAreIds
  <2>3. Sane(x)
    <3>1. CASE \E s \in Submissions : x = s.party
      BY <3>1
    <3>2. CASE \E s \in Submissions : x = alignPartyIDWithCertificate(s.party, s.cert)
      <4>1. PICK s \in Submissions : x = alignPartyIDWithCertificate(s.party, s.cert)
        BY <3>2
      <4>2. s.cert \in PartyId \cup {NoCert, BadCert}
        BY WellTypedSubmissions
      <4> QED
        BY <4>1, <4>2, CertificateIdSane DEF alignPartyIDWithCertificate
    <3> QED BY <3>1, <3>2 DEF SubmittedIds
  <2> QED BY <2>1, <2>2, <2>3, V3IdsSettle
<1> QED BY <1>1 DEF IdsSettle

-----------------------------------------------------------------------------
(* Where a registration comes from                                           *)

\* The strengthening: every copy of a row still leads to the id its submitted
\* data leads to, belongs to the owner of the stored row, and every
\* registration was made for the owner of its proposal.
Follows(row) ==
    /\ row.submitted \in SubmittedIds /\ row.cert \in Certs
    /\ RegistryId(Version, row.party, row.cert)
         = RegistryId(Version, row.submitted, row.cert)

RowsFollow == \A i \in DOMAIN rows : Follows(rows[i])
RequestsFollow ==
    \A w \in Workers :
      reqs[w] # Idle => /\ Follows(reqs[w].row)
                        /\ reqs[w].row.owner = rows[reqs[w].id].owner
Originates(r) ==
    /\ r.proposal \in DOMAIN rows /\ r.owner = rows[r.proposal].owner
    /\ r.party \in RegistrableIds
    /\ r.party = RegistryId(Version, r.submitted, r.cert)
OriginInv == RowsFollow /\ RequestsFollow /\ \A r \in registry : Originates(r)

\* Empty tables follow from what was submitted.
LEMMA OriginInit == Init => OriginInv
BY DEF Init, OriginInv, RowsFollow, RequestsFollow

\* A request whose copy follows from the submitted data keeps the invariant.
LEMMA BeginOrigin ==
    ASSUME TypeOK, OriginInv, NEW w \in Workers, NEW i \in DOMAIN rows,
           NEW op, NEW stage, NEW row, Begin(w, op, stage, i, row),
           Follows(row), row.owner = rows[i].owner,
           UNCHANGED <<rows, registry>>
    PROVE  OriginInv'
<1> DEFINE new == [op |-> op, stage |-> stage, id |-> i, row |-> row]
<1>1. new.row = row /\ new.id = i /\ reqs' = [reqs EXCEPT ![w] = new]
  BY DEF Begin
<1> HIDE DEF new
<1>2. \A v \in Workers : reqs'[v] = IF v = w THEN new ELSE reqs[v]
  BY <1>1 DEF TypeOK
<1>3. RequestsFollow'
  BY <1>1, <1>2 DEF OriginInv, RequestsFollow, Follows
<1>4. RowsFollow' /\ \A r \in registry' : Originates(r)'
  BY DEF OriginInv, RowsFollow, Originates, Follows
<1> QED BY <1>3, <1>4 DEF OriginInv

\* A request that ends takes nothing but its copy along.
LEMMA EndOrigin ==
    ASSUME TypeOK, OriginInv, NEW w \in Workers,
           reqs' = [reqs EXCEPT ![w] = Idle], UNCHANGED <<rows, registry>>
    PROVE  OriginInv'
BY DEF TypeOK, OriginInv, RowsFollow, RequestsFollow, Originates, Follows

\* A row's own changes: the status, the signature and the papers leave the ids
\* and the owner alone, a modification submits new ones.
LEMMA CopyFollows ==
    ASSUME TypeOK, OriginInv, NEW i \in DOMAIN rows, NEW row \in Row,
           row.submitted = rows[i].submitted, row.party = rows[i].party,
           row.cert = rows[i].cert
    PROVE  Follows(row)
BY DEF OriginInv, RowsFollow, Follows

\* A new row follows from the submission it was made of.
LEMMA ProposeOrigin ==
    ASSUME TypeOK, OriginInv, NEW u \in Applicants, NEW s \in Submissions,
           NEW status \in {"pending", "signed"}, HandlePropose(u, s, status)
    PROVE  OriginInv'
<1> DEFINE party == alignPartyIDWithCertificate(s.party, s.cert)
           new == [owner |-> u, status |-> status, party |-> party,
                   cert |-> s.cert, via |-> "", papers |-> {},
                   assertion |-> FALSE, submitted |-> party]
<1>1. rows' = Append(rows, new) /\ UNCHANGED <<reqs, registry>>
  BY DEF HandlePropose
<1>2. Follows(new)
  BY SubmissionTypes DEF Follows, SubmittedIds
<1> HIDE DEF new
<1>3. rows \in Seq(Row)
  BY DEF TypeOK
<1>4. /\ DOMAIN rows \subseteq DOMAIN rows'
      /\ \A j \in DOMAIN rows : rows'[j] = rows[j]
      /\ \A j \in DOMAIN rows' : j \in DOMAIN rows \/ rows'[j] = new
  BY <1>1, <1>3
<1>5. RowsFollow'
  <2> SUFFICES ASSUME NEW j \in DOMAIN rows' PROVE Follows(rows'[j])
    BY DEF RowsFollow, Follows
  <2>1. rows'[j] = new \/ (j \in DOMAIN rows /\ rows'[j] = rows[j])
    BY <1>4
  <2> QED BY <1>2, <2>1 DEF OriginInv, RowsFollow
<1>6. RequestsFollow'
  <2>1. \A w \in Workers : reqs[w] # Idle => reqs[w].id \in DOMAIN rows
    BY DEF TypeOK
  <2> QED BY <1>1, <1>4, <2>1 DEF OriginInv, RequestsFollow, Follows
<1>7. \A r \in registry' : Originates(r)'
  BY <1>1, <1>4 DEF OriginInv, Originates
<1> QED BY <1>5, <1>6, <1>7 DEF OriginInv

\* A registration is made under the id that follows from the submitted one.
LEMMA RegistrationOriginates ==
    ASSUME TypeOK, OriginInv, NEW w \in Workers, reqs[w] # Idle
    PROVE  /\ Originates(RegistrationOf(reqs[w].id, reqs[w].row))
           /\ RegistrationOf(reqs[w].id, reqs[w].row).party
                = RegistryId(Version, reqs[w].row.submitted, reqs[w].row.cert)
<1> DEFINE q == reqs[w]
           new == RegistrationOf(q.id, q.row)
<1>1. q.id \in DOMAIN rows /\ Follows(q.row) /\ q.row.owner = rows[q.id].owner
  BY RequestAt DEF OriginInv, RequestsFollow
<1>2. /\ new.proposal = q.id /\ new.owner = q.row.owner /\ new.cert = q.row.cert
      /\ new.submitted = q.row.submitted
      /\ new.party = RegistryId(Version, q.row.party, q.row.cert)
  BY DEF RegistrationOf
<1> HIDE DEF new
<1>3. new.party = RegistryId(Version, q.row.submitted, q.row.cert)
  BY <1>1, <1>2 DEF Follows
<1>4. new.party \in RegistrableIds
  BY <1>1, <1>3 DEF Follows, RegistrableIds
<1> QED BY <1>1, <1>2, <1>3, <1>4 DEF Originates, new

\* A registration originates from its row; where ids settle, the copy that took
\* the new id still leads to the same one.
LEMMA RegisterOrigin ==
    ASSUME TypeOK, OriginInv, IdsSettle, NEW w \in Workers,
           RegistryAccepts(w) \/ AnswerIsLost(w)
    PROVE  OriginInv'
<1> DEFINE q == reqs[w]
           new == RegistrationOf(q.id, q.row)
<1>1. q # Idle /\ q \in Request /\ q.id \in DOMAIN rows /\ q.row \in Row
  BY RequestAt DEF RegistryAccepts, AnswerIsLost, Posting
<1>2. Originates(new) /\ new.party = RegistryId(Version, q.row.submitted, q.row.cert)
  BY <1>1, RegistrationOriginates
<1>3. registry' = registry \cup {new} /\ UNCHANGED rows
  BY DEF RegistryAccepts, AnswerIsLost
<1>4. /\ \A v \in Workers : v # w => reqs'[v] = reqs[v]
      /\ \/ reqs'[w] = Idle
         \/ reqs'[w] = [q EXCEPT !.row.party = new.party,
                                 !.row.status = "completed", !.stage = "grant"]
  BY <1>1 DEF RegistryAccepts, AnswerIsLost, TypeOK
<1> HIDE DEF new
<1>5. Follows(q.row) /\ q.row.owner = rows[q.id].owner
  BY <1>1 DEF OriginInv, RequestsFollow
<1>6. reqs'[w] = Idle \/ (/\ reqs'[w].id = q.id
                          /\ reqs'[w].row.owner = q.row.owner
                          /\ reqs'[w].row.cert = q.row.cert
                          /\ reqs'[w].row.submitted = q.row.submitted
                          /\ reqs'[w].row.party = new.party)
  <2>1. /\ DOMAIN q = {"op", "stage", "id", "row"}
        /\ DOMAIN q.row = {"owner", "status", "party", "cert", "via", "papers",
                           "assertion", "submitted"}
    BY <1>1 DEF Request, Row
  <2> HIDE DEF q
  <2>2. CASE reqs'[w] = Idle
    BY <2>2
  <2>3. CASE reqs'[w] = [q EXCEPT !.row.party = new.party,
                                  !.row.status = "completed", !.stage = "grant"]
    <3>1. /\ reqs'[w].id = q.id
          /\ reqs'[w].row = [q.row EXCEPT !.party = new.party,
                                          !.status = "completed"]
      BY <2>1, <2>3
    <3> QED BY <2>1, <3>1
  <2> QED BY <1>4, <2>2, <2>3
<1>7. reqs'[w] # Idle => Follows(reqs'[w].row)
  <2>1. Settles(q.row.submitted, q.row.cert)
    BY <1>5 DEF IdsSettle, Follows
  <2> QED BY <1>2, <1>5, <1>6, <2>1 DEF Follows, Settles
<1>8. RequestsFollow'
  <2>1. ASSUME NEW v \in Workers, reqs'[v] # Idle
        PROVE  Follows(reqs'[v].row) /\ reqs'[v].row.owner = rows[reqs'[v].id].owner
    <3>1. CASE v = w
      BY <1>5, <1>6, <1>7, <2>1, <3>1
    <3>2. CASE v # w
      BY <1>4, <2>1, <3>2 DEF OriginInv, RequestsFollow
    <3> QED BY <3>1, <3>2
  <2> QED BY <1>3, <2>1 DEF RequestsFollow, Follows
<1>9. RowsFollow' /\ \A r \in registry' : Originates(r)'
  BY <1>2, <1>3 DEF OriginInv, RowsFollow, Originates, Follows
<1> QED BY <1>8, <1>9 DEF OriginInv

\* Granting changes neither rows nor copies.
LEMMA GrantOrigin ==
    ASSUME TypeOK, OriginInv, NEW w \in Workers, GrantPartyAdmin(w)
    PROVE  OriginInv'
<1>1. reqs[w] # Idle /\ reqs[w] \in Request
  BY RequestAt DEF GrantPartyAdmin
<1>2. /\ \A v \in Workers : v # w => reqs'[v] = reqs[v]
      /\ reqs'[w].row = reqs[w].row /\ reqs'[w].id = reqs[w].id
  BY <1>1 DEF GrantPartyAdmin, TypeOK, Request
<1>3. RequestsFollow'
  <2>1. ASSUME NEW v \in Workers, reqs'[v] # Idle
        PROVE  Follows(reqs'[v].row) /\ reqs'[v].row.owner = rows[reqs'[v].id].owner
    BY <1>1, <1>2, <2>1 DEF OriginInv, RequestsFollow
  <2> QED BY <2>1 DEF RequestsFollow, Follows, GrantPartyAdmin
<1> QED
  BY <1>3 DEF OriginInv, RowsFollow, Originates, Follows, GrantPartyAdmin

\* A saved copy brings its origin to the row.
LEMMA SaveOrigin ==
    ASSUME TypeOK, OriginInv, NEW w \in Workers, Save(w)
    PROVE  OriginInv'
<1> DEFINE q == reqs[w]
<1>1. q # Idle /\ q \in Request /\ q.id \in DOMAIN rows /\ q.row \in Row
  BY RequestAt DEF Save, Saving
<1>2. /\ DOMAIN rows' = DOMAIN rows /\ rows'[q.id] = q.row
      /\ \A j \in DOMAIN rows : j # q.id => rows'[j] = rows[j]
  BY <1>1, SaveType DEF Save
<1>3. Follows(q.row) /\ q.row.owner = rows[q.id].owner
  BY <1>1 DEF OriginInv, RequestsFollow
<1>4. \A j \in DOMAIN rows : rows'[j].owner = rows[j].owner
  BY <1>2, <1>3
<1>5. \A v \in Workers : reqs'[v] = Idle \/ reqs'[v] = reqs[v]
  BY DEF Save, TypeOK
<1>6. \A v \in Workers : reqs[v] # Idle => reqs[v].id \in DOMAIN rows
  BY DEF TypeOK
<1>7. RowsFollow'
  <2> SUFFICES ASSUME NEW j \in DOMAIN rows PROVE Follows(rows'[j])
    BY <1>2 DEF RowsFollow, Follows
  <2> QED BY <1>2, <1>3 DEF OriginInv, RowsFollow
<1>8. RequestsFollow'
  BY <1>4, <1>5, <1>6 DEF OriginInv, RequestsFollow, Follows
<1>9. \A r \in registry' : Originates(r)'
  BY <1>2, <1>4 DEF OriginInv, Originates, Save
<1> QED BY <1>7, <1>8, <1>9 DEF OriginInv

\* Every step keeps rows, copies and registrations traceable to submissions.
LEMMA OriginStep ==
    ASSUME IdsSettle, TypeOK, OriginInv, [Next]_vars
    PROVE  OriginInv'
<1>1. CASE Submit
  BY <1>1, ProposeOrigin DEF Submit
<1>2. ASSUME NEW w \in Workers, Decide(w) PROVE OriginInv'
  <2>1. PICK i \in DOMAIN rows : ApproveProposal(w, i) \/ RejectProposal(w, i)
    BY <1>2 DEF Decide
  <2>2. \A st \in Status :
           LET row == [rows[i] EXCEPT !.status = st]
           IN  /\ row \in Row /\ row.owner = rows[i].owner
               /\ row.submitted = rows[i].submitted /\ row.cert = rows[i].cert
               /\ row.party = rows[i].party
    BY RowAt DEF Row
  <2> QED
    BY <2>1, <2>2, CopyFollows, BeginOrigin
    DEF ApproveProposal, RejectProposal, Status
<1>3. ASSUME NEW w \in Workers, Sign(w) PROVE OriginInv'
  <2>1. ASSUME NEW caller \in Users, NEW owner \in Applicants,
               NEW i \in DOMAIN rows, SignWithEherkenning(w, caller, owner, i)
        PROVE  OriginInv'
    <3> DEFINE row == [rows[i] EXCEPT !.assertion = TRUE, !.papers = {},
                                      !.via = "eherkenning", !.status = "signed"]
    <3>1. /\ row \in Row /\ row.owner = rows[i].owner
          /\ row.submitted = rows[i].submitted /\ row.cert = rows[i].cert
          /\ row.party = rows[i].party
      BY RowAt DEF Row, Status
    <3> QED BY <2>1, <3>1, CopyFollows, BeginOrigin DEF SignWithEherkenning
  <2>2. ASSUME NEW caller \in Users, NEW owner \in Applicants,
               NEW i \in DOMAIN rows, NEW n \in Files,
               SignManually(w, caller, owner, i, n)
        PROVE  OriginInv'
    <3> DEFINE row == [rows[i] EXCEPT !.papers = FreshNames(n),
                                      !.via = "manual", !.status = "signed"]
    <3>1. FreshNames(n) \subseteq Files
      BY <2>2, Bounds DEF SignManually, FreshNames, Files, TypeOK
    <3>2. /\ row \in Row /\ row.owner = rows[i].owner
          /\ row.submitted = rows[i].submitted /\ row.cert = rows[i].cert
          /\ row.party = rows[i].party
      BY <3>1, RowAt DEF Row, Status
    <3> QED BY <2>2, <3>2, CopyFollows, BeginOrigin DEF SignManually
  <2> QED BY <1>3, <2>1, <2>2 DEF Sign
<1>4. ASSUME NEW w \in Workers, Modify(w) PROVE OriginInv'
  <2>1. PICK caller \in Users, owner \in Applicants, i \in DOMAIN rows,
             s \in Submissions : ModifyProposal(w, caller, owner, i, s)
    BY <1>4 DEF Modify
  <2> DEFINE row == [rows[i] EXCEPT !.party = s.party, !.submitted = s.party,
                                    !.status = "pending"]
  <2>2. /\ row \in Row /\ row.owner = rows[i].owner
        /\ row.submitted = s.party /\ row.party = s.party
    BY RowAt, SubmissionTypes DEF Row, Status
  <2>3. Follows(row)
    BY <2>2 DEF Follows, SubmittedIds, Row
  <2> QED BY <2>1, <2>2, <2>3, BeginOrigin DEF ModifyProposal
<1>5. ASSUME NEW w \in Workers, Complete(w) PROVE OriginInv'
  BY <1>5, RowAt, CopyFollows, BeginOrigin DEF Complete, CompleteProposal
<1>6. ASSUME NEW w \in Workers, Proceed(w) PROVE OriginInv'
  <2>1. ASSUME CompletionFails(w) \/ SaveFails(w) PROVE OriginInv'
    BY <2>1, EndOrigin DEF CompletionFails, SaveFails
  <2> QED BY <1>6, <2>1, RegisterOrigin, GrantOrigin, SaveOrigin DEF Proceed
<1>7. CASE Crash
  BY <1>7 DEF Crash, OriginInv, RowsFollow, RequestsFollow, Originates, Follows
<1>8. CASE UNCHANGED vars
  BY <1>8 DEF vars, OriginInv, RowsFollow, RequestsFollow, Originates, Follows
<1> QED BY <1>1, <1>2, <1>3, <1>4, <1>5, <1>6, <1>7, <1>8 DEF Next

\* A party is registered under the id that follows from what its applicant
\* submitted, however often it is signed and completed again, wherever ids
\* settle: always on version 3 (V3Settles), never on 2.1 and 2.2.
THEOREM RegisteredAsSubmitted ==
    ASSUME IdsSettle
    PROVE  Spec => []RegisteredUnderSubmittedId
<1>1. Init => TypeOK /\ OriginInv
  BY InitType, OriginInit
<1>2. TypeOK /\ OriginInv /\ [Next]_vars => TypeOK' /\ OriginInv'
  BY TypeStep, OriginStep
<1>3. OriginInv => RegisteredUnderSubmittedId
  BY DEF OriginInv, Originates, RegisteredUnderSubmittedId
<1> QED BY <1>1, <1>2, <1>3, PTL DEF Spec

-----------------------------------------------------------------------------
(* The refinement                                                            *)

\* The empty portal is the registrar's initial state.
LEMMA LifecycleInit == Init => Lifecycle!Init
BY DEF Init, Lifecycle!Init, PartiesRegistered, CompletedAs

\* What the registrar sees does not change.
LEMMA LifecycleStutter ==
    ASSUME UNCHANGED <<rows, registry, partyAttr>>
    PROVE  UNCHANGED Lifecycle!vars
BY DEF Lifecycle!vars, PartiesRegistered, CompletedAs

\* The registrar does not see a new proposal.
LEMMA ProposeLifecycle ==
    ASSUME TypeOK, NEW u \in Applicants, NEW s \in Submissions,
           NEW status \in {"pending", "signed"}, HandlePropose(u, s, status)
    PROVE  UNCHANGED Lifecycle!vars
<1> DEFINE party == alignPartyIDWithCertificate(s.party, s.cert)
           new == [owner |-> u, status |-> status, party |-> party,
                   cert |-> s.cert, via |-> "", papers |-> {},
                   assertion |-> FALSE, submitted |-> party]
<1>1. /\ rows' = Append(rows, new) /\ new.status # "completed"
      /\ UNCHANGED <<registry, partyAttr>>
  BY DEF HandlePropose
<1> HIDE DEF new
<1>2. rows \in Seq(Row)
  BY DEF TypeOK
<1>3. /\ DOMAIN rows \subseteq DOMAIN rows'
      /\ \A j \in DOMAIN rows : rows'[j] = rows[j]
      /\ \A j \in DOMAIN rows' : j \in DOMAIN rows \/ rows'[j] = new
  BY <1>1, <1>2
<1>4. ASSUME NEW i \in 1..MaxProposals
      PROVE  (IF i \in DOMAIN rows' /\ rows'[i].status = "completed"
              THEN rows'[i].party ELSE NoParty)
           = (IF i \in DOMAIN rows /\ rows[i].status = "completed"
              THEN rows[i].party ELSE NoParty)
  BY <1>1, <1>3
<1> QED BY <1>1, <1>4 DEF Lifecycle!vars, PartiesRegistered, CompletedAs

\* A registration, answered or not, is the registrar's Register.
LEMMA RegisterLifecycle ==
    ASSUME TypeOK, OriginInv, NEW w \in Workers,
           RegistryAccepts(w) \/ AnswerIsLost(w)
    PROVE  Lifecycle!Next
<1> DEFINE q == reqs[w]
           new == RegistrationOf(q.id, q.row)
           p == new.proposal
           o == new.owner
           x == new.party
<1>1. q # Idle /\ q.id \in DOMAIN rows /\ q.row \in Row
  BY RequestAt DEF RegistryAccepts, AnswerIsLost, Posting
<1>2. Originates(new) /\ new.proposal = q.id /\ new.owner = q.row.owner
  BY <1>1, RegistrationOriginates DEF RegistrationOf
<1>3. registry' = registry \cup {new} /\ UNCHANGED <<rows, partyAttr>>
  BY DEF RegistryAccepts, AnswerIsLost
<1>4. p \in 1..MaxProposals /\ o \in Applicants /\ x \in RegistrableIds
  BY <1>1, <1>2, RowAt DEF Originates, Row
<1> HIDE DEF new
<1>5. \A r \in registry : r.proposal = p => r.owner = o
  BY <1>2 DEF OriginInv, Originates
<1>6. PartiesRegistered' = PartiesRegistered \cup {<<p, o, x>>}
  BY <1>3 DEF PartiesRegistered
<1>7. \A r \in PartiesRegistered : r[1] = p => r[2] = o
  BY <1>5 DEF PartiesRegistered
<1>8. CompletedAs' = CompletedAs
  BY <1>3 DEF CompletedAs
<1>9. Lifecycle!Register(p, o, x)
  BY <1>3, <1>6, <1>7, <1>8 DEF Lifecycle!Register
<1> HIDE DEF p, o, x
<1> QED BY <1>4, <1>9 DEF Lifecycle!Next

\* Granting the attribute is the registrar's Appoint, or nothing.
LEMMA GrantLifecycle ==
    ASSUME TypeOK, RegInv, OriginInv, NEW w \in Workers, GrantPartyAdmin(w)
    PROVE  [Lifecycle!Next]_(Lifecycle!vars)
<1> DEFINE q == reqs[w]
           row == q.row
<1>1. q # Idle /\ q.id \in DOMAIN rows /\ row \in Row
  BY RequestAt DEF GrantPartyAdmin
<1>2. PICK r \in registry :
         r.proposal = q.id /\ r.owner = row.owner /\ r.party = row.party
  BY <1>1 DEF RegInv, RequestsOK, RequestOK, GrantPartyAdmin, Registered
<1>3. q.id \in 1..MaxProposals /\ row.owner \in Applicants
      /\ row.party \in RegistrableIds
  BY <1>1, <1>2, RowAt DEF OriginInv, Originates, Row
<1>4. UNCHANGED <<rows, registry>>
  BY DEF GrantPartyAdmin
<1>5. CASE partyAttr' = partyAttr
  BY <1>4, <1>5, LifecycleStutter
<1>6. CASE partyAttr' = [partyAttr EXCEPT ![row.owner] = row.party]
  <2>1. <<q.id, row.owner, row.party>> \in PartiesRegistered
    BY <1>2 DEF PartiesRegistered
  <2>2. UNCHANGED <<PartiesRegistered, CompletedAs>>
    BY <1>4 DEF PartiesRegistered, CompletedAs
  <2>3. Lifecycle!Appoint(q.id, row.owner, row.party)
    BY <1>6, <2>1, <2>2 DEF Lifecycle!Appoint
  <2> HIDE DEF row, q
  <2> QED BY <1>3, <2>3 DEF Lifecycle!Next
<1> QED BY <1>5, <1>6 DEF GrantPartyAdmin

\* Saving a row is the registrar's Complete or Reopen, or nothing.
LEMMA SaveLifecycle ==
    ASSUME TypeOK, RegInv, OriginInv, NEW w \in Workers, Save(w)
    PROVE  [Lifecycle!Next]_(Lifecycle!vars)
<1> DEFINE q == reqs[w]
           row == q.row
           p == q.id
           o == row.owner
           x == row.party
<1>1. q # Idle /\ p \in DOMAIN rows /\ row \in Row /\ p \in 1..MaxProposals
  BY RequestAt, RowAt DEF Save, Saving
<1>2. /\ DOMAIN rows' = DOMAIN rows /\ rows'[p] = row
      /\ \A j \in DOMAIN rows : j # p => rows'[j] = rows[j]
  BY <1>1, SaveType DEF Save
<1>3. UNCHANGED <<PartiesRegistered, partyAttr>>
  BY DEF Save, PartiesRegistered
<1>4. /\ CompletedAs' = [CompletedAs EXCEPT
                           ![p] = IF row.status = "completed" THEN x ELSE NoParty]
      /\ CompletedAs = [CompletedAs EXCEPT ![p] = CompletedAs[p]]
  BY <1>1, <1>2 DEF CompletedAs
<1>5. CASE row.status = "completed"
  <2>1. PICK r \in registry : r.proposal = p /\ r.owner = o /\ r.party = x
    BY <1>1, <1>5 DEF RegInv, RequestsOK, RequestOK, Save, Saving, Registered
  <2>2. <<p, o, x>> \in PartiesRegistered
    BY <2>1 DEF PartiesRegistered
  <2>3. o \in Applicants /\ x \in RegistrableIds
    BY <1>1, <2>1 DEF OriginInv, Originates, Row
  <2>4. Lifecycle!Complete(p, o, x)
    BY <1>3, <1>4, <1>5, <2>2 DEF Lifecycle!Complete
  <2> HIDE DEF p, o, x
  <2> QED BY <1>1, <2>3, <2>4 DEF Lifecycle!Next
<1>6. CASE row.status # "completed" /\ CompletedAs[p] # NoParty
  <2>1. Lifecycle!Reopen(p)
    BY <1>3, <1>4, <1>6 DEF Lifecycle!Reopen
  <2> HIDE DEF p
  <2> QED BY <1>1, <2>1 DEF Lifecycle!Next
<1>7. CASE row.status # "completed" /\ CompletedAs[p] = NoParty
  BY <1>3, <1>4, <1>7 DEF Lifecycle!vars
<1> QED BY <1>5, <1>6, <1>7

\* Every step of the workflow is a step of the registrar's view or a stutter.
LEMMA LifecycleStep ==
    ASSUME TypeOK, RegInv, OriginInv, [Next]_vars
    PROVE  [Lifecycle!Next]_(Lifecycle!vars)
<1>1. CASE Submit
  BY <1>1, ProposeLifecycle DEF Submit
<1>2. ASSUME NEW w \in Workers, Decide(w) \/ Sign(w) \/ Modify(w) \/ Complete(w)
      PROVE  UNCHANGED Lifecycle!vars
  <2>1. UNCHANGED <<rows, registry, partyAttr>>
    BY <1>2 DEF Decide, ApproveProposal, RejectProposal, Sign,
                SignWithEherkenning, SignManually, Modify, ModifyProposal,
                Complete, CompleteProposal
  <2> QED BY <2>1, LifecycleStutter
<1>3. ASSUME NEW w \in Workers, Proceed(w)
      PROVE  [Lifecycle!Next]_(Lifecycle!vars)
  <2>1. CASE CompletionFails(w) \/ SaveFails(w)
    BY <2>1, LifecycleStutter DEF CompletionFails, SaveFails
  <2> QED
    BY <1>3, <2>1, RegisterLifecycle, GrantLifecycle, SaveLifecycle DEF Proceed
<1>4. CASE Crash
  BY <1>4, LifecycleStutter DEF Crash
<1>5. CASE UNCHANGED vars
  BY <1>5, LifecycleStutter DEF vars
<1> QED BY <1>1, <1>2, <1>3, <1>4, <1>5 DEF Next

\* The request-level workflow, with its snapshots, failures and restarts,
\* implements what ProposalLifecycle promises a registrar, wherever ids settle.
THEOREM WorkflowImplementsLifecycle ==
    ASSUME IdsSettle
    PROVE  Spec => ImplementsLifecycle
<1>1. Init => TypeOK /\ RegInv /\ OriginInv
  BY InitType, RegInit, OriginInit
<1>2. TypeOK /\ RegInv /\ OriginInv /\ [Next]_vars
        => TypeOK' /\ RegInv' /\ OriginInv'
  BY TypeStep, RegStep, OriginStep
<1>3. TypeOK /\ RegInv /\ OriginInv /\ [Next]_vars
        => [Lifecycle!Next]_(Lifecycle!vars)
  BY LifecycleStep
<1> QED
  BY <1>1, <1>2, <1>3, LifecycleInit, PTL
  DEF Spec, ImplementsLifecycle, Lifecycle!Spec
=============================================================================
