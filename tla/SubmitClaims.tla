---------------------------- MODULE SubmitClaims ----------------------------
(* The form that creates a v3 party (components/SubmitClaimsForm): five      *)
(* steps over one list of claim drafts, certificate files that are read      *)
(* while the operator goes on, the registry connection whose defaults arrive *)
(* when they arrive, and one permanent creation at the end. The party id     *)
(* stands for the id and the name, which are prefilled alike.                *)
EXTENDS Naturals, Sequences, FiniteSets

CONSTANTS
    Files,      \* certificate files
    NoValue,    \* an empty field
    MaxExtras,  \* bound: claims beyond the minimum
    MaxReads    \* bound: files being read

\* Assumed of the constants (Console).
SubmitAssumption ==
    NoValue \notin Files /\ {MaxExtras, MaxReads} \subseteq Nat

VARIABLES
    form,       \* the mounted form, or Closed
    reads,      \* certificate files being read, by the claim index they are for
    posted      \* the creation the last step posted, or Nothing

vars == <<form, reads, posted>>

-----------------------------------------------------------------------------
Closed == [open |-> FALSE]
Nothing == [none |-> TRUE]
Steps == 0..4               \* certificate, party, framework, extras, review
Own == 0                    \* index of the party's own certificate claim
\* A validity window: one year from now, or that of a file.
Windows == {"year"} \cup Files
Certs == Files \cup {NoValue}
\* text: the required free-text fields of its type are filled.
Extra == [type : {"plain", "certificate"}, text : BOOLEAN, cert : Certs, window : Windows]
Identity == {"none", "typed"} \cup Files
\* What is posted. framework: agreement and role are filled.
Data == [id : Identity, framework : BOOLEAN, cert : Certs, window : Windows,
         extras : Seq(Extra)]
\* typed: the operator typed the id that is there. defaults: the window new
\* claims get. connection: fetchConnection has not answered.
\* seen: the data when the confirmation was ticked, unless a file was being
\* read then.
Form == [open : {TRUE}, step : Steps, data : Data, typed : BOOLEAN, defaults : Windows,
         connection : BOOLEAN, confirmed : BOOLEAN, seen : {Nothing} \cup Data,
         loading : BOOLEAN, response : BOOLEAN]

NewExtra(window) == [type |-> "plain", text |-> FALSE, cert |-> NoValue, window |-> window]
FirstData == [id |-> "none", framework |-> FALSE, cert |-> NoValue, window |-> "year",
              extras |-> <<>>]

\* REQUIRED_TEXT_FIELDS; every type needs its text but a certificate claim,
\* whose type has a default, needs a file.
Filled(extra) == IF extra.type = "certificate" THEN extra.cert # NoValue ELSE extra.text

stepError(step, d) ==
    \/ step = 1 /\ d.id = "none"
    \/ step = 2 /\ ~d.framework
    \/ step = 3 /\ \E i \in DOMAIN d.extras : ~Filled(d.extras[i])

At(step) == form # Closed /\ ~form.response /\ form.step = step
Edit(d) == form' = [form EXCEPT !.data = d] /\ UNCHANGED reads

-----------------------------------------------------------------------------
Enter ==
    /\ form = Closed
    /\ form' = [open |-> TRUE, step |-> 0, data |-> FirstData, typed |-> FALSE,
                defaults |-> "year", connection |-> TRUE, confirmed |-> FALSE,
                seen |-> Nothing, loading |-> FALSE, response |-> FALSE]
    /\ reads' = {} /\ posted' = Nothing

\* Away at any time, and by itself soon after a party was created.
Leave == form # Closed /\ form' = Closed /\ reads' = {}

\* fetchConnection: the defaults are built anew, and fill only empty fields.
ConnectionArrives ==
    /\ form # Closed /\ form.connection
    /\ \E reached \in BOOLEAN :
          form' = [form EXCEPT !.connection = FALSE,
                               !.defaults = IF reached THEN "year" ELSE @]
    /\ UNCHANGED reads

goNext ==
    /\ form # Closed /\ ~form.response /\ form.step < 4
    /\ ~stepError(form.step, form.data)
    /\ form' = [form EXCEPT !.step = @ + 1]
    /\ UNCHANGED reads

\* Mutant: the confirmation survives.
BackConfirmed(f) == [f EXCEPT !.step = @ - 1]

Back(f) == [f EXCEPT !.step = @ - 1, !.confirmed = FALSE, !.seen = Nothing]

goBack ==
    /\ form # Closed /\ ~form.response /\ form.step > 0
    /\ form' = Back(form)
    /\ UNCHANGED reads

\* A field that is emptied is free for the next certificate.
TypeId(id) ==
    /\ At(1) /\ form.data.id # id
    /\ form' = [form EXCEPT !.data.id = id, !.typed = (id = "typed")]
    /\ UNCHANGED reads

FillFramework(filled) ==
    /\ At(2) /\ form.data.framework # filled
    /\ Edit([form.data EXCEPT !.framework = filled])

AddExtra ==
    /\ At(3) /\ Len(form.data.extras) < MaxExtras
    /\ Edit([form.data EXCEPT !.extras = Append(@, NewExtra(form.defaults))])

RemoveExtra(i) ==
    /\ At(3)
    /\ Edit([form.data EXCEPT !.extras = SubSeq(@, 1, i - 1) \o SubSeq(@, i + 1, Len(@))])

\* The shared fields stay, the ones of the type go.
ChangeType(i, type) ==
    /\ At(3) /\ form.data.extras[i].type # type
    /\ Edit([form.data EXCEPT !.extras[i] = [@ EXCEPT !.type = type, !.text = FALSE,
                                                      !.cert = NoValue]])

FillExtra(i, filled) ==
    /\ At(3) /\ form.data.extras[i].type = "plain" /\ form.data.extras[i].text # filled
    /\ Edit([form.data EXCEPT !.extras[i].text = filled])

-----------------------------------------------------------------------------
(* Certificate files                                                         *)

Indexes == {Own} \cup DOMAIN form.data.extras
CertOf(d, i) == IF i = Own THEN d.cert ELSE d.extras[i].cert
WithCert(d, i, cert) ==
    IF i = Own THEN [d EXCEPT !.cert = cert]
    ELSE IF i \in DOMAIN d.extras THEN [d EXCEPT !.extras[i].cert = cert]
    ELSE d
\* Every claim's window follows the certificate's.
WithWindow(d, file) ==
    [d EXCEPT !.window = file,
              !.extras = [i \in DOMAIN @ |-> [@[i] EXCEPT !.window = file]]]

\* id: the field when the file was chosen.
ChooseFile(i, f) ==
    /\ form # Closed /\ ~form.response
    /\ form.step = IF i = Own THEN 0 ELSE 3
    /\ i # Own => form.data.extras[i].type = "certificate"
    /\ Cardinality(reads) < MaxReads
    /\ reads' = reads \cup {[index |-> i, file |-> f, id |-> form.data.id]}
    /\ UNCHANGED form

\* setPartyId(prev => prev || parsed.partyId)
Prefilled(r) == IF form.data.id = "none" THEN r.file ELSE form.data.id

\* The claim at that index now; the file may lack an identity or dates.
FileRead(r) ==
    /\ form # Closed /\ r \in reads
    /\ reads' = reads \ {r}
    /\ \E named, dated \in BOOLEAN :
         LET d == WithCert(form.data, r.index, r.file)
             e == IF dated THEN WithWindow(d, r.file) ELSE d
             id == IF named THEN Prefilled(r) ELSE e.id
         IN form' = [form EXCEPT !.data = [e EXCEPT !.id = id],
                                 !.defaults = IF dated THEN r.file ELSE @]

FileUnreadable(r) ==
    /\ form # Closed /\ r \in reads
    /\ reads' = reads \ {r}
    /\ form' = [form EXCEPT !.data = WithCert(@, r.index, NoValue)]

clearCert(i) ==
    /\ form # Closed /\ ~form.response
    /\ form.step = IF i = Own THEN 0 ELSE 3
    /\ CertOf(form.data, i) # NoValue
    /\ Edit(WithCert(form.data, i, NoValue))

-----------------------------------------------------------------------------
(* The creation                                                              *)

Tick(ticked) ==
    /\ At(4) /\ form.confirmed # ticked
    /\ form' = [form EXCEPT !.confirmed = ticked,
                            !.seen = IF ticked /\ reads = {} THEN form.data ELSE Nothing]
    /\ UNCHANGED reads

\* handleSubmit at the review step: a button, Enter or a double click.
MaySubmit(f) == f.confirmed /\ ~f.loading /\ ~f.response

Submit ==
    /\ At(4) /\ MaySubmit(form)
    /\ form' = [form EXCEPT !.loading = TRUE]
    /\ posted' = [data |-> form.data, seen |-> form.seen]
    /\ UNCHANGED reads

Created ==
    /\ form # Closed /\ form.loading
    /\ form' = [form EXCEPT !.loading = FALSE, !.response = TRUE]
    /\ UNCHANGED reads

\* Refused, or its answer was lost; the operator may try again.
Refused ==
    /\ form # Closed /\ form.loading
    /\ form' = [form EXCEPT !.loading = FALSE]
    /\ UNCHANGED reads

Init == form = Closed /\ reads = {} /\ posted = Nothing

Quietly ==
    \/ Leave \/ ConnectionArrives \/ goNext \/ goBack \/ AddExtra
    \/ Created \/ Refused
    \/ \E id \in {"none", "typed"} : TypeId(id)
    \/ \E b \in BOOLEAN : FillFramework(b) \/ Tick(b)
    \/ form # Closed /\ \E i \in DOMAIN form.data.extras :
          \/ RemoveExtra(i)
          \/ \E type \in {"plain", "certificate"} : ChangeType(i, type)
          \/ \E b \in BOOLEAN : FillExtra(i, b)
    \/ form # Closed /\ \E i \in Indexes :
          clearCert(i) \/ \E f \in Files : ChooseFile(i, f)
    \/ \E r \in reads : FileRead(r) \/ FileUnreadable(r)

Work == Submit \/ (Quietly /\ posted' = Nothing)

-----------------------------------------------------------------------------
TypeOK ==
    /\ form = Closed \/ form \in Form
    /\ reads \subseteq [index : 0..MaxExtras, file : Files, id : Identity]
    /\ posted = Nothing \/ posted \in [data : Data, seen : {Nothing} \cup Data]

(* A certificate that is read late never replaces an identity the operator   *)
(* typed meanwhile ("prefill only, never overwrite something the operator    *)
(* already typed", handleCertFile).                                          *)
IdentityIsTheOperators ==
    form # Closed /\ form.typed => form.data.id = "typed"

(* The party that is created, for good, is the one on the review when its    *)
(* box was ticked, unless a file was still being read then: going back takes *)
(* the tick away, and nothing on the review step changes a claim.            *)
WhatWasConfirmedIsCreated ==
    posted # Nothing /\ posted.seen # Nothing => posted.data = posted.seen

(* A party is posted with an identity and its framework claims, however the  *)
(* operator went back and forth, and whatever files came in late.            *)
MinimumIsFilled ==
    posted # Nothing => posted.data.id # "none" /\ posted.data.framework

\* The party that is created is the operator's, as it was confirmed, and whole.
CreationIsAsConfirmed == IdentityIsTheOperators /\ WhatWasConfirmedIsCreated /\ MinimumIsFilled
=============================================================================
