---------------------------- MODULE AgreementForm ----------------------------
(* The agreements on the settings page (pages/settings.tsx): the list, and   *)
(* the form that adds a PDF or the address of one with the credentials to    *)
(* fetch it. Which types the form offers depends on the framework version of *)
(* the registry, which is asked for when the page opens and when the         *)
(* connection is tested, also while an agreement is being added. The store   *)
(* and its documents are PortalSettings' and AgreementDocs'.                 *)
EXTENDS Naturals, FiniteSets

CONSTANTS
    TypesOf,        \* claim model or not -> the types offered, the first one first
    Credentials,    \* what can be typed as one, whatever the method
    Methods,        \* the methods that take credentials
    Blank,
    MaxAgreements,  \* bound: agreements ever added
    MaxCalls        \* bound: calls under way

\* Assumed of the constants (Console).
FormAssumption ==
    /\ DOMAIN TypesOf = BOOLEAN
    /\ \A m \in BOOLEAN : TypesOf[m].first \in TypesOf[m].all
    /\ "custom" \in Methods /\ Blank \notin Credentials /\ MaxAgreements \in Nat /\ MaxCalls \in Nat

VARIABLES
    stored, added,  \* the agreements in the settings row, how many were added
    tray,           \* the mounted form and list, or Closed
    trayCalls       \* their calls under way

vars == <<stored, added, tray, trayCalls>>

-----------------------------------------------------------------------------
Closed == [open |-> FALSE]
Nothing == [none |-> TRUE]
AllTypes == TypesOf[TRUE].all \cup TypesOf[FALSE].all
NoAuth == [method |-> "none", value |-> Blank]
Auth == {NoAuth} \cup [method : Methods, value : Credentials \cup {Blank}]
\* filled: the modes whose required fields are. fresh: the credentials were typed
\* since an agreement was last added.
Form == [open : {TRUE}, claimModel : BOOLEAN, type : AllTypes, mode : {"file", "url"},
         filled : SUBSET {"file", "url"}, auth : Auth, fresh : BOOLEAN,
         busy : BOOLEAN, testing : BOOLEAN, rows : SUBSET (1..MaxAgreements)]

Room == Cardinality(trayCalls) < MaxCalls
agreementTypeOptions(p) == TypesOf[p.claimModel]
ListCall(adding) == [kind |-> "list", adding |-> adding, answer |-> Nothing]

\* The type that is selected is kept to those on offer at every render.
Clamped(p) ==
    IF p.type \in agreementTypeOptions(p).all THEN p
    ELSE [p EXCEPT !.type = agreementTypeOptions(p).first]

Enter ==
    /\ tray = Closed
    /\ tray' = [open |-> TRUE, claimModel |-> FALSE, type |-> TypesOf[FALSE].first, mode |-> "file",
                filled |-> {}, auth |-> NoAuth, fresh |-> FALSE, busy |-> FALSE, testing |-> FALSE,
                rows |-> {}]
    /\ trayCalls' = {ListCall(FALSE), [kind |-> "connection"]}
    /\ UNCHANGED <<stored, added>>

\* The fields can be edited while an agreement is being added.
Fill ==
    /\ tray # Closed
    /\ \/ \E t \in agreementTypeOptions(tray).all : tray' = [tray EXCEPT !.type = t]
       \/ \E m \in {"file", "url"} : tray' = [tray EXCEPT !.mode = m]
       \/ tray' = [tray EXCEPT !.filled = @ \cup {tray.mode}]
    /\ UNCHANGED <<stored, added, trayCalls>>

\* Another method starts with empty fields.
chooseMethod(m) ==
    /\ tray # Closed /\ tray.mode = "url"
    /\ tray' = [tray EXCEPT !.auth = [method |-> m, value |-> Blank], !.fresh = FALSE]
    /\ UNCHANGED <<stored, added, trayCalls>>

typeCredential(v) ==
    /\ tray # Closed /\ tray.mode = "url" /\ tray.auth.method \in Methods \ {"custom"}
    /\ tray' = [tray EXCEPT !.auth.value = v, !.fresh = TRUE]
    /\ UNCHANGED <<stored, added, trayCalls>>

\* Of the headers one stands for all: it is added, named and filled in, or removed.
\* A header without a name counts as none (buildAgreementAuth).
updateAuthHeader(v) ==
    /\ tray # Closed /\ tray.mode = "url" /\ tray.auth.method = "custom"
    /\ tray' = [tray EXCEPT !.auth.value = v, !.fresh = TRUE]
    /\ UNCHANGED <<stored, added, trayCalls>>

\* The credentials of the method that is chosen.
buildAgreementAuth(p) == p.auth

\* The button, which does nothing while a field its mode requires is empty.
MayAdd(mode) == tray # Closed /\ ~tray.busy /\ tray.mode = mode /\ mode \in tray.filled /\ Room
Add(auth) ==
    /\ trayCalls' = trayCalls \cup
         {[kind |-> "add", type |-> tray.type, options |-> agreementTypeOptions(tray),
           auth |-> auth, fresh |-> tray.fresh]}
    /\ tray' = [tray EXCEPT !.busy = TRUE]
    /\ UNCHANGED <<stored, added>>

handleAddAgreementFile == MayAdd("file") /\ Add(NoAuth)
handleAddAgreementUrl == MayAdd("url") /\ Add(buildAgreementAuth(tray))

\* What the list shows, of whatever version.
Rows == IF tray = Closed THEN {} ELSE tray.rows

\* Once confirmed.
handleRemoveAgreement(n) ==
    /\ n \in Rows /\ Room
    /\ trayCalls' = trayCalls \cup {[kind |-> "remove", id |-> n]}
    /\ UNCHANGED <<stored, added, tray>>

handleTest ==
    /\ tray # Closed /\ ~tray.testing /\ Room
    /\ trayCalls' = trayCalls \cup {[kind |-> "test"]}
    /\ tray' = [tray EXCEPT !.testing = TRUE]
    /\ UNCHANGED <<stored, added>>

Leave ==
    /\ tray # Closed
    /\ tray' = Closed /\ trayCalls' = {}
    /\ stored' \in {stored} \cup {stored \ {c.id} : c \in {d \in trayCalls : d.kind = "remove"}}
    /\ UNCHANGED added

-----------------------------------------------------------------------------
\* Mutant: the credentials stay for the next agreement.
resetButAuth(p, options) == [p EXCEPT !.filled = {}, !.fresh = FALSE, !.type = options.first]
\* The type goes back to the first of those that were on offer at the click.
resetAgreementForm(p, options) ==
    [p EXCEPT !.filled = {}, !.auth = NoAuth, !.fresh = FALSE, !.type = options.first]

\* UploadAgreementFile, AddAgreementURL: stored, the form is reset, the list reloaded.
Added(c) ==
    /\ c \in trayCalls /\ c.kind = "add" /\ added < MaxAgreements
    /\ added' = added + 1 /\ stored' = stored \cup {added + 1}
    /\ tray' = Clamped(resetAgreementForm(tray, c.options))
    /\ trayCalls' = (trayCalls \ {c}) \cup {ListCall(TRUE)}

Removed(c) ==
    /\ c \in trayCalls /\ c.kind = "remove" /\ c.id \in stored
    /\ stored' = stored \ {c.id}
    /\ trayCalls' = (trayCalls \ {c}) \cup {ListCall(FALSE)}
    /\ UNCHANGED <<added, tray>>

\* Refused, or done and the answer lost: the form stays for another try.
AddFails(c) ==
    /\ c \in trayCalls /\ c.kind = "add"
    /\ \/ UNCHANGED <<stored, added>>
       \/ added < MaxAgreements /\ added' = added + 1 /\ stored' = stored \cup {added + 1}
    /\ tray' = [tray EXCEPT !.busy = FALSE]
    /\ trayCalls' = trayCalls \ {c}

RemoveFails(c) ==
    /\ c \in trayCalls /\ c.kind = "remove"
    /\ stored' \in {stored, stored \ {c.id}}
    /\ trayCalls' = trayCalls \ {c}
    /\ UNCHANGED <<added, tray>>

\* checkStatus, and handleTest when it was told a version.
Probed(c, claimModel) ==
    /\ c \in trayCalls /\ c.kind \in {"connection", "test"}
    /\ tray' = Clamped([tray EXCEPT !.claimModel = claimModel, !.testing = @ /\ c.kind # "test"])
    /\ trayCalls' = trayCalls \ {c}
    /\ UNCHANGED <<stored, added>>

ProbeFails(c) ==
    /\ c \in trayCalls /\ c.kind \in {"connection", "test"}
    /\ tray' = [tray EXCEPT !.testing = @ /\ c.kind # "test"]
    /\ trayCalls' = trayCalls \ {c}
    /\ UNCHANGED <<stored, added>>

Serve(c) ==
    /\ c \in trayCalls /\ c.kind = "list" /\ c.answer = Nothing
    /\ trayCalls' = (trayCalls \ {c}) \cup {[c EXCEPT !.answer = [ids |-> stored]]}
    /\ UNCHANGED <<stored, added, tray>>

\* reloadAgreements: the last answer stays, and a failure keeps the list.
Listed(c) ==
    /\ c \in trayCalls /\ c.kind = "list"
    /\ tray' = [tray EXCEPT !.busy = @ /\ ~c.adding,
                            !.rows = IF c.answer = Nothing THEN @ ELSE c.answer.ids]
    /\ trayCalls' = trayCalls \ {c}
    /\ UNCHANGED <<stored, added>>

Init == stored = {} /\ added = 0 /\ tray = Closed /\ trayCalls = {}

Work ==
    \/ Fill \/ handleAddAgreementFile \/ handleAddAgreementUrl \/ handleTest \/ Leave
    \/ \E m \in Methods \cup {"none"} : chooseMethod(m)
    \/ \E v \in Credentials : typeCredential(v)
    \/ \E v \in Credentials \cup {Blank} : updateAuthHeader(v)
    \/ \E n \in 1..MaxAgreements : handleRemoveAgreement(n)
    \/ \E c \in trayCalls :
          \/ Added(c) \/ Removed(c) \/ AddFails(c) \/ RemoveFails(c)
          \/ \E m \in BOOLEAN : Probed(c, m)
          \/ ProbeFails(c) \/ Serve(c) \/ Listed(c)

Spec == Init /\ [][Enter \/ Work]_vars

-----------------------------------------------------------------------------
TypeOK ==
    /\ added \in 0..MaxAgreements /\ stored \subseteq 1..added
    /\ tray \in {Closed} \cup Form

(* An agreement is added with a type that the framework version known at the *)
(* click has, though the version may change while the form is filled in or   *)
(* while another agreement is being added, whose end resets the type to one  *)
(* of the versions before.                                                   *)
TypeIsOnOffer == \A c \in trayCalls : c.kind = "add" => c.type \in c.options.all

(* The credentials of one document never go out with the next: after an      *)
(* agreement was added they have to be typed again, whatever was typed,      *)
(* switched or chosen while it was.                                          *)
CredentialsAreNotReused ==
    \A c \in trayCalls : c.kind = "add" /\ c.auth.value # Blank => c.fresh

\* What an agreement is added with was chosen and typed for it.
EachAgreementIsItsOwn == TypeIsOnOffer /\ CredentialsAreNotReused
=============================================================================
