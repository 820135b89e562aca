----------------------------- MODULE Subscribers -----------------------------
(* The page of the issuer webhooks (pages/subscribers.tsx), its tab of       *)
(* subscribers: one form that creates or edits, a list that may be old, and  *)
(* signing secrets the registry shows once. Every call may be answered after *)
(* the operator went on. The registry is external; the url stands for all    *)
(* the fields an edit sends.                                                 *)
EXTENDS Naturals, FiniteSets

CONSTANTS
    Ids,        \* subscriber ids the registry may give out
    Urls, NoUrl,
    InitialHooks,   \* the subscribers at first: id -> url
    MaxCalls,   \* bound: calls under way
    MaxSecrets  \* bound: secrets generated

\* Assumed of the constants (Console).
SubscriberAssumption ==
    /\ NoUrl \notin Urls /\ {MaxCalls, MaxSecrets} \subseteq Nat
    /\ InitialHooks \in UNION {[known -> Urls] : known \in SUBSET Ids}

VARIABLES
    hooks,      \* the subscribers at the registry: id -> url (external)
    owner,      \* secrets generated so far, each with the id it signs for
    subs,       \* the mounted page, or Closed
    subCalls    \* its calls under way

vars == <<hooks, owner, subs, subCalls>>

-----------------------------------------------------------------------------
Closed == [open |-> FALSE]
Nothing == [none |-> TRUE]
NoId == "none"
Store == UNION {[known -> Urls] : known \in SUBSET Ids}
\* A subscriber is named after its id. row: the row that filled the form.
Form == [url : Urls \cup {NoUrl}, row : Ids \cup {NoId}]
EMPTY_FORM == [url |-> NoUrl, row |-> NoId]
Secret == [name : Ids, value : 1..MaxSecrets]
Page == [open : {TRUE}, rows : {Nothing} \cup Store, form : Form, editingId : Ids \cup {NoId},
         submitting : BOOLEAN, busyId : Ids \cup {NoId}, secret : {Nothing} \cup Secret]

\* name: what the secret of the answer will be announced for. editing: the
\* subscriber in the form when the call was made.
Call(kind, id) == [kind |-> kind, id |-> id, url |-> subs.form.url, row |-> subs.form.row,
                   supplied |-> FALSE, editing |-> subs.editingId, served |-> FALSE,
                   answer |-> Nothing, value |-> 0]
Room == Cardinality(subCalls) < MaxCalls
Ask(c) == subCalls' = subCalls \cup {c}
loadSubs == [kind |-> "list", served |-> FALSE, answer |-> Nothing]

\* Mutant: the form is emptied and keeps editing.
resetFields(p) == [p EXCEPT !.form = EMPTY_FORM]
resetForm(p) == [p EXCEPT !.form = EMPTY_FORM, !.editingId = NoId]

-----------------------------------------------------------------------------
Enter ==
    /\ subs = Closed
    /\ subs' = [open |-> TRUE, rows |-> Nothing, form |-> EMPTY_FORM, editingId |-> NoId,
                submitting |-> FALSE, busyId |-> NoId, secret |-> Nothing]
    /\ subCalls' = {loadSubs}
    /\ UNCHANGED <<hooks, owner>>

\* What the registry has not served yet it will not serve (a simplification:
\* nothing on this page depends on it any more).
Leave == subs # Closed /\ subs' = Closed /\ subCalls' = {} /\ UNCHANGED <<hooks, owner>>

\* The list is hidden while it loads.
Reloading(p) == [p EXCEPT !.rows = Nothing]

Refresh ==
    /\ subs # Closed /\ Room
    /\ subs' = Reloading(subs) /\ Ask(loadSubs)
    /\ UNCHANGED <<hooks, owner>>

Rows == IF subs = Closed \/ subs.rows = Nothing THEN {} ELSE DOMAIN subs.rows

\* Possible at any time, also while a submit is under way.
startEdit(id) ==
    /\ id \in Rows
    /\ subs' = [subs EXCEPT !.form = [url |-> subs.rows[id], row |-> id],
                            !.editingId = id, !.secret = Nothing]
    /\ UNCHANGED <<hooks, owner, subCalls>>

TypeUrl(url) ==
    /\ subs # Closed /\ subs.form.url # url
    /\ subs' = [subs EXCEPT !.form.url = url]
    /\ UNCHANGED <<hooks, owner, subCalls>>

Cancel ==
    /\ subs # Closed /\ subs.editingId # NoId /\ ~subs.submitting
    /\ subs' = resetForm(subs)
    /\ UNCHANGED <<hooks, owner, subCalls>>

Dismiss ==
    /\ subs # Closed /\ subs.secret # Nothing
    /\ subs' = [subs EXCEPT !.secret = Nothing]
    /\ UNCHANGED <<hooks, owner, subCalls>>

\* A create names a new subscriber; the operator may supply its secret.
submit ==
    /\ subs # Closed /\ ~subs.submitting /\ subs.form.url # NoUrl /\ Room
    /\ subs' = [subs EXCEPT !.submitting = TRUE]
    /\ IF subs.editingId # NoId
       THEN Ask(Call("update", subs.editingId))
       ELSE \E id \in Ids, supplied \in BOOLEAN :
               Ask([Call("create", id) EXCEPT !.supplied = supplied])
    /\ UNCHANGED <<hooks, owner>>

\* After a confirmation; only the row of the last such call is disabled.
OnRow(kind, id) ==
    /\ id \in Rows /\ subs.busyId # id /\ Room
    /\ subs' = [subs EXCEPT !.busyId = id]
    /\ Ask(Call(kind, id))
    /\ UNCHANGED <<hooks, owner>>

-----------------------------------------------------------------------------
\* The registry serves calls in any order, and refuses a subscriber it does
\* not know or a name it has.
Answered(c, answer) == subCalls' = (subCalls \ {c}) \cup {answer}
Known == DOMAIN hooks
Generates(c) == c.kind = "rotate" \/ (c.kind = "create" /\ ~c.supplied)

Serve(c) ==
    /\ c \in subCalls /\ ~c.served
    /\ UNCHANGED subs
    /\ \/ /\ c.kind = "list"
          /\ Answered(c, [c EXCEPT !.served = TRUE, !.answer = hooks]) /\ UNCHANGED <<hooks, owner>>
       \/ /\ c.kind # "list" /\ (c.kind = "create" <=> c.id \notin Known)
          /\ Generates(c) => Cardinality(DOMAIN owner) < MaxSecrets
          /\ LET value == Cardinality(DOMAIN owner) + 1
             IN /\ owner' = IF Generates(c)
                            THEN [v \in DOMAIN owner \cup {value} |->
                                     IF v = value THEN c.id ELSE owner[v]]
                            ELSE owner
                /\ Answered(c, [c EXCEPT !.served = TRUE,
                                         !.value = IF Generates(c) THEN value ELSE 0])
          /\ hooks' = CASE c.kind = "remove" -> [id \in Known \ {c.id} |-> hooks[id]]
                        [] c.kind = "rotate" -> hooks
                        [] OTHER -> [id \in Known \cup {c.id} |->
                                        IF id = c.id THEN c.url ELSE hooks[id]]

\* The answer reaches the page.
SubmitDone(p) == [resetForm(p) EXCEPT !.submitting = FALSE]
SecretOf(c) == [name |-> c.id, value |-> c.value]
Shown(p, c) == IF c.value = 0 THEN p ELSE [p EXCEPT !.secret = SecretOf(c)]
Removed(p, c) == IF c.editing = c.id THEN resetForm(p) ELSE p

Arrive(c) ==
    /\ c \in subCalls /\ c.served
    /\ LET rest == subCalls \ {c}
       IN IF c.kind = "list"
          THEN subs' = [subs EXCEPT !.rows = c.answer] /\ subCalls' = rest
          ELSE /\ subs' = Reloading(
                    CASE c.kind = "create" -> SubmitDone(Shown(subs, c))
                      [] c.kind = "update" -> SubmitDone(subs)
                      [] c.kind = "rotate" -> [Shown(subs, c) EXCEPT !.busyId = NoId]
                      [] c.kind = "remove" -> [Removed(subs, c) EXCEPT !.busyId = NoId])
               /\ subCalls' = rest \cup {loadSubs}
    /\ UNCHANGED <<hooks, owner>>

\* Refused, or the answer was lost after the registry had done it.
Fails(c) ==
    /\ c \in subCalls
    /\ subCalls' = subCalls \ {c}
    /\ subs' = CASE c.kind = "list" -> [subs EXCEPT !.rows = Nothing]
                 [] c.kind \in {"create", "update"} -> [subs EXCEPT !.submitting = FALSE]
                 [] OTHER -> [subs EXCEPT !.busyId = NoId]
    /\ UNCHANGED <<hooks, owner>>

Init ==
    /\ hooks = InitialHooks /\ owner = [v \in {} |-> NoId]
    /\ subs = Closed /\ subCalls = {}

Work ==
    \/ Leave \/ Refresh \/ Cancel \/ Dismiss \/ submit
    \/ \E url \in Urls : TypeUrl(url)
    \/ \E id \in Ids : startEdit(id) \/ OnRow("rotate", id) \/ OnRow("remove", id)
    \/ \E c \in subCalls : Serve(c) \/ Arrive(c) \/ Fails(c)

-----------------------------------------------------------------------------
TypeOK ==
    /\ hooks \in Store
    /\ DOMAIN owner \subseteq 1..MaxSecrets /\ \A v \in DOMAIN owner : owner[v] \in Ids
    /\ subs \in {Closed} \cup Page

(* A secret is announced for the subscriber it signs for, whatever the form  *)
(* holds by the time its answer comes: it is "never retrievable again", so   *)
(* a wrong name could not be noticed (the show-once secret of the page).     *)
SecretIsNamedRight ==
    subs # Closed /\ subs.secret # Nothing => owner[subs.secret.value] = subs.secret.name

(* What an edit writes was loaded from the row of the subscriber it writes   *)
(* to, and a create starts from an empty form, however submits, edits and    *)
(* removals overlap (startEdit, resetForm and editingId).                    *)
FormGoesToItsRow ==
    \A c \in subCalls :
        /\ c.kind = "update" => c.row = c.id
        /\ c.kind = "create" => c.row = NoId

\* What belongs to one subscriber never reaches another.
SubscribersStayApart == SecretIsNamedRight /\ FormGoesToItsRow
=============================================================================
