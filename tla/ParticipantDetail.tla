-------------------------- MODULE ParticipantDetail --------------------------
(* The page of one party (pages/participants/[id].tsx) with its two editors: *)
(* the party form (ParticipantEditForm) and the claim form (ClaimEditModal), *)
(* against the registry that keeps the party and that other registrars and   *)
(* administrators write too. The party is shown from the cache of            *)
(* util/participantCache.ts at once and refreshed behind it.                 *)
EXTENDS Naturals, FiniteSets

CONSTANTS
    Names, Notes, Aliases,      \* values of the fields of a party
    Blank,                      \* a cleared note
    InitialParties,             \* what the registry may hold at first
    MaxOthers,                  \* bound: writes of others
    MaxCalls                    \* bound: calls under way

\* Assumed of the constants (Console).
DetailAssumption ==
    /\ Blank \in Notes /\ {MaxOthers, MaxCalls} \subseteq Nat
    /\ InitialParties \subseteq [name : Names, note : Notes, aka : SUBSET Aliases]

VARIABLES
    party,      \* the party at the registry (external)
    others,     \* writes of others so far
    claimModel, \* the registry speaks the claim model (v3), as of this visit
    cache,      \* the raw party participantCache.ts holds, or Nothing
    page,       \* the mounted page, or Closed
    calls       \* its calls under way

vars == <<party, others, claimModel, cache, page, calls>>

-----------------------------------------------------------------------------
\* name and aka are the party's own; note stands for the fields of its
\* frameworkCompliance claim (v3) or of adherence and additional_info (v2).
Party == [name : Names, note : Notes, aka : SUBSET Aliases]
Field == {"name", "note"}
Nothing == [none |-> TRUE]
Closed == [open |-> FALSE]

\* typed: the fields the administrator has typed in since the form opened.
Form == [name : Names, note : Notes, aka : SUBSET Aliases,
         typed : SUBSET Field]
Claim == [note : Notes]
ClaimForm == [note : Notes, typed : SUBSET Field]
Page == [open : {TRUE}, shown : {Nothing} \cup Party, loading : BOOLEAN, failed : BOOLEAN,
         edit : {Nothing} \cup Form, saving : BOOLEAN,
         claim : {Nothing} \cup Claim, draft : {Nothing} \cup ClaimForm, patching : BOOLEAN]

initForm(p) == [name |-> p.name, note |-> p.note, aka |-> {}, typed |-> {}]

\* A value that carries no data does not replace the one on screen.
mergeParty(prev, next) ==
    IF prev = Nothing THEN next
    ELSE [next EXCEPT !.note = IF @ = Blank THEN prev.note ELSE @,
                      !.aka = IF @ = {} THEN prev.aka ELSE @]

\* The fields of a save, absent when they are not sent.
Restricted(f, fields) == [k \in fields |-> f[k]]

\* Mutant: the form is compared with the party shown now.
PatchAgainstShown(p) == Restricted(p.draft, {k \in {"note"} : p.draft[k] # p.shown[k]})
\* ClaimEditModal.save: the fields that differ from the claim the modal was
\* opened with.
ClaimPatch(p) == Restricted(p.draft, {k \in {"note"} : p.draft[k] # p.claim[k]})
\* ParticipantEditForm.save, v3: the name when it differs from the party shown
\* now, and the aliases that were added.
PartyPatch(p) == [fields |-> Restricted(p.edit, {k \in {"name"} : p.edit[k] # p.shown[k]}),
                  aka |-> p.edit.aka]

\* load() of the page as it is: the cached copy is the one it will merge over.
LoadCall == [kind |-> "load", over |-> cache, answer |-> Nothing, here |-> TRUE]
Reloaded(p) == IF cache # Nothing
               THEN [p EXCEPT !.shown = cache, !.loading = FALSE, !.failed = FALSE]
               ELSE [p EXCEPT !.loading = TRUE, !.failed = FALSE]

Room == Cardinality(calls) < MaxCalls

-----------------------------------------------------------------------------
(* The page                                                                  *)

Enter ==
    /\ page = Closed /\ Room
    /\ page' = Reloaded([open |-> TRUE, shown |-> Nothing, loading |-> TRUE,
                         failed |-> FALSE, edit |-> Nothing, saving |-> FALSE,
                         claim |-> Nothing, draft |-> Nothing, patching |-> FALSE])
    /\ calls' = calls \cup {LoadCall}
    /\ claimModel' \in BOOLEAN
    /\ UNCHANGED <<party, others, cache>>

\* What was sent goes on; nothing of it reaches a page any more.
Leave ==
    /\ page # Closed
    /\ page' = Closed
    /\ calls' = {[c EXCEPT !.here = FALSE] : c \in calls}
    /\ UNCHANGED <<party, others, claimModel, cache>>

\* The list page stores the raw parties of its answer (cacheParticipants).
ListAnswers ==
    /\ page = Closed
    /\ cache' = party
    /\ UNCHANGED <<party, others, claimModel, page, calls>>

\* The registry answers a load with the party of that moment.
Serve(c) ==
    /\ c \in calls /\ c.kind = "load" /\ c.answer = Nothing
    /\ calls' = (calls \ {c}) \cup {[c EXCEPT !.answer = party]}
    /\ UNCHANGED <<party, others, claimModel, cache, page>>

Arrive(c) ==
    /\ c \in calls /\ c.kind = "load" /\ c.answer # Nothing
    /\ LET merged == mergeParty(c.over, c.answer)
       IN /\ cache' = merged
          /\ page' = IF c.here THEN [page EXCEPT !.shown = merged, !.loading = FALSE]
                     ELSE page
    /\ calls' = calls \ {c}
    /\ UNCHANGED <<party, others, claimModel>>

LoadFails(c) ==
    /\ c \in calls /\ c.kind = "load"
    /\ calls' = calls \ {c}
    /\ page' = IF ~c.here THEN page
               ELSE IF c.over # Nothing THEN [page EXCEPT !.loading = FALSE]
               ELSE [page EXCEPT !.loading = FALSE, !.shown = Nothing, !.failed = TRUE]
    /\ UNCHANGED <<party, others, claimModel, cache>>

\* Another registrar, or another administrator.
OthersWrite ==
    /\ others < MaxOthers
    /\ others' = others + 1
    /\ \E k \in Field, q \in Party :
          party' = [party EXCEPT ![k] = q[k]] /\ party' # party
    /\ UNCHANGED <<claimModel, cache, page, calls>>

-----------------------------------------------------------------------------
(* The party form                                                            *)

Ready == page # Closed /\ ~page.loading /\ ~page.failed /\ page.shown # Nothing

StartEdit ==
    /\ Ready /\ page.edit = Nothing /\ page.claim = Nothing
    /\ page' = [page EXCEPT !.edit = initForm(page.shown)]
    /\ UNCHANGED <<party, others, claimModel, cache, calls>>

\* A v3 form has only the name and new aliases; a v2 form all of it.
TypeParty(k, v) ==
    /\ Ready /\ page.edit # Nothing
    /\ claimModel => k = "name"
    /\ page.edit[k] # v
    /\ page' = [page EXCEPT !.edit[k] = v, !.edit.typed = @ \cup {k}]
    /\ UNCHANGED <<party, others, claimModel, cache, calls>>

AddAlias(a) ==
    /\ Ready /\ page.edit # Nothing /\ claimModel
    /\ a \notin page.edit.aka
    /\ page' = [page EXCEPT !.edit.aka = @ \cup {a}]
    /\ UNCHANGED <<party, others, claimModel, cache, calls>>

CancelEdit ==
    /\ Ready /\ page.edit # Nothing /\ ~page.saving
    /\ page' = [page EXCEPT !.edit = Nothing]
    /\ UNCHANGED <<party, others, claimModel, cache, calls>>

\* Nothing to send closes the form (v3); a v2 save replaces the whole party,
\* with the fields of the form and the rest of the party shown now.
SaveParty ==
    /\ Ready /\ page.edit # Nothing /\ ~page.saving /\ Room
    /\ LET patch == PartyPatch(page)
           body == IF claimModel THEN patch
                   ELSE [fields |-> Restricted(page.edit, Field), aka |-> page.shown.aka]
       IN IF claimModel /\ DOMAIN patch.fields = {} /\ patch.aka = {}
          THEN page' = [page EXCEPT !.edit = Nothing] /\ UNCHANGED calls
          ELSE /\ page' = [page EXCEPT !.saving = TRUE]
               /\ calls' = calls \cup {[kind |-> "party", body |-> body,
                                        typed |-> page.edit.typed, here |-> TRUE]}
    /\ UNCHANGED <<party, others, claimModel, cache>>

-----------------------------------------------------------------------------
(* The claim form                                                            *)

EditClaim ==
    /\ Ready /\ claimModel /\ page.edit = Nothing /\ page.claim = Nothing
    /\ page' = [page EXCEPT !.claim = [note |-> page.shown.note],
                            !.draft = [note |-> page.shown.note, typed |-> {}]]
    /\ UNCHANGED <<party, others, claimModel, cache, calls>>

TypeClaim(v) ==
    /\ page # Closed /\ page.claim # Nothing
    /\ page.draft.note # v
    /\ page' = [page EXCEPT !.draft.note = v, !.draft.typed = @ \cup {"note"}]
    /\ UNCHANGED <<party, others, claimModel, cache, calls>>

\* The cross and the backdrop also close it while its save is under way.
CloseClaim ==
    /\ page # Closed /\ page.claim # Nothing
    /\ page' = [page EXCEPT !.claim = Nothing, !.draft = Nothing, !.patching = FALSE]
    /\ UNCHANGED <<party, others, claimModel, cache, calls>>

SaveClaim ==
    /\ page # Closed /\ page.claim # Nothing /\ ~page.patching /\ Room
    /\ LET patch == ClaimPatch(page)
       IN IF DOMAIN patch = {}
          THEN /\ page' = [page EXCEPT !.claim = Nothing, !.draft = Nothing]
               /\ UNCHANGED calls
          ELSE /\ page' = [page EXCEPT !.patching = TRUE]
               /\ calls' = calls \cup {[kind |-> "claim", body |-> [fields |-> patch, aka |-> {}],
                                        typed |-> page.draft.typed, here |-> TRUE]}
    /\ UNCHANGED <<party, others, claimModel, cache>>

-----------------------------------------------------------------------------
\* The registry writes what was sent; aliases are merged by v3, replaced by v2.
Written(c) ==
    [k \in Field \cup {"aka"} |->
        IF k = "aka" THEN IF claimModel THEN party.aka \cup c.body.aka ELSE c.body.aka
        ELSE IF k \in DOMAIN c.body.fields THEN c.body.fields[k] ELSE party[k]]

\* onSaved: the editor closes and the page loads again.
SaveSucceeds(c) ==
    /\ c \in calls /\ c.kind # "load"
    /\ party' = Written(c)
    /\ IF c.here
       THEN /\ page' = Reloaded(IF c.kind = "party"
                    THEN [page EXCEPT !.edit = Nothing, !.saving = FALSE]
                    ELSE [page EXCEPT !.claim = Nothing, !.draft = Nothing,
                                      !.patching = FALSE])
            /\ calls' = (calls \ {c}) \cup {LoadCall}
       ELSE calls' = calls \ {c} /\ UNCHANGED page
    /\ UNCHANGED <<others, claimModel, cache>>

\* The registry may have written it before the answer was lost.
SaveFails(c) ==
    /\ c \in calls /\ c.kind # "load"
    /\ party' \in {party, Written(c)}
    /\ page' = IF ~c.here THEN page
               ELSE IF c.kind = "party" THEN [page EXCEPT !.saving = FALSE]
               ELSE [page EXCEPT !.patching = FALSE]
    /\ calls' = calls \ {c}
    /\ UNCHANGED <<others, claimModel, cache>>

Init ==
    /\ party \in InitialParties /\ others = 0 /\ claimModel = TRUE
    /\ cache = Nothing /\ page = Closed /\ calls = {}

Work ==
    \/ Leave \/ ListAnswers \/ OthersWrite
    \/ StartEdit \/ CancelEdit \/ SaveParty
    \/ EditClaim \/ CloseClaim \/ SaveClaim
    \/ \E v \in Names : TypeParty("name", v)
    \/ \E v \in Notes : TypeParty("note", v) \/ TypeClaim(v)
    \/ \E a \in Aliases : AddAlias(a)
    \/ \E c \in calls : Serve(c) \/ Arrive(c) \/ LoadFails(c)
                        \/ SaveSucceeds(c) \/ SaveFails(c)

-----------------------------------------------------------------------------
TypeOK ==
    /\ party \in Party /\ others \in 0..MaxOthers /\ claimModel \in BOOLEAN
    /\ cache \in {Nothing} \cup Party
    /\ page \in {Closed} \cup Page
    /\ Cardinality(calls) <= MaxCalls + 1

(* A claim save writes only what the administrator typed in that form, even  *)
(* when others have changed the claim, or a refresh has changed the page,    *)
(* since it was opened ("sends just the changed fields", ClaimEditModal).    *)
ClaimSaveIsWhatWasTyped ==
    \A c \in calls : c.kind = "claim" => DOMAIN c.body.fields \subseteq c.typed

(* A page without a party, without an error and without its skeleton would   *)
(* be blank: what it waits for is always under way.                          *)
NeverBlank ==
    page # Closed /\ ~page.failed /\ page.shown = Nothing
        => page.loading /\ \E c \in calls : c.kind = "load" /\ c.here
=============================================================================
