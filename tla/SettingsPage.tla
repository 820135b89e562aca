---------------------------- MODULE SettingsPage ----------------------------
(* The fields of the settings page (pages/settings.tsx) against the settings *)
(* row they edit: one component holds the fields of all tabs, loadSettings   *)
(* fills them and a save writes all of them. The theme tab is ThemeLibrary's;*)
(* the connection, the files and the agreements are PortalSettings'.         *)
EXTENDS Naturals, FiniteSets

CONSTANTS
    Fields,         \* the fields handleSave sends, by tab
    Values,         \* contents of a field
    NoValue,        \* an empty field
    InitialRow,     \* the settings row at first
    MaxCalls        \* bound: calls under way

\* Assumed of the constants (Console).
PageAssumption ==
    NoValue \in Values /\ InitialRow \in [Fields -> Values] /\ MaxCalls \in Nat

VARIABLES
    row,        \* the settings row
    desk,       \* the mounted page, or Closed
    deskCalls,  \* its calls under way
    saved       \* the save the last step sent, or Nothing

vars == <<row, desk, deskCalls, saved>>

-----------------------------------------------------------------------------
Closed == [open |-> FALSE]
Nothing == [none |-> TRUE]
Row == [Fields -> Values]
Typed == SUBSET Fields
\* base: the row as last loaded, or Nothing. typed: the fields typed in since.
Page == [open : {TRUE}, fields : Row, base : {Nothing} \cup Row, typed : Typed,
         saving : BOOLEAN]

Room == Cardinality(deskCalls) < MaxCalls
Load == [kind |-> "load", answer |-> Nothing]

\* loadSettings
LoadFields(p, r) == [p EXCEPT !.fields = r, !.base = r, !.typed = {}]

-----------------------------------------------------------------------------
Enter ==
    /\ desk = Closed
    /\ desk' = [open |-> TRUE, fields |-> [k \in Fields |-> NoValue], base |-> Nothing,
                typed |-> {}, saving |-> FALSE]
    /\ deskCalls' = {Load} /\ saved' = Nothing
    /\ UNCHANGED row

TypeField(k, v) ==
    /\ desk # Closed /\ desk.fields[k] # v
    /\ desk' = [desk EXCEPT !.fields[k] = v, !.typed = @ \cup {k}]
    /\ saved' = Nothing
    /\ UNCHANGED <<row, deskCalls>>

\* handleSave: all fields, from whatever is on screen, loaded or not.
Save ==
    /\ desk # Closed /\ ~desk.saving /\ Room
    /\ desk' = [desk EXCEPT !.saving = TRUE]
    /\ deskCalls' = deskCalls \cup {[kind |-> "save", body |-> desk.fields]}
    /\ saved' = [body |-> desk.fields, base |-> desk.base, typed |-> desk.typed]
    /\ UNCHANGED row

\* An uploaded theme image makes the page load its settings again, drafts of
\* other tabs or not (ThemeAssetsUploader's onUploaded).
Reload ==
    /\ desk # Closed /\ Room
    /\ deskCalls' = deskCalls \cup {Load}
    /\ saved' = Nothing
    /\ UNCHANGED <<row, desk>>

Serve(c) ==
    /\ c \in deskCalls /\ c.kind = "load" /\ c.answer = Nothing
    /\ deskCalls' = (deskCalls \ {c}) \cup {[c EXCEPT !.answer = row]}
    /\ saved' = Nothing
    /\ UNCHANGED <<row, desk>>

Arrive(c) ==
    /\ c \in deskCalls /\ c.kind = "load" /\ c.answer # Nothing
    /\ deskCalls' = deskCalls \ {c}
    /\ desk' = LoadFields(desk, c.answer)
    /\ saved' = Nothing
    /\ UNCHANGED row

\* The page stays as it is, with its save button.
LoadFails(c) ==
    /\ c \in deskCalls /\ c.kind = "load"
    /\ deskCalls' = deskCalls \ {c}
    /\ saved' = Nothing
    /\ UNCHANGED <<row, desk>>

\* Done, refused, or done and the answer lost.
SaveEnds(c) ==
    /\ c \in deskCalls /\ c.kind = "save"
    /\ row' \in {row, c.body}
    /\ desk' = [desk EXCEPT !.saving = FALSE]
    /\ deskCalls' = deskCalls \ {c}
    /\ saved' = Nothing

\* A save under way is done or not; its answer reaches no page.
Leave ==
    /\ desk # Closed
    /\ desk' = Closed /\ deskCalls' = {} /\ saved' = Nothing
    /\ row' \in {row} \cup {c.body : c \in {d \in deskCalls : d.kind = "save"}}

\* Another administrator saves.
OthersSave ==
    /\ row' \in Row /\ row' # row
    /\ saved' = Nothing
    /\ UNCHANGED <<desk, deskCalls>>

Init == row = InitialRow /\ desk = Closed /\ deskCalls = {} /\ saved = Nothing

Work ==
    \/ Leave \/ Save \/ Reload \/ OthersSave
    \/ \E k \in Fields, v \in Values : TypeField(k, v)
    \/ \E c \in deskCalls : Serve(c) \/ Arrive(c) \/ LoadFails(c) \/ SaveEnds(c)

-----------------------------------------------------------------------------
TypeOK ==
    /\ row \in Row
    /\ desk \in {Closed} \cup Page
    /\ \A c \in deskCalls :
          IF c.kind = "save" THEN c.body \in Row ELSE c.answer \in {Nothing} \cup Row
    /\ saved \in {Nothing} \cup [body : Row, base : {Nothing} \cup Row, typed : Typed]

(* A save of a page whose settings have arrived rewrites what the            *)
(* administrator did not touch with what was loaded: no field of handleSave  *)
(* is missing from loadSettings, in whatever order loads and saves overlap.  *)
UntouchedIsKept ==
    saved # Nothing /\ saved.base # Nothing
        => \A k \in Fields \ saved.typed : saved.body[k] = saved.base[k]
=============================================================================
