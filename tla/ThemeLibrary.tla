---------------------------- MODULE ThemeLibrary ----------------------------
(* The theme tab of the settings page (pages/settings.tsx): the library of   *)
(* named themes, of which one is live. The page writes the library as a      *)
(* whole, from its own copy of it. What a theme looks like is not modelled.  *)
EXTENDS Naturals, FiniteSets

CONSTANTS
    ThemeNames, NoTheme,
    InitialThemes, InitialActive,   \* the library at first
    MaxCalls                        \* bound: calls under way

\* Assumed of the constants (Console).
LibraryAssumption ==
    /\ NoTheme \notin ThemeNames /\ MaxCalls \in Nat
    /\ InitialThemes \subseteq ThemeNames
    /\ InitialActive \in InitialThemes \cup {NoTheme}

VARIABLES
    themes, active,     \* the columns of the settings row
    editor,             \* the mounted tab, or Closed
    themeCalls,         \* its calls under way
    hasty               \* history: a theme was written by a page that had no
                        \* settings, or while it loaded them, or an answer was lost

vars == <<themes, active, editor, themeCalls, hasty>>

-----------------------------------------------------------------------------
Closed == [open |-> FALSE]
Nothing == [none |-> TRUE]
MaybeTheme == ThemeNames \cup {NoTheme}
Page == [open : {TRUE}, loaded : BOOLEAN, library : SUBSET ThemeNames, live : MaybeTheme,
         selected : MaybeTheme, saving : BOOLEAN]

Room == Cardinality(themeCalls) < MaxCalls
Load == [kind |-> "load", answer |-> Nothing]
Loading == \E c \in themeCalls : c.kind = "load"
\* A patch without activeTheme leaves the live theme alone.
Same == "same"

-----------------------------------------------------------------------------
Enter ==
    /\ editor = Closed
    /\ editor' = [open |-> TRUE, loaded |-> FALSE, library |-> {}, live |-> NoTheme,
                  selected |-> NoTheme, saving |-> FALSE]
    /\ themeCalls' = {Load}
    /\ UNCHANGED <<themes, active, hasty>>

Write(name, library, live) ==
    /\ editor # Closed /\ ~editor.saving /\ Room
    /\ themeCalls' = themeCalls \cup
         {[kind |-> "write", name |-> name, themes |-> library, active |-> live]}
    /\ editor' = [editor EXCEPT !.saving = TRUE]
    /\ hasty' = (hasty \/ ~editor.loaded \/ Loading)
    /\ UNCHANGED <<themes, active>>

handleSelectTheme(name) ==
    /\ editor # Closed /\ name \in editor.library \cup {NoTheme} /\ editor.selected # name
    /\ editor' = [editor EXCEPT !.selected = name]
    /\ UNCHANGED <<themes, active, themeCalls, hasty>>

handleSaveTheme(name) ==
    editor # Closed /\ Write(name, editor.library \cup {name}, Same)

\* Only the brand's own theme is applied without a name.
handleApplyTheme(name) ==
    editor # Closed /\ Write(name, editor.library \cup ({name} \ {NoTheme}), name)

MayDelete(p) == p.selected # NoTheme /\ p.selected # p.live

\* The page goes back to the live theme.
handleDeleteTheme ==
    editor # Closed /\ MayDelete(editor)
    /\ Write(editor.live, editor.library \ {editor.selected}, Same)

\* ThemeAssetsUploader: an image of a saved theme; the page loads again.
AssetUploaded ==
    /\ editor # Closed /\ editor.selected # NoTheme /\ Room
    /\ themeCalls' = themeCalls \cup {Load}
    /\ hasty' = (hasty \/ editor.saving)
    /\ UNCHANGED <<themes, active, editor>>

Serve(c) ==
    /\ c \in themeCalls /\ c.kind = "load" /\ c.answer = Nothing
    /\ themeCalls' = (themeCalls \ {c}) \cup
         {[c EXCEPT !.answer = [themes |-> themes, active |-> active]]}
    /\ UNCHANGED <<themes, active, editor, hasty>>

Arrive(c) ==
    /\ c \in themeCalls /\ c.kind = "load" /\ c.answer # Nothing
    /\ themeCalls' = themeCalls \ {c}
    /\ editor' = [editor EXCEPT !.loaded = TRUE, !.library = c.answer.themes,
                                !.live = c.answer.active, !.selected = c.answer.active]
    /\ UNCHANGED <<themes, active, hasty>>

LoadFails(c) ==
    /\ c \in themeCalls /\ c.kind = "load"
    /\ themeCalls' = themeCalls \ {c}
    /\ UNCHANGED <<themes, active, editor, hasty>>

\* POST /settings
Patch(c) ==
    /\ themes' = c.themes
    /\ active' = IF c.active = Same THEN active ELSE c.active

WriteSucceeds(c) ==
    /\ c \in themeCalls /\ c.kind = "write"
    /\ Patch(c)
    /\ editor' = [editor EXCEPT !.saving = FALSE, !.library = c.themes, !.selected = c.name,
                                !.live = IF c.active = Same THEN @ ELSE c.active]
    /\ themeCalls' = themeCalls \ {c}
    /\ UNCHANGED hasty

WriteFails(c) ==
    /\ c \in themeCalls /\ c.kind = "write"
    /\ \/ UNCHANGED <<themes, active, hasty>>
       \/ Patch(c) /\ hasty' = TRUE
    /\ editor' = [editor EXCEPT !.saving = FALSE]
    /\ themeCalls' = themeCalls \ {c}

\* A write under way is done or not; its answer reaches no page.
Leave ==
    /\ editor # Closed
    /\ editor' = Closed /\ themeCalls' = {}
    /\ \/ UNCHANGED <<themes, active>>
       \/ \E c \in themeCalls : c.kind = "write" /\ Patch(c)
    /\ UNCHANGED hasty

Init ==
    /\ themes = InitialThemes /\ active = InitialActive
    /\ editor = Closed /\ themeCalls = {} /\ hasty = FALSE

Work ==
    \/ Leave \/ handleDeleteTheme \/ AssetUploaded
    \/ \E name \in ThemeNames : handleSaveTheme(name)
    \/ \E name \in MaybeTheme : handleSelectTheme(name) \/ handleApplyTheme(name)
    \/ \E c \in themeCalls : \/ Serve(c) \/ Arrive(c) \/ LoadFails(c)
                             \/ WriteSucceeds(c) \/ WriteFails(c)

-----------------------------------------------------------------------------
TypeOK ==
    /\ themes \subseteq ThemeNames /\ active \in MaybeTheme /\ hasty \in BOOLEAN
    /\ editor \in {Closed} \cup Page

(* The live theme stays in the library ("the live one cannot be deleted",    *)
(* handleDeleteTheme), as long as themes are written by a page that has its  *)
(* settings and is not loading them, and no answer to a write was lost.      *)
LiveThemeIsKept ==
    ~hasty => active \in themes \cup {NoTheme}
=============================================================================
