----------------------------- MODULE PartyPicker -----------------------------
(* Sending the events of a party again (the deliveries tab of                *)
(* pages/subscribers.tsx) and the field its party is picked with             *)
(* (PartySearchSelect): a search that waits for the typing to pause, answers *)
(* that come late, and a choice the page keeps while the field comes and     *)
(* goes with its tab. The label of a party is named after the party.         *)
EXTENDS Naturals, FiniteSets

CONSTANTS
    Parties,
    Words, NoText,  \* what is typed
    NoParty,
    MaxCalls        \* bound: searches under way

\* Assumed of the constants (Console).
PickerAssumption ==
    /\ NoText \in Words /\ NoParty \notin Parties /\ Words \cap Parties = {}
    /\ MaxCalls \in Nat

VARIABLES
    picker,     \* the field, or Closed while its tab is not open
    searches,   \* its searches under way
    chosen,     \* reemitPartyId, which the page keeps
    emitting    \* the call that sends the events of a party again, or Nothing

vars == <<picker, searches, chosen, emitting>>

-----------------------------------------------------------------------------
Closed == [mounted |-> FALSE]
Nothing == [none |-> TRUE]
Results == {Nothing} \cup [term : Words, hits : SUBSET Parties]
\* label: selectedLabel, that of the party picked last. armed: the pause of the
\* typing is being waited for.
Field == [mounted : {TRUE}, query : Words \cup Parties, label : Parties \cup {NoText},
          open : BOOLEAN, results : Results, loading : BOOLEAN, searched : BOOLEAN,
          armed : BOOLEAN]
\* current: no search was prepared since (id = reqRef.current).
Search == [term : Words, current : BOOLEAN]

NewField == [mounted |-> TRUE, query |-> NoText, label |-> NoText, open |-> FALSE,
             results |-> Nothing, loading |-> FALSE, searched |-> FALSE, armed |-> FALSE]

\* A party that is still shown is not searched for by its label.
TermOf(f) == IF f.query = f.label THEN NoText ELSE f.query

\* The effect of a changed query, label or menu: the pause begins anew, and an
\* open menu leaves older searches behind.
Rearm(f) ==
    /\ picker' = [f EXCEPT !.armed = f.open]
    /\ searches' = IF f.open THEN {[s EXCEPT !.current = FALSE] : s \in searches}
                             ELSE searches

-----------------------------------------------------------------------------
\* The tab mounts the field empty, whatever the page has kept as its party.
Enter ==
    /\ picker = Closed
    /\ picker' = NewField
    /\ UNCHANGED <<searches, chosen, emitting>>

Leave ==
    /\ picker # Closed
    /\ picker' = Closed /\ searches' = {}
    /\ UNCHANGED <<chosen, emitting>>

Focus ==
    /\ picker # Closed /\ ~picker.open
    /\ Rearm([picker EXCEPT !.open = TRUE])
    /\ UNCHANGED <<chosen, emitting>>

ClickOutside ==
    /\ picker # Closed /\ picker.open
    /\ Rearm([picker EXCEPT !.open = FALSE])
    /\ UNCHANGED <<chosen, emitting>>

\* Typing takes the choice back.
onType(text) ==
    /\ picker # Closed /\ picker.query # text
    /\ Rearm([picker EXCEPT !.query = text, !.label = NoText, !.open = TRUE])
    /\ chosen' = NoParty
    /\ UNCHANGED emitting

choose(p) ==
    /\ picker # Closed /\ picker.open /\ ~picker.loading
    /\ picker.results # Nothing /\ p \in picker.results.hits
    /\ Rearm([picker EXCEPT !.query = p, !.label = p, !.open = FALSE])
    /\ chosen' = p
    /\ UNCHANGED emitting

\* Where there was no text the effect has nothing to react to.
clear ==
    /\ picker # Closed /\ (picker.query # NoText \/ chosen # NoParty)
    /\ LET f == [picker EXCEPT !.query = NoText, !.label = NoText, !.results = Nothing]
       IN IF picker.query # NoText THEN Rearm(f) ELSE picker' = f /\ UNCHANGED searches
    /\ chosen' = NoParty
    /\ UNCHANGED emitting

\* The typing has paused (DEBOUNCE_MS).
SearchStarts ==
    /\ picker # Closed /\ picker.armed /\ Cardinality(searches) < MaxCalls
    /\ picker' = [picker EXCEPT !.armed = FALSE, !.loading = TRUE]
    /\ searches' = searches \cup {[term |-> TermOf(picker), current |-> TRUE]}
    /\ UNCHANGED <<chosen, emitting>>

Shows(results) ==
    picker' = [picker EXCEPT !.results = results, !.loading = FALSE, !.searched = TRUE]

Arrives(s) ==
    /\ s \in searches
    /\ searches' = searches \ {s}
    /\ IF s.current
       THEN \E hits \in SUBSET Parties : Shows([term |-> s.term, hits |-> hits])
       ELSE UNCHANGED picker
    /\ UNCHANGED <<chosen, emitting>>

Fails(s) ==
    /\ s \in searches
    /\ searches' = searches \ {s}
    /\ IF s.current THEN Shows(Nothing) ELSE UNCHANGED picker
    /\ UNCHANGED <<chosen, emitting>>

\* shown: what the field said at the click.
reemit ==
    /\ picker # Closed /\ chosen # NoParty /\ emitting = Nothing
    /\ emitting' = [party |-> chosen, shown |-> picker.query]
    /\ UNCHANGED <<picker, searches, chosen>>

\* Success empties the page's choice, whatever was chosen meanwhile.
ReemitEnds ==
    /\ emitting # Nothing
    /\ emitting' = Nothing
    /\ chosen' \in {NoParty, chosen}
    /\ UNCHANGED <<picker, searches>>

Init == picker = Closed /\ searches = {} /\ chosen = NoParty /\ emitting = Nothing

Work ==
    \/ Leave \/ Focus \/ ClickOutside \/ clear \/ SearchStarts \/ reemit \/ ReemitEnds
    \/ \E text \in Words : onType(text)
    \/ \E p \in Parties : choose(p)
    \/ \E s \in searches : Arrives(s) \/ Fails(s)

-----------------------------------------------------------------------------
TypeOK ==
    /\ picker \in {Closed} \cup Field /\ searches \subseteq Search
    /\ chosen \in Parties \cup {NoParty}
    /\ emitting \in {Nothing} \cup [party : Parties, shown : Words \cup Parties]

Waiting == picker.armed \/ \E s \in searches : s.current

(* An open menu that says it is searching is: a search is about to start or  *)
(* under way whose answer will be let in, however menus, texts and answers   *)
(* cross (reqRef, loading and searched).                                     *)
MenuIsAnswered ==
    picker # Closed /\ picker.open /\ (picker.loading \/ ~picker.searched) => Waiting

(* What a menu that waits for nothing offers was searched for with the text  *)
(* that stands above it, and not with one typed before.                      *)
MenuIsOfTheText ==
    picker # Closed /\ picker.open /\ ~Waiting /\ picker.results # Nothing
        => picker.results.term = TermOf(picker)

(* Events are sent again for the party the field shows, or, after the tab    *)
(* was left, for the one chosen before while the field is empty; never while *)
(* it shows another party or a text ("free-text mistakes are impossible").   *)
EmitsNoOther == emitting # Nothing => emitting.shown \in {emitting.party, NoText}
=============================================================================
