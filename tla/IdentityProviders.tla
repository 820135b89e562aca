------------------------- MODULE IdentityProviders -------------------------
(* The identity providers of the realm and the card that edits them on the   *)
(* authentication tab (components/AuthenticationSettings, with               *)
(* handlers/keycloak_settings.go behind it). Of a provider the secret and    *)
(* the claim mappers count. The card keeps one editor, whose mappers it      *)
(* fetches when another provider is edited.                                  *)
EXTENDS Naturals, FiniteSets

CONSTANTS
    Aliases, Secrets,
    Blank,              \* the empty text
    PresetAttributes,   \* the user attributes the preset maps
    InitialProviders,   \* alias -> its secret
    MaxCalls            \* bound: calls under way

\* Assumed of the constants (Console).
ProvidersAssumption ==
    /\ Blank \notin Secrets /\ MaxCalls \in Nat /\ IsFiniteSet(PresetAttributes)
    /\ "nobody" \notin Aliases
    /\ DOMAIN InitialProviders \subseteq Aliases
    /\ \A a \in DOMAIN InitialProviders : InitialProviders[a] \in Secrets

VARIABLES
    realm,      \* alias -> [secret, mappers]
    card,       \* the mounted card, or Closed
    cardCalls,  \* its calls under way
    filled,     \* the provider whose preset was just reported as done, or Nobody
    rash        \* history: mappers were fetched twice at a time or for
                \* another provider than the edited one, an answer was lost,
                \* or a provider was removed beside an editor or a call

vars == <<realm, card, cardCalls, filled, rash>>

-----------------------------------------------------------------------------
Closed == [open |-> FALSE]
Nobody == "nobody"
Nothing == [none |-> TRUE]
Editor == [new : BOOLEAN, alias : Aliases \cup {Nobody}]
Card == [open : {TRUE}, idps : SUBSET Aliases, editor : {Nothing} \cup Editor,
         saving : BOOLEAN, mappers : {Nothing} \cup [known : SUBSET PresetAttributes], busy : BOOLEAN]

\* A mapper stands for the attribute it fills: it is named after it, and Keycloak
\* takes a name once for each provider.
Room == Cardinality(cardCalls) < MaxCalls
Editing(p) == p.open /\ p.editor # Nothing
EditingOld(p) == Editing(p) /\ ~p.editor.new

List == [kind |-> "list"]
\* The mappers of a provider; the card is busy until an answer that ends a change.
loadMappers(alias, ends) ==
    [kind |-> "mappers", alias |-> alias, ends |-> ends]
Fetching == \E c \in cardCalls : c.kind = "mappers"
Elsewhere(alias) == ~EditingOld(card) \/ card.editor.alias # alias

\* Mutant: the mappers stay until others arrive.
EditorOnly(p, editor) == [p EXCEPT !.editor = editor]
\* The effect on the editor's provider: mappers are forgotten and fetched.
EditorChanges(p, editor) ==
    IF p.editor = editor THEN p ELSE [p EXCEPT !.editor = editor, !.mappers = Nothing]

-----------------------------------------------------------------------------
Enter ==
    /\ card = Closed
    /\ card' = [open |-> TRUE, idps |-> {}, editor |-> Nothing, saving |-> FALSE,
                mappers |-> Nothing, busy |-> FALSE]
    /\ cardCalls' = {List} /\ filled' = Nobody
    /\ UNCHANGED <<realm, rash>>

startNewIdp ==
    /\ card.open /\ card.editor = Nothing
    /\ card' = EditorChanges(card, [new |-> TRUE, alias |-> Nobody])
    /\ filled' = Nobody
    /\ UNCHANGED <<realm, cardCalls, rash>>

\* To edit the provider that is edited already fetches nothing.
startEditIdp(alias) ==
    LET editor == [new |-> FALSE, alias |-> alias] IN
    /\ card.open /\ alias \in card.idps /\ card.editor # editor /\ Room
    /\ card' = EditorChanges(card, editor)
    /\ cardCalls' = cardCalls \cup {loadMappers(alias, FALSE)}
    /\ rash' = (rash \/ Fetching)
    /\ filled' = Nobody
    /\ UNCHANGED realm

Cancel ==
    /\ Editing(card)
    /\ card' = EditorChanges(card, Nothing)
    /\ filled' = Nobody
    /\ UNCHANGED <<realm, cardCalls, rash>>

Call(c) == Room /\ cardCalls' = cardCalls \cup {c}

\* The list carries no secrets: the editor's field is blank unless one is typed.
saveIdp(alias, secret) ==
    /\ Editing(card) /\ (card.editor.new \/ card.editor.alias = alias) /\ ~card.saving
    /\ Call([kind |-> IF card.editor.new THEN "create" ELSE "update", alias |-> alias,
             secret |-> secret])
    /\ card' = [card EXCEPT !.saving = TRUE]
    /\ filled' = Nobody
    /\ UNCHANGED <<realm, rash>>

deleteIdp(alias) ==
    /\ card.open /\ alias \in card.idps
    /\ Call([kind |-> "delete", alias |-> alias,
             closes |-> EditingOld(card) /\ card.editor.alias = alias])
    /\ filled' = Nobody
    /\ UNCHANGED <<realm, card, rash>>

addMapper(m) ==
    /\ EditingOld(card) /\ ~card.busy
    /\ Call([kind |-> "add", alias |-> card.editor.alias, mapper |-> m])
    /\ card' = [card EXCEPT !.busy = TRUE]
    /\ filled' = Nobody
    /\ UNCHANGED <<realm, rash>>

removeMapper(m) ==
    /\ EditingOld(card) /\ ~card.busy /\ card.mappers # Nothing /\ m \in card.mappers.known
    /\ Call([kind |-> "remove", alias |-> card.editor.alias, mapper |-> m])
    /\ card' = [card EXCEPT !.busy = TRUE]
    /\ filled' = Nobody
    /\ UNCHANGED <<realm, rash>>

Shown(p) == IF p.mappers = Nothing THEN {} ELSE p.mappers.known
\* What the preset still has to map.
preset(p) == PresetAttributes \ Shown(p)

applyPreset ==
    /\ EditingOld(card) /\ ~card.busy
    /\ IF preset(card) = {}
       THEN filled' = card.editor.alias /\ UNCHANGED <<card, cardCalls>>
       ELSE /\ Call([kind |-> "preset", alias |-> card.editor.alias, rest |-> preset(card)])
            /\ card' = [card EXCEPT !.busy = TRUE] /\ filled' = Nobody
    /\ UNCHANGED <<realm, rash>>

-----------------------------------------------------------------------------
(* The handlers, one call to Keycloak each but for the update's read.        *)
\* A blank secret keeps the stored one.
Merged(current, incoming) == IF incoming = Blank THEN current ELSE incoming

CreateIdp(c) ==
    /\ c.kind = "create" /\ c.alias \notin DOMAIN realm
    /\ realm' = [a \in DOMAIN realm \cup {c.alias} |->
                    IF a = c.alias THEN [secret |-> c.secret, mappers |-> {}] ELSE realm[a]]

UpdateIdp(c) ==
    /\ c.kind = "update" /\ c.alias \in DOMAIN realm
    /\ realm' = [realm EXCEPT ![c.alias].secret = Merged(@, c.secret)]

DeleteIdp(c) ==
    /\ c.kind = "delete" /\ c.alias \in DOMAIN realm
    /\ realm' = [a \in DOMAIN realm \ {c.alias} |-> realm[a]]

CreateIdpMapper(alias, m) ==
    /\ alias \in DOMAIN realm /\ m \notin realm[alias].mappers
    /\ realm' = [realm EXCEPT ![alias].mappers = @ \cup {m}]

DeleteIdpMapper(alias, m) ==
    /\ alias \in DOMAIN realm /\ m \in realm[alias].mappers
    /\ realm' = [realm EXCEPT ![alias].mappers = @ \ {m}]

\* What Keycloak lists for a provider, nothing for one it does not have.
MappersOf(alias) == IF alias \in DOMAIN realm THEN realm[alias].mappers ELSE {}

\* A call is done: the editor closes, whatever it shows by then, and the list is
\* fetched. A removal closes it when it showed the provider at the click.
AfterSave(c, p) == [EditorChanges(p, Nothing) EXCEPT !.saving = FALSE]
AfterDelete(c, p) == IF c.closes THEN EditorChanges(p, Nothing) ELSE p

Answered(c) ==
    /\ \/ c.kind \in {"create", "update"} /\ card' = AfterSave(c, card)
       \/ c.kind = "delete" /\ card' = AfterDelete(c, card)
    /\ cardCalls' = (cardCalls \ {c}) \cup {List}
    /\ filled' = Nobody

Stored(c) ==
    /\ c \in cardCalls
    /\ CreateIdp(c) \/ UpdateIdp(c) \/ DeleteIdp(c)
    /\ Answered(c)
    /\ rash' = (rash \/ (c.kind = "delete" /\ (cardCalls # {c} \/ card.editor # Nothing)))

Refetch(c) ==
    /\ cardCalls' = (cardCalls \ {c}) \cup {loadMappers(c.alias, TRUE)}
    /\ card' = [card EXCEPT !.mappers = Nothing]
    /\ rash' = (rash \/ Fetching \/ Elsewhere(c.alias))

\* addMapper and removeMapper fetch the mappers of the provider they changed.
MappersStored(c) ==
    /\ c \in cardCalls
    /\ \/ c.kind = "add" /\ CreateIdpMapper(c.alias, c.mapper)
       \/ c.kind = "remove" /\ DeleteIdpMapper(c.alias, c.mapper)
    /\ Refetch(c)
    /\ filled' = Nobody

\* applyPreset's loop, one mapper at a time.
PresetStep(c, attribute) ==
    /\ c \in cardCalls /\ c.kind = "preset" /\ attribute \in c.rest
    /\ CreateIdpMapper(c.alias, attribute)
    /\ IF c.rest = {attribute}
       THEN Refetch(c) /\ filled' = c.alias
       ELSE /\ cardCalls' = (cardCalls \ {c}) \cup {[c EXCEPT !.rest = @ \ {attribute}]}
            /\ filled' = Nobody /\ UNCHANGED <<card, rash>>

Change(c) ==
    \/ CreateIdp(c) \/ UpdateIdp(c) \/ DeleteIdp(c)
    \/ c.kind = "add" /\ CreateIdpMapper(c.alias, c.mapper)
    \/ c.kind = "remove" /\ DeleteIdpMapper(c.alias, c.mapper)

\* Refused, or lost before or after it was done.
Fails(c) ==
    /\ c \in cardCalls /\ c.kind \notin {"list", "mappers"}
    /\ \/ UNCHANGED <<realm, rash>>
       \/ Change(c) /\ rash' = TRUE
    /\ card' = CASE c.kind \in {"create", "update"} -> [card EXCEPT !.saving = FALSE]
                 [] c.kind \in {"add", "remove", "preset"} -> [card EXCEPT !.busy = FALSE]
                 [] OTHER -> card
    /\ cardCalls' = cardCalls \ {c} /\ filled' = Nobody

\* An answer is shown whatever the editor shows by then, and is taken to be of the
\* moment it arrives. The list has no secrets (redactIdp).
Arrive(c) ==
    /\ c \in cardCalls
    /\ \/ c.kind = "list" /\ card' = [card EXCEPT !.idps = DOMAIN realm]
       \/ c.kind = "mappers"
          /\ card' = [card EXCEPT !.mappers = [known |-> MappersOf(c.alias)], !.busy = @ /\ ~c.ends]
    /\ cardCalls' = cardCalls \ {c} /\ filled' = Nobody
    /\ UNCHANGED <<realm, rash>>

LoadFails(c) ==
    /\ c \in cardCalls /\ c.kind \in {"list", "mappers"}
    /\ card' = IF c.kind = "list" THEN [card EXCEPT !.idps = {}]
               ELSE [card EXCEPT !.mappers = [known |-> {}], !.busy = @ /\ ~c.ends]
    /\ cardCalls' = cardCalls \ {c} /\ filled' = Nobody
    /\ UNCHANGED <<realm, rash>>

\* A change under way is done or not; its answer reaches no card.
Leave ==
    /\ card # Closed
    /\ card' = Closed /\ cardCalls' = {} /\ filled' = Nobody
    /\ UNCHANGED realm \/ \E c \in cardCalls : Change(c)
    /\ UNCHANGED rash

Init ==
    /\ realm = [a \in DOMAIN InitialProviders |-> [secret |-> InitialProviders[a], mappers |-> {}]]
    /\ card = Closed /\ cardCalls = {} /\ filled = Nobody /\ rash = FALSE

Work ==
    \/ startNewIdp \/ Cancel \/ applyPreset \/ Leave
    \/ \E a \in Aliases : \/ startEditIdp(a) \/ deleteIdp(a)
                         \/ \E s \in Secrets \cup {Blank} : saveIdp(a, s)
    \/ \E x \in PresetAttributes : addMapper(x) \/ removeMapper(x)
    \/ \E c \in cardCalls :
         \/ Stored(c) \/ MappersStored(c) \/ Fails(c) \/ Arrive(c) \/ LoadFails(c)
         \/ \E a \in PresetAttributes : PresetStep(c, a)

-----------------------------------------------------------------------------
\* The realm, the card and the histories have the shape the code gives them.
TypeOK ==
    /\ DOMAIN realm \subseteq Aliases
    /\ \A a \in DOMAIN realm : realm[a] \in [secret : Secrets \cup {Blank}, mappers : SUBSET PresetAttributes]
    /\ card \in {Closed} \cup Card
    /\ filled \in Aliases \cup {Nobody} /\ rash \in BOOLEAN

(* No step wipes the secret of a provider that stays: an editor that never   *)
(* saw the secret writes the provider back ("blank secrets keep the stored   *)
(* value", UpdateIdp).                                                       *)
SecretsStay ==
    [][\A a \in DOMAIN realm \cap DOMAIN realm' :
          realm[a].secret # Blank => realm'[a].secret # Blank]_realm

(* When the card reports the preset as done, or that nothing is left to do,  *)
(* the provider maps all its attributes, whichever mappers it had            *)
(* (applyPreset), as long as no call crossed another or lost its answer.     *)
PresetIsComplete ==
    ~rash /\ filled \in DOMAIN realm => PresetAttributes \subseteq realm[filled].mappers
=============================================================================
