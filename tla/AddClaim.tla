------------------------------ MODULE AddClaim ------------------------------
(* The form that adds a claim to a party (components/AddClaimModal): its     *)
(* type, the values of that type, the dataspace catalogue of                 *)
(* hooks/useDataspaces.ts, the certificate file it parses, and the claims it *)
(* sends. Of the claim types, "agreement" stands for dataspaceAgreement and  *)
(* dataspaceRole, "certificate" for x509Certificate, "plain" for those       *)
(* whose values depend on nothing else.                                      *)
EXTENDS Naturals, FiniteSets

CONSTANTS
    Dataspaces,     \* the dataspaces the registry lists
    Catalogue,      \* dataspace -> the agreements it defines (external)
    Entries,        \* agreement ids an administrator may pick or type
    Files,          \* certificate files that parse
    NoValue,        \* an empty field
    MaxParses       \* bound: certificate files being parsed

\* Assumed of the constants (Console).
ClaimAssumption ==
    /\ Catalogue \in [Dataspaces -> SUBSET Entries]
    /\ NoValue \notin Dataspaces \cup Entries \cup Files
    /\ {"year", "typed"} \cap Files = {}
    /\ MaxParses \in Nat \ {0}

VARIABLES
    modal,      \* the open form, or Closed
    parses,     \* certificate files being read, and whether they will parse
    sent        \* the last claim sent in this opening, or Nothing

vars == <<modal, parses, sent>>

-----------------------------------------------------------------------------
Types == {"plain", "agreement", "certificate"}
Closed == [open |-> FALSE]
Nothing == [none |-> TRUE]
\* window: where the validity dates came from; typed by hand, a file, or the
\* default of one year.
Windows == {"year", "typed"} \cup Files
ClaimValues == [type : Types, ds : Dataspaces \cup {NoValue}, entry : Entries \cup {NoValue},
           cert : Files \cup {NoValue}, window : Windows]
Modal == [open : {TRUE}, form : ClaimValues, list : {"loading", "listed", "none"}, saving : BOOLEAN]
FirstForm == [type |-> "plain", ds |-> NoValue, entry |-> NoValue, cert |-> NoValue,
              window |-> "year"]

\* dataspaceAgreementsFor, dataspaceRolesFor
EntriesOf(ds) == IF modal.list = "listed" /\ ds \in Dataspaces THEN Catalogue[ds] ELSE {}

\* The type-specific values go, the claim skeleton stays.
OfType(form, type) == [form EXCEPT !.type = type, !.ds = NoValue, !.entry = NoValue,
                                   !.cert = NoValue]

setDataspace(form, ds) ==
    [form EXCEPT !.ds = ds,
        !.entry = IF EntriesOf(ds) # {} /\ @ \notin EntriesOf(ds) THEN NoValue ELSE @]

missing(form) ==
    \/ form.type = "agreement" /\ (form.ds = NoValue \/ form.entry = NoValue)
    \/ form.type = "certificate" /\ form.cert = NoValue

-----------------------------------------------------------------------------
Enter ==
    /\ modal = Closed
    /\ modal' = [open |-> TRUE, form |-> FirstForm, list |-> "loading", saving |-> FALSE]
    /\ parses' = {} /\ sent' = Nothing

\* The cross and the backdrop close it at any time.
Leave == modal # Closed /\ modal' = Closed /\ parses' = {} /\ sent' = Nothing

\* fetchDataspaces came back, with dataspaces or without.
DataspacesArrive ==
    /\ modal # Closed /\ modal.list = "loading"
    /\ \E l \in {"listed", "none"} : modal' = [modal EXCEPT !.list = l]
    /\ UNCHANGED <<parses, sent>>

ChangeType(type) ==
    /\ modal # Closed /\ modal.form.type # type
    /\ modal' = [modal EXCEPT !.form = OfType(@, type)]
    /\ UNCHANGED <<parses, sent>>

\* A select over the list, free text without one; disabled while it loads.
ChooseDataspace(ds) ==
    /\ modal # Closed /\ modal.form.type = "agreement" /\ modal.list # "loading"
    /\ modal.form.ds # ds
    /\ modal' = [modal EXCEPT !.form = setDataspace(@, ds)]
    /\ UNCHANGED <<parses, sent>>

\* pickCatalogueEntry, or free text where there is no catalogue; a listed
\* dataspace is chosen first.
ChooseEntry(entry) ==
    /\ modal # Closed /\ modal.form.type = "agreement" /\ modal.form.entry # entry
    /\ modal.list # "loading"
    /\ LET offered == EntriesOf(modal.form.ds)
       IN /\ modal.list = "listed" => modal.form.ds # NoValue
          /\ offered # {} => entry \in offered \cup {NoValue}
    /\ modal' = [modal EXCEPT !.form.entry = entry]
    /\ UNCHANGED <<parses, sent>>

TypeDates ==
    /\ modal # Closed /\ modal.form.window # "typed"
    /\ modal' = [modal EXCEPT !.form.window = "typed"]
    /\ UNCHANGED <<parses, sent>>

\* handleCertFile: the file is read and parsed while the form stays usable.
ChooseFile(f, parsable) ==
    /\ modal # Closed /\ modal.form.type = "certificate"
    /\ Cardinality(parses) < MaxParses
    /\ parses' = parses \cup {[file |-> f, parsable |-> parsable]}
    /\ UNCHANGED <<modal, sent>>

\* Mutant: only the default window makes way for the one of a file.
ParsedOnce(p) ==
    /\ modal # Closed /\ p \in parses /\ p.parsable
    /\ parses' = parses \ {p}
    /\ modal' = [modal EXCEPT !.form.cert = p.file,
                              !.form.window = IF @ = "year" THEN p.file ELSE @]
    /\ UNCHANGED sent

Parsed(p) ==
    /\ modal # Closed /\ p \in parses /\ p.parsable
    /\ parses' = parses \ {p}
    /\ modal' = [modal EXCEPT !.form.cert = p.file, !.form.window = p.file]
    /\ UNCHANGED sent

ParseFails(p) ==
    /\ modal # Closed /\ p \in parses /\ ~p.parsable
    /\ parses' = parses \ {p}
    /\ modal' = [modal EXCEPT !.form.cert = NoValue]
    /\ UNCHANGED sent

\* The claim takes the values of its own type only.
Claim(form) == [type |-> form.type, window |-> form.window,
                ds |-> IF form.type = "agreement" THEN form.ds ELSE NoValue,
                entry |-> IF form.type = "agreement" THEN form.entry ELSE NoValue,
                cert |-> IF form.type = "certificate" THEN form.cert ELSE NoValue]

Save ==
    /\ modal # Closed /\ ~modal.saving /\ ~missing(modal.form)
    /\ modal' = [modal EXCEPT !.saving = TRUE]
    /\ sent' = Claim(modal.form)
    /\ UNCHANGED parses

\* A refused claim leaves the form as it is; onSaved closes it.
Refused ==
    /\ modal # Closed /\ modal.saving
    /\ modal' = [modal EXCEPT !.saving = FALSE]
    /\ UNCHANGED <<parses, sent>>

Created ==
    /\ modal # Closed /\ modal.saving
    /\ modal' = Closed /\ parses' = {} /\ sent' = Nothing

Init == modal = Closed /\ parses = {} /\ sent = Nothing

Work ==
    \/ Leave \/ DataspacesArrive \/ TypeDates \/ Save \/ Refused \/ Created
    \/ \E type \in Types : ChangeType(type)
    \/ \E ds \in Dataspaces \cup {NoValue} : ChooseDataspace(ds)
    \/ \E entry \in Entries \cup {NoValue} : ChooseEntry(entry)
    \/ \E f \in Files, parsable \in BOOLEAN : ChooseFile(f, parsable)
    \/ \E p \in parses : Parsed(p) \/ ParseFails(p)

-----------------------------------------------------------------------------
TypeOK ==
    /\ modal \in {Closed} \cup Modal
    /\ parses \subseteq [file : Files, parsable : BOOLEAN]
    /\ sent \in {Nothing} \cup ClaimValues

(* An agreement (or role) is sent only for a dataspace that defines it, when *)
(* the dataspace defines any, however often type and dataspace were changed  *)
(* ("so a stale value cannot be submitted against the newly chosen           *)
(* dataspace", setDataspace).                                                *)
ClaimFitsItsDataspace ==
    sent # Nothing /\ sent.type = "agreement" /\ EntriesOf(sent.ds) # {}
        => sent.entry \in EntriesOf(sent.ds)

(* A certificate claim has a certificate, and dates that came from a file    *)
(* came from that file, with several files parsed in any order.              *)
CertificateGivesItsWindow ==
    sent # Nothing /\ sent.type = "certificate"
        => /\ sent.cert # NoValue
           /\ sent.window \in Files => sent.window = sent.cert
=============================================================================
