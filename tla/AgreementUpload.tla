--------------------------- MODULE AgreementUpload ---------------------------
(* The document of one agreement claim of the creation form                  *)
(* (SubmitClaimsForm, handleAgreementFile): its hash is computed while the   *)
(* operator goes on typing the title, which the file name prefills.          *)
EXTENDS Naturals, FiniteSets

CONSTANTS
    Docs,       \* documents, each the title its file name gives
    NoDoc,
    MaxHashes   \* bound: documents being hashed

\* Assumed of the constants (Console).
UploadAssumption ==
    NoDoc \notin Docs /\ {"", "typed"} \cap Docs = {} /\ MaxHashes \in Nat

VARIABLES
    claim,      \* the agreement claim, or Closed
    hashes      \* documents being hashed

vars == <<claim, hashes>>

-----------------------------------------------------------------------------
Closed == [open |-> FALSE]
Titles == {"", "typed"} \cup Docs
\* file: the document named under the upload; hash: the one whose digest is
\* in the claim; typed: the operator was the last to type a title.
Claim == [open : {TRUE}, title : Titles, typed : BOOLEAN, file : Docs \cup {NoDoc},
          hash : Docs \cup {NoDoc}]

\* titleFromFilename(c._agreementFile || "")
PrefillOf(c) == IF c.file = NoDoc THEN "" ELSE c.file
keepTitle(c) == c.title # "" /\ c.title # PrefillOf(c)

Enter ==
    /\ claim = Closed
    /\ claim' = [open |-> TRUE, title |-> "", typed |-> FALSE, file |-> NoDoc,
                 hash |-> NoDoc]
    /\ hashes' = {}

Leave == claim # Closed /\ claim' = Closed /\ hashes' = {}

TypeTitle(title) ==
    /\ claim # Closed /\ claim.title # title
    /\ claim' = [claim EXCEPT !.title = title, !.typed = (title = "typed")]
    /\ UNCHANGED hashes

\* Neither a PDF nor small enough: the digest of the last document stays.
RefuseFile ==
    /\ claim # Closed
    /\ claim' = [claim EXCEPT !.file = NoDoc]
    /\ UNCHANGED hashes

ChooseFile(d) ==
    /\ claim # Closed /\ Cardinality(hashes) < MaxHashes
    /\ hashes' = hashes \cup {d}
    /\ UNCHANGED claim

Attached(c, d) == [c EXCEPT !.hash = d, !.file = d,
                            !.title = IF keepTitle(c) THEN @ ELSE d]
Hashed(d) ==
    /\ claim # Closed /\ d \in hashes
    /\ claim' = Attached(claim, d)
    /\ hashes' = hashes \ {d}

Unreadable(d) ==
    /\ claim # Closed /\ d \in hashes
    /\ claim' = [claim EXCEPT !.file = NoDoc, !.hash = NoDoc]
    /\ hashes' = hashes \ {d}

clearAgreement ==
    /\ claim # Closed /\ claim.file # NoDoc
    /\ claim' = [claim EXCEPT !.hash = NoDoc, !.file = NoDoc,
                              !.title = IF @ = PrefillOf(claim) THEN "" ELSE @]
    /\ UNCHANGED hashes

Init == claim = Closed /\ hashes = {}

Work ==
    \/ Leave \/ RefuseFile \/ clearAgreement
    \/ \E title \in {"", "typed"} : TypeTitle(title)
    \/ \E d \in Docs : ChooseFile(d) \/ Hashed(d) \/ Unreadable(d)

-----------------------------------------------------------------------------
TypeOK ==
    /\ claim \in {Closed} \cup Claim
    /\ hashes \subseteq Docs

(* The document named under the upload is the one whose digest the claim     *)
(* carries, in whatever order digests come in, and a title the operator      *)
(* typed stays ("keep a title the operator typed themselves").               *)
FileAndTitleAreTrue ==
    claim # Closed => /\ claim.file # NoDoc => claim.hash = claim.file
                      /\ claim.typed => claim.title = "typed"
=============================================================================
