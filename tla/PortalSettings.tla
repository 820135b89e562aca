--------------------------- MODULE PortalSettings ---------------------------
(* The settings row, the files it names and the configuration in force.      *)
(*                                                                           *)
(* There is one settings row. Every handler that changes anything about the  *)
(* portal - the connection to the registry, the agreements, the logo, the    *)
(* theme library - reads that row, changes its own columns in the copy and   *)
(* saves the whole copy. Uploaded files live beside the database under names *)
(* that contain the second of the upload. Saving the settings also overlays  *)
(* the connection columns on the configuration the server runs with, which   *)
(* is rebuilt from the environment, the row and the registry's version       *)
(* discovery when the server starts. Any write can fail and the server can   *)
(* stop between any two steps.                                               *)
EXTENDS Naturals, FiniteSets, Sequences

CONSTANTS
    Workers,        \* requests in progress at the same time
    Builtins,       \* ids of the bundled agreements
    Ids,            \* ids newAgreementID can draw
    Branding,       \* which of "logo" and "favicon" are uploaded
    ThemeNames,     \* names in the theme library
    Inputs,         \* bodies of PUT /settings: [base, version, themes]
    EnvConfig,      \* the environment: [base, version]
    Advertises,     \* registry base URL -> the version it discovers, or Blank
    Absent,         \* a field the body does not have
    NoFile,         \* an empty path
    MaxRows,        \* bound: settings rows
    MaxSeconds      \* bound: seconds that pass

Blank == ""
Seconds == 0..MaxSeconds
\* What a file is uploaded for; its name adds the second it came in.
Agreement == "agreement"
File == [what : Branding \cup ThemeNames \cup {Agreement}, at : Seconds]

ASSUME BoundsAreNat == MaxRows \in Nat \ {0} /\ MaxSeconds \in Nat
ASSUME BrandingIsKnown ==
    /\ Branding \subseteq {"logo", "favicon"}
    /\ ThemeNames \cap {"logo", "favicon", Agreement} = {}
ASSUME IdsAreFresh == Builtins \cap Ids = {}
ASSUME NoFileIsNone == NoFile \notin File
ASSUME InputsAreBodies ==
    /\ EnvConfig = [base |-> EnvConfig.base, version |-> EnvConfig.version]
    /\ \A in \in Inputs : in.themes = Absent \/ in.themes \subseteq ThemeNames

VARIABLES
    rows,           \* the settings table; First() is rows[1]
    cfg,            \* the connection in force: [base, version]
    up,             \* the server is running
    reqs,           \* worker -> the request it is executing
    disk,           \* files under ./uploads
    second,         \* the wall clock
    removed,        \* history: agreements an administrator removed
    unsaved         \* history: what the last upload for did not finish

vars == <<rows, cfg, up, reqs, disk, second, removed, unsaved>>

-----------------------------------------------------------------------------
(* The settings row                                                          *)

Agreements == UNION {[S -> File \cup {NoFile}] : S \in SUBSET (Builtins \cup Ids)}
Themes == UNION {[S -> File \cup {NoFile}] : S \in SUBSET ThemeNames}
Bases == {EnvConfig.base, Blank} \cup ({in.base : in \in Inputs} \ {Absent})
Versions == {EnvConfig.version, Blank}
            \cup ({in.version : in \in Inputs} \ {Absent})
            \cup {Advertises[b] : b \in DOMAIN Advertises}

\* models.Settings: the columns that matter here. An agreement has a file when
\* an administrator uploaded it; a theme of the library may have a header image.
Row == [base : Bases, version : Versions, agreements : Agreements,
        initialized : BOOLEAN, logo : File \cup {NoFile},
        favicon : File \cup {NoFile}, themes : Themes]
BlankRow == [base |-> Blank, version |-> Blank, agreements |-> <<>>,
             initialized |-> FALSE, logo |-> NoFile, favicon |-> NoFile,
             themes |-> <<>>]

\* DB.First(&settings): the row with the lowest id, or the zero value. (A read
\* that fails counts as no row, and what is then created as another row is never
\* found again: it is left out.)
First == IF rows = <<>> THEN BlankRow ELSE rows[1]

Idle == [op |-> "idle"]
\* "of" is what the request is about: a body, an agreement or a file's use.
Requests(op, stages, subjects) ==
    [op : {op}, stage : stages, creating : BOOLEAN, row : Row,
     file : File \cup {NoFile}, of : subjects]
IsRequest(r) ==
    \/ r.op = "settings" /\ r \in Requests("settings", {"save", "overlay"}, Inputs)
    \/ r.op = "agreements" /\ r \in Requests("agreements", {"save"}, Builtins \cup Ids)
    \/ r.op = "remove" /\ r \in Requests("remove", {"save", "cleanup"}, Builtins \cup Ids)
    \/ r.op = "upload" /\ r \in Requests("upload", {"write", "save"}, Branding \cup ThemeNames)

TypeOK ==
    /\ rows \in Seq(Row) /\ Len(rows) <= MaxRows
    /\ cfg \in [base : Bases, version : Versions]
    /\ up \in BOOLEAN
    /\ reqs = [w \in Workers |-> reqs[w]]
    /\ \A w \in Workers : reqs[w] = Idle \/ IsRequest(reqs[w])
    /\ disk \subseteq File
    /\ second \in Seconds
    /\ removed \subseteq Builtins \cup Ids
    /\ unsaved \subseteq Branding \cup ThemeNames

\* A new deployment, or a database from before the bundled agreements.
Init ==
    /\ rows \in {<<>>, <<BlankRow>>}
    /\ cfg = EnvConfig
    /\ up = FALSE
    /\ reqs = [w \in Workers |-> Idle]
    /\ disk = {}
    /\ second = 0
    /\ removed = {}
    /\ unsaved = {}

-----------------------------------------------------------------------------
(* Starting the server: main()                                               *)

\* OverlaySatelliteSettings: a blank column leaves the configuration alone.
Overlay(c, row) ==
    [base |-> IF row.base # Blank THEN row.base ELSE c.base,
     version |-> IF row.version # Blank THEN row.version ELSE c.version]

With(f, key, value) ==
    [k \in DOMAIN f \cup {key} |-> IF k = key THEN value ELSE f[k]]
BundledBeside(agreements) ==
    [a \in Builtins \cup DOMAIN agreements |->
       IF a \in DOMAIN agreements THEN agreements[a] ELSE NoFile]

Seeded(row) == [row EXCEPT !.agreements = BundledBeside(@), !.initialized = TRUE]
\* Mutant: seeds at every start.
SeedEveryTime == IF rows = <<>> THEN <<Seeded(BlankRow)>>
                 ELSE <<Seeded(rows[1])>> \o Tail(rows)
SeedBuiltinAgreements ==
    IF rows = <<>> THEN <<Seeded(BlankRow)>>
    ELSE IF rows[1].initialized THEN rows
    ELSE [rows EXCEPT ![1] = Seeded(@)]

\* DetectFrameworkVersion: the registry may not answer.
DetectFrameworkVersion(base) ==
    {Blank} \cup (IF base \in DOMAIN Advertises THEN {Advertises[base]} ELSE {})

Start ==
    /\ ~up
    /\ LET c == Overlay(EnvConfig, First)
       IN  \E v \in DetectFrameworkVersion(c.base) :
             cfg' = [c EXCEPT !.version = IF v = Blank THEN @ ELSE v]
    /\ rows' \in {rows, SeedBuiltinAgreements}
    /\ up' = TRUE
    /\ UNCHANGED <<reqs, disk, second, removed, unsaved>>

Stop ==
    /\ up
    /\ up' = FALSE
    /\ reqs' = [w \in Workers |-> Idle]
    /\ UNCHANGED <<rows, cfg, disk, second, removed, unsaved>>

-----------------------------------------------------------------------------
(* A request begins: the row is read and the copy changed                    *)

Goto(w, r) == reqs' = [reqs EXCEPT ![w] = r]
Begin(w, op, stage, row, file, of) ==
    /\ up /\ reqs[w] = Idle
    /\ Goto(w, [op |-> op, stage |-> stage, creating |-> rows = <<>>,
                row |-> row, file |-> file, of |-> of])
    /\ UNCHANGED <<rows, cfg, up, second, removed, unsaved>>

\* Mutant: the submitted library replaces the stored one.
ReplaceThemes(themes, names) == [t \in names |-> NoFile]
\* mergeThemeAssets: the editor does not know the images; carry them over.
mergeThemeAssets(themes, names) ==
    [t \in names |-> IF t \in DOMAIN themes THEN themes[t] ELSE NoFile]

Present(value, default) == IF value = Absent THEN default ELSE value
UpdateSettings(w, in) ==
    /\ Begin(w, "settings", "save",
             [First EXCEPT
                !.base = Present(in.base, @),
                !.version = Present(in.version, @),
                !.themes = IF in.themes = Absent THEN @
                           ELSE mergeThemeAssets(@, in.themes)],
             NoFile, in)
    /\ UNCHANGED disk

NameFor(x) == [what |-> x, at |-> second]

\* UploadAgreementFile stores the document first, then reads the row.
UploadAgreementFile(w, id) ==
    LET file == NameFor(Agreement)
    IN  /\ id \notin DOMAIN First.agreements \cup removed
        /\ Begin(w, "agreements", "save",
                 [First EXCEPT !.agreements = With(@, id, file),
                               !.initialized = TRUE], file, id)
        /\ disk' = disk \cup {file}

AddAgreementURL(w, id) ==
    /\ id \notin DOMAIN First.agreements \cup removed
    /\ Begin(w, "agreements", "save",
             [First EXCEPT !.agreements = With(@, id, NoFile),
                           !.initialized = TRUE], NoFile, id)
    /\ UNCHANGED disk

\* Title, version, URL and credentials: nothing the other columns see.
UpdateAgreement(w, id) ==
    /\ id \in DOMAIN First.agreements
    /\ Begin(w, "agreements", "save", [First EXCEPT !.initialized = TRUE],
             NoFile, id)
    /\ UNCHANGED disk

DeleteAgreement(w, id) ==
    /\ id \in DOMAIN First.agreements
    /\ LET rest == [a \in DOMAIN First.agreements \ {id} |-> First.agreements[a]]
       IN  Begin(w, "remove", "save",
                 [First EXCEPT !.agreements = rest, !.initialized = TRUE],
                 First.agreements[id], id)
    /\ UNCHANGED disk

\* UploadLogo and UploadFavicon; UploadThemeAsset wants the theme in the library.
UploadBranding(w, x) ==
    /\ x \in Branding
    /\ Begin(w, "upload", "write", First, NoFile, x)
    /\ UNCHANGED disk

UploadThemeAsset(w, t) ==
    /\ rows # <<>> /\ t \in DOMAIN First.themes
    /\ Begin(w, "upload", "write", First, NoFile, t)
    /\ UNCHANGED disk

-----------------------------------------------------------------------------
(* ... replaces the uploaded file, saves the copy, and then does the rest    *)

\* The file the copy of the row has for x, and the copy with another one.
FileFor(row, x) ==
    CASE x = "logo" -> row.logo
      [] x = "favicon" -> row.favicon
      [] x \in ThemeNames -> row.themes[x]
Replaced(row, x, file) ==
    CASE x = "logo" -> [row EXCEPT !.logo = file]
      [] x = "favicon" -> [row EXCEPT !.favicon = file]
      [] x \in ThemeNames -> [row EXCEPT !.themes[x] = file]

At(w, stage) == reqs[w] # Idle /\ reqs[w].stage = stage

\* Mutant: the stored file is removed after the new one is written.
ReplaceThenRemove(w) ==
    /\ At(w, "write")
    /\ LET x == reqs[w].of
           file == NameFor(x)
       IN  /\ disk' = (disk \cup {file}) \ {FileFor(reqs[w].row, x)}
           /\ unsaved' = unsaved \cup {x}
           /\ Goto(w, [reqs[w] EXCEPT !.row = Replaced(@, x, file),
                                     !.file = file, !.stage = "save"])
    /\ UNCHANGED <<rows, cfg, up, second, removed>>

\* The stored file is removed before the new one is written.
ReplaceFile(w) ==
    /\ At(w, "write")
    /\ LET x == reqs[w].of
           file == NameFor(x)
       IN  /\ disk' = (disk \ {FileFor(reqs[w].row, x)}) \cup {file}
           /\ unsaved' = unsaved \cup {x}
           /\ Goto(w, [reqs[w] EXCEPT !.row = Replaced(@, x, file),
                                     !.file = file, !.stage = "save"])
    /\ UNCHANGED <<rows, cfg, up, second, removed>>

WriteFails(w) ==
    /\ At(w, "write")
    /\ disk' = disk \ {FileFor(reqs[w].row, reqs[w].of)}
    /\ unsaved' = unsaved \cup {reqs[w].of}
    /\ Goto(w, Idle)
    /\ UNCHANGED <<rows, cfg, up, second, removed>>

\* Save writes every column of the copy; Create adds a row when First() found
\* none. What follows depends on the handler.
Save(w) ==
    /\ At(w, "save")
    /\ LET r == reqs[w]
       IN  /\ IF r.creating
              THEN Len(rows) < MaxRows /\ rows' = Append(rows, r.row)
              ELSE rows' = [rows EXCEPT ![1] = r.row]
           /\ removed' = IF r.op = "remove" THEN removed \cup {r.of} ELSE removed
           /\ unsaved' = IF r.op = "upload" THEN unsaved \ {r.of} ELSE unsaved
           /\ Goto(w, IF r.op = "settings" THEN [r EXCEPT !.stage = "overlay"]
                      ELSE IF r.op = "remove" /\ r.file # NoFile
                      THEN [r EXCEPT !.stage = "cleanup"] ELSE Idle)
    /\ UNCHANGED <<cfg, up, disk, second>>

\* An upload removes the file it has just stored; the old one stays removed.
SaveFails(w) ==
    /\ At(w, "save")
    /\ disk' = IF reqs[w].op \in {"upload", "agreements"}
               THEN disk \ {reqs[w].file} ELSE disk
    /\ Goto(w, Idle)
    /\ UNCHANGED <<rows, cfg, up, second, removed, unsaved>>

\* Mutant: the connection waits for a restart.
NothingApplied(w) ==
    /\ At(w, "overlay")
    /\ Goto(w, Idle)
    /\ UNCHANGED <<rows, cfg, up, disk, second, removed, unsaved>>

\* UpdateSettings puts the connection of its copy in force.
ApplyOverlay(w) ==
    /\ At(w, "overlay")
    /\ cfg' = Overlay(cfg, reqs[w].row)
    /\ Goto(w, Idle)
    /\ UNCHANGED <<rows, up, disk, second, removed, unsaved>>

\* DeleteAgreement removes the uploaded document after the entry.
RemoveDocument(w) ==
    /\ At(w, "cleanup")
    /\ disk' = disk \ {reqs[w].file}
    /\ Goto(w, Idle)
    /\ UNCHANGED <<rows, cfg, up, second, removed, unsaved>>

SecondPasses ==
    /\ second < MaxSeconds
    /\ second' = second + 1
    /\ UNCHANGED <<rows, cfg, up, reqs, disk, removed, unsaved>>

-----------------------------------------------------------------------------
EditAgreements(w) ==
    \/ \E id \in Ids : UploadAgreementFile(w, id) \/ AddAgreementURL(w, id)
    \/ \E id \in Builtins \cup Ids : UpdateAgreement(w, id) \/ DeleteAgreement(w, id)
Upload(w) ==
    \/ \E x \in Branding : UploadBranding(w, x)
    \/ \E t \in ThemeNames : UploadThemeAsset(w, t)
Proceed(w) ==
    \/ ReplaceFile(w) \/ WriteFails(w) \/ Save(w) \/ SaveFails(w)
    \/ ApplyOverlay(w) \/ RemoveDocument(w)

Next ==
    \/ \E w \in Workers :
         \/ \E in \in Inputs : UpdateSettings(w, in)
         \/ EditAgreements(w) \/ Upload(w) \/ Proceed(w)
    \/ Start \/ Stop \/ SecondPasses

Spec == Init /\ [][Next]_vars

-----------------------------------------------------------------------------
(* Properties                                                                *)

\* One request at a time: whatever was saved, failed or restarted, the server
\* talks to the registry the stored row names unless it is just being saved.
StoredConnectionInForce ==
    (up /\ First.base # Blank /\ \A w \in Workers : ~At(w, "overlay"))
        => cfg.base = First.base

\* One request at a time: a theme that stays in the library keeps naming its
\* image, also when the editor that saves the library has never heard of it.
ThemesKeepTheirImages ==
    [][\A t \in ThemeNames :
         (/\ rows # <<>> /\ t \in DOMAIN rows[1].themes
          /\ t \in DOMAIN rows'[1].themes /\ rows[1].themes[t] # NoFile)
            => rows'[1].themes[t] # NoFile]_vars

\* One request at a time an agreement that was removed stays removed. With two
\* it does not, although the generic update ignores the agreements of its body:
\* "Ignoring any `agreements` field in this generic update prevents clobbering
\* them".
RemovedStaysRemoved ==
    rows # <<>> => removed \cap DOMAIN rows[1].agreements = {}

\* One request at a time: the logo, the favicon and the theme images the row
\* names are there to be served, unless the last upload did not finish. Then the
\* row may name a file that upload has removed: its rollback restores nothing.
StoredImagesExist ==
    \A x \in Branding \cup DOMAIN First.themes :
      (x \notin unsaved /\ FileFor(First, x) # NoFile)
        => FileFor(First, x) \in disk

\* The row, the requests and the files have their shape, and the images are there.
ImagesAreThere == TypeOK /\ StoredImagesExist
=============================================================================
