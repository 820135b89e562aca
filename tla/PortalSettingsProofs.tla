------------------------ MODULE PortalSettingsProofs ------------------------
(* What one request at a time does to the settings row: the connection it     *)
(* stores is in force, the agreements it removes stay removed, and the images *)
(* it names are there - for any inputs, agreements and themes, however writes *)
(* fail and the server stops.                                                 *)
EXTENDS PortalSettings, TLAPS

\* The handlers do not lock the row: with two requests none of this holds.
OneAtATime == \A v, w \in Workers : v = w

\* The logo, the favicon and the theme images of a row.
Images(row) == Branding \cup DOMAIN row.themes

\* A file in a column was uploaded for that column.
Named(row) ==
    /\ \A x \in Images(row) : FileFor(row, x) # NoFile => FileFor(row, x).what = x
    /\ \A a \in DOMAIN row.agreements :
         row.agreements[a] # NoFile => row.agreements[a].what = Agreement

\* The images of a row are there, apart from those an upload has left unfinished.
Served(row, without) ==
    \A x \in Images(row) \ without : FileFor(row, x) # NoFile => FileFor(row, x) \in disk

\* What was removed is not in the row, and the bundled agreements do not come back.
Kept(row) ==
    /\ removed \cap DOMAIN row.agreements = {}
    /\ ~row.initialized => removed = {}

\* A copy that is yet to be saved: the row it is a copy of has not changed.
Saveable(r) ==
    /\ Kept(r.row)
    /\ Served(r.row, IF r.op = "upload" THEN unsaved \ {r.of} ELSE unsaved)
    /\ \A t \in DOMAIN r.row.themes \cap DOMAIN First.themes :
         First.themes[t] # NoFile => r.row.themes[t] # NoFile
    /\ r.op # "settings" => r.row.base = First.base
    /\ r.op = "remove" => r.of \notin DOMAIN r.row.agreements /\ r.row.initialized
    /\ r.op = "upload" => r.of \in unsaved /\ r.file.what = r.of

Follows(r) ==
    /\ Named(r.row)
    /\ r.stage \in {"write", "save"} => (r.creating <=> rows = <<>>)
    /\ r.stage \in {"write", "overlay"} => r.row = First
    /\ r.stage = "save" => Saveable(r)
    /\ r.op = "upload" => r.of \in Images(r.row)
    /\ r.op # "upload" /\ r.file # NoFile => r.file.what = Agreement

IInv ==
    /\ TypeOK
    /\ Named(First) /\ Kept(First) /\ Served(First, unsaved)
    /\ StoredConnectionInForce
    /\ \A w \in Workers : reqs[w] # Idle => up /\ Follows(reqs[w])

-----------------------------------------------------------------------------
(* Rows                                                                      *)

LEMMA AgreementsAre ==
    \A f : f \in Agreements <=> /\ DOMAIN f \subseteq Builtins \cup Ids
                                /\ f \in [DOMAIN f -> File \cup {NoFile}]
BY DEF Agreements

\* A library of themes maps some names to files.
LEMMA ThemesAre ==
    \A f : f \in Themes <=> /\ DOMAIN f \subseteq ThemeNames
                            /\ f \in [DOMAIN f -> File \cup {NoFile}]
BY DEF Themes

\* A row that is created is a row, with nothing in it.
LEMMA BlankRowIs == BlankRow \in Row /\ DOMAIN BlankRow.agreements = {} /\ DOMAIN BlankRow.themes = {}
<1>1. DOMAIN (<<>>) = {} /\ <<>> \in [{} -> File \cup {NoFile}]
  OBVIOUS
<1>2. <<>> \in Agreements /\ <<>> \in Themes
  BY <1>1, AgreementsAre, ThemesAre
<1>3. Blank \in Bases /\ Blank \in Versions
  BY DEF Bases, Versions
<1> QED BY <1>1, <1>2, <1>3 DEF BlankRow, Row

\* What the images of a row are.
LEMMA ImagesAre ==
    ASSUME NEW row \in Row, BrandingIsKnown
    PROVE  /\ DOMAIN row.themes \subseteq ThemeNames /\ row.themes \in Themes
           /\ FileFor(row, "logo") = row.logo /\ FileFor(row, "favicon") = row.favicon
           /\ \A t \in DOMAIN row.themes : FileFor(row, t) = row.themes[t]
           /\ Images(row) \subseteq {"logo", "favicon"} \cup DOMAIN row.themes
           /\ \A x \in Images(row) : FileFor(row, x) \in File \cup {NoFile}
<1>1. DOMAIN row.themes \subseteq ThemeNames /\ row.themes \in [DOMAIN row.themes -> File \cup {NoFile}]
  BY ThemesAre DEF Row
<1>2. row.logo \in File \cup {NoFile} /\ row.favicon \in File \cup {NoFile} /\ row.themes \in Themes
  BY DEF Row
<1>3. Images(row) \subseteq {"logo", "favicon"} \cup DOMAIN row.themes
  BY BrandingIsKnown DEF Images
<1>4. FileFor(row, "logo") = row.logo /\ FileFor(row, "favicon") = row.favicon
  BY BrandingIsKnown DEF FileFor
<1>5. ASSUME NEW t \in DOMAIN row.themes PROVE FileFor(row, t) = row.themes[t]
  <2>1. t \in ThemeNames /\ t # "logo" /\ t # "favicon"
    BY <1>1, BrandingIsKnown
  <2> QED BY <2>1 DEF FileFor
<1> QED BY <1>1, <1>2, <1>3, <1>4, <1>5

\* There is a row, first in the table, or a blank one.
LEMMA FirstIs == TypeOK => First \in Row
BY BlankRowIs DEF TypeOK, First

\* A copy that has no images of its own.
LEMMA SameImages ==
    ASSUME NEW row \in Row, NEW copy \in Row, BrandingIsKnown, Named(row), NEW without,
           copy.logo = row.logo, copy.favicon = row.favicon,
           \A t \in DOMAIN copy.themes :
              copy.themes[t] = NoFile \/ (t \in DOMAIN row.themes /\ copy.themes[t] = row.themes[t]),
           \A a \in DOMAIN copy.agreements :
              copy.agreements[a] # NoFile => copy.agreements[a].what = Agreement
    PROVE  Named(copy) /\ (Served(row, without) => Served(copy, without))
<1>1. ASSUME NEW x \in Images(copy)
      PROVE  \/ FileFor(copy, x) = NoFile
             \/ x \in Images(row) /\ FileFor(copy, x) = FileFor(row, x)
  <2>1. CASE x \in {"logo", "favicon"}
    <3>1. x \in Images(row)
      BY <1>1, <2>1, ImagesAre, BrandingIsKnown DEF Images
    <3> QED BY <2>1, <3>1, ImagesAre
  <2>2. CASE x \in DOMAIN copy.themes
    <3>1. FileFor(copy, x) = copy.themes[x]
      BY <2>2, ImagesAre
    <3>2. x \in DOMAIN row.themes => x \in Images(row) /\ FileFor(row, x) = row.themes[x]
      BY ImagesAre DEF Images
    <3> QED BY <2>2, <3>1, <3>2
  <2> QED BY <1>1, <2>1, <2>2, ImagesAre
<1> QED BY <1>1 DEF Named, Served

-----------------------------------------------------------------------------
(* What a step leaves                                                        *)

\* The only request has become another one, or is over.
LEMMA Alone ==
    ASSUME OneAtATime, IInv, NEW w \in Workers, NEW r, Goto(w, r),
           r = Idle \/ (IsRequest(r) /\ up' /\ Follows(r)'),
           rows' \in Seq(Row), Len(rows') <= MaxRows, cfg' \in [base : Bases, version : Versions],
           up' \in BOOLEAN, disk' \subseteq File, second' \in Seconds,
           removed' \subseteq Builtins \cup Ids, unsaved' \subseteq Branding \cup ThemeNames,
           Named(First'), Kept(First)', Served(First, unsaved)',
           up' /\ First'.base # Blank /\ (r = Idle \/ r.stage # "overlay") => cfg'.base = First'.base
    PROVE  IInv'
<1>1. reqs' = [v \in Workers |-> reqs'[v]] /\ \A v \in Workers : reqs'[v] = r
  BY DEF OneAtATime, IInv, TypeOK, Goto
<1>2. TypeOK'
  BY <1>1 DEF TypeOK
<1>3. StoredConnectionInForce'
  BY <1>1 DEF StoredConnectionInForce, At
<1>4. \A v \in Workers : reqs'[v] # Idle => up' /\ Follows(reqs[v])'
  BY <1>1 DEF Follows, Saveable, Kept, Served
<1> QED BY <1>2, <1>3, <1>4 DEF IInv, Named, First, FileFor, Images

\* Nothing of the row, the clock or the history changes, and no file goes.
Still == UNCHANGED <<rows, cfg, up, second, removed, unsaved>> /\ disk \subseteq disk' /\ disk' \subseteq File

\* A step that leaves the row, its files and the configuration alone keeps the rest.
LEMMA StillFits ==
    ASSUME IInv, Still
    PROVE  /\ First' = First /\ Named(First') /\ Kept(First)' /\ Served(First, unsaved)'
           /\ \A r : Follows(r) => Follows(r)'
           /\ rows' \in Seq(Row) /\ Len(rows') <= MaxRows /\ cfg' \in [base : Bases, version : Versions]
           /\ up' \in BOOLEAN /\ second' \in Seconds
           /\ removed' \subseteq Builtins \cup Ids /\ unsaved' \subseteq Branding \cup ThemeNames
<1>1. First' = First /\ Named(First')
  BY DEF IInv, Still, First
<1>2. \A row, without : Served(row, without) => Served(row, without)'
  BY DEF Still, Served
<1>3. \A row : Kept(row) => Kept(row)'
  BY DEF Still, Kept
<1>4. \A r : Follows(r) => Follows(r)'
  BY <1>1, <1>2, <1>3 DEF Still, Follows, Saveable
<1> QED BY <1>1, <1>2, <1>3, <1>4 DEF IInv, Still, TypeOK

\* A request begins with a copy of the row it may save.
LEMMA BeginStep ==
    ASSUME OneAtATime, IInv, NEW w \in Workers, NEW op, NEW stage, NEW row, NEW file, NEW of,
           Begin(w, op, stage, row, file, of), disk \subseteq disk', disk' \subseteq File,
           NEW r, r = [op |-> op, stage |-> stage, creating |-> rows = <<>>, row |-> row,
                       file |-> file, of |-> of],
           IsRequest(r), Follows(r), stage # "overlay"
    PROVE  IInv'
<1>1. Still /\ up /\ Goto(w, r) /\ reqs[w] = Idle
  BY DEF Begin, Still
<1>2. /\ First' = First /\ Named(First') /\ Kept(First)' /\ Served(First, unsaved)'
      /\ Follows(r)'
      /\ rows' \in Seq(Row) /\ Len(rows') <= MaxRows /\ cfg' \in [base : Bases, version : Versions]
      /\ up' \in BOOLEAN /\ second' \in Seconds
      /\ removed' \subseteq Builtins \cup Ids /\ unsaved' \subseteq Branding \cup ThemeNames
  BY <1>1, StillFits
<1>3. First.base # Blank => cfg.base = First.base
  BY <1>1 DEF OneAtATime, IInv, StoredConnectionInForce, At
<1>4. up' /\ cfg' = cfg
  BY <1>1 DEF Still
<1> QED BY <1>1, <1>2, <1>3, <1>4, Alone

-----------------------------------------------------------------------------
(* A request begins                                                          *)

\* A copy that differs from the row in what its handler changes.
LEMMA CopyFits ==
    ASSUME IInv, BrandingIsKnown, NEW r, r.row \in Row,
           r.stage = "save", r.creating <=> rows = <<>>,
           r.row.logo = First.logo, r.row.favicon = First.favicon,
           \A t \in DOMAIN r.row.themes :
              r.row.themes[t] = IF t \in DOMAIN First.themes THEN First.themes[t] ELSE NoFile,
           \A a \in DOMAIN r.row.agreements :
              r.row.agreements[a] # NoFile => r.row.agreements[a].what = Agreement,
           Kept(r.row), r.op # "settings" => r.row.base = First.base, r.op # "upload",
           r.op = "remove" => r.of \notin DOMAIN r.row.agreements /\ r.row.initialized,
           r.op # "settings" /\ r.file # NoFile => r.file.what = Agreement,
           r.op = "settings" => r.file = NoFile
    PROVE  Follows(r)
<1>1. First \in Row /\ Named(First) /\ Served(First, unsaved)
  BY FirstIs DEF IInv
<1>2. Named(r.row) /\ Served(r.row, unsaved)
  BY <1>1, SameImages
<1>3. Saveable(r)
  BY <1>2 DEF Saveable
<1> QED BY <1>2, <1>3 DEF Follows

\* UpdateSettings: the body goes over the row that was read.
LEMMA UpdateSettingsStep ==
    ASSUME OneAtATime, IInv, BrandingIsKnown, InputsAreBodies, NEW w \in Workers, NEW in \in Inputs,
           UpdateSettings(w, in)
    PROVE  IInv'
<1> DEFINE b == Present(in.base, First.base)
           v == Present(in.version, First.version)
           th == IF in.themes = Absent THEN First.themes ELSE mergeThemeAssets(First.themes, in.themes)
           row == [First EXCEPT !.base = b, !.version = v, !.themes = th]
           r == [op |-> "settings", stage |-> "save", creating |-> rows = <<>>, row |-> row,
                 file |-> NoFile, of |-> in]
<1>1. First \in Row /\ Named(First) /\ Kept(First)
  BY FirstIs DEF IInv
<1>2. b \in Bases /\ v \in Versions
  <2>1. First.base \in Bases /\ First.version \in Versions
    BY <1>1 DEF Row
  <2> QED BY <2>1 DEF Present, Bases, Versions
<1>3. /\ th \in Themes
      /\ \A t \in DOMAIN th : th[t] = IF t \in DOMAIN First.themes THEN First.themes[t] ELSE NoFile
  <2>1. First.themes \in Themes
    BY <1>1 DEF Row
  <2>2. CASE in.themes = Absent
    BY <2>1, <2>2
  <2>3. CASE in.themes # Absent
    BY <2>1, <2>3, ThemesAre, InputsAreBodies DEF mergeThemeAssets
  <2> QED BY <2>2, <2>3
<1>4. Begin(w, "settings", "save", row, NoFile, in) /\ disk' = disk
  BY DEF UpdateSettings
<1> HIDE DEF b, v, th
<1>5. /\ row \in Row /\ row.logo = First.logo /\ row.favicon = First.favicon
      /\ row.themes = th /\ row.agreements = First.agreements /\ row.initialized = First.initialized
  BY <1>1, <1>2, <1>3 DEF Row
<1> HIDE DEF row
<1>6. /\ IsRequest(r) /\ r.row = row /\ r.op = "settings" /\ r.stage = "save" /\ r.file = NoFile
      /\ (r.creating <=> rows = <<>>)
  BY <1>5 DEF IsRequest, Requests
<1> HIDE DEF r
<1>7. Kept(row) /\ \A a \in DOMAIN row.agreements :
                     row.agreements[a] # NoFile => row.agreements[a].what = Agreement
  BY <1>1, <1>5 DEF Kept, Named
<1>8. Follows(r)
  BY <1>3, <1>5, <1>6, <1>7, CopyFits
<1>9. disk \subseteq disk' /\ disk' \subseteq File
  BY <1>4 DEF IInv, TypeOK
<1> QED BY <1>4, <1>6, <1>8, <1>9, BeginStep DEF r

\* The agreements of a copy, and who is about them.
LEMMA AgreementCopy ==
    ASSUME OneAtATime, IInv, BrandingIsKnown, NEW w \in Workers,
           NEW op \in {"agreements", "remove"}, NEW id \in Builtins \cup Ids,
           NEW agreements \in Agreements, NEW file \in File \cup {NoFile},
           file # NoFile => file.what = Agreement,
           \A a \in DOMAIN agreements :
              a \notin removed /\ (agreements[a] # NoFile => agreements[a].what = Agreement),
           op = "remove" => id \notin DOMAIN agreements,
           Begin(w, op, "save", [First EXCEPT !.agreements = agreements, !.initialized = TRUE],
                 file, id),
           disk \subseteq disk', disk' \subseteq File
    PROVE  IInv'
<1> DEFINE row == [First EXCEPT !.agreements = agreements, !.initialized = TRUE]
           r == [op |-> op, stage |-> "save", creating |-> rows = <<>>, row |-> row,
                 file |-> file, of |-> id]
<1>1. First \in Row
  BY FirstIs DEF IInv
<1>2. /\ row \in Row /\ row.logo = First.logo /\ row.favicon = First.favicon
      /\ row.themes = First.themes /\ row.agreements = agreements /\ row.initialized
      /\ row.base = First.base
  BY <1>1 DEF Row
<1>3. Begin(w, op, "save", row, file, id)
  OBVIOUS
<1> HIDE DEF row
<1>4. /\ IsRequest(r) /\ r.row = row /\ r.op = op /\ r.stage = "save" /\ r.file = file
      /\ r.of = id /\ (r.creating <=> rows = <<>>)
  BY <1>2 DEF IsRequest, Requests
<1> HIDE DEF r
<1>5. Kept(row)
  BY <1>2 DEF Kept
<1>6. Follows(r)
  BY <1>2, <1>4, <1>5, CopyFits
<1> QED BY <1>3, <1>4, <1>6, BeginStep DEF r

\* The handlers that edit the list of agreements.
LEMMA AgreementStep ==
    ASSUME OneAtATime, IInv, BrandingIsKnown, IdsAreFresh, NEW w \in Workers, EditAgreements(w)
    PROVE  IInv'
<1> DEFINE old == First.agreements
<1>1. /\ First \in Row /\ old \in Agreements /\ disk \subseteq File
      /\ \A a \in DOMAIN old : a \notin removed /\ (old[a] # NoFile => old[a].what = Agreement)
  BY FirstIs DEF IInv, TypeOK, Row, Kept, Named
<1>2. DOMAIN old \subseteq Builtins \cup Ids /\ old \in [DOMAIN old -> File \cup {NoFile}]
  BY <1>1, AgreementsAre
<1>3. ASSUME NEW id \in Ids, NEW file \in File \cup {NoFile}, file # NoFile => file.what = Agreement,
             id \notin DOMAIN old \cup removed,
             Begin(w, "agreements", "save",
                   [First EXCEPT !.agreements = With(old, id, file), !.initialized = TRUE], file, id),
             disk \subseteq disk', disk' \subseteq File
      PROVE  IInv'
  <2> DEFINE new == With(old, id, file)
  <2>1. /\ DOMAIN new = DOMAIN old \cup {id}
        /\ \A a \in DOMAIN new : new[a] = IF a = id THEN file ELSE old[a]
        /\ new \in [DOMAIN new -> File \cup {NoFile}]
    BY <1>2, <1>3 DEF With
  <2>2. new \in Agreements
    BY <1>2, <2>1, AgreementsAre
  <2>3. \A a \in DOMAIN new : a \notin removed /\ (new[a] # NoFile => new[a].what = Agreement)
    BY <1>1, <1>3, <2>1
  <2>4. Begin(w, "agreements", "save",
              [First EXCEPT !.agreements = new, !.initialized = TRUE], file, id)
    BY <1>3
  <2> HIDE DEF new
  <2> QED BY <1>3, <2>2, <2>3, <2>4, AgreementCopy
<1>4. ASSUME NEW id \in Ids, UploadAgreementFile(w, id) PROVE IInv'
  <2> DEFINE file == NameFor(Agreement)
  <2>1. file \in File /\ file.what = Agreement
    BY DEF NameFor, File, IInv, TypeOK
  <2>2. /\ id \notin DOMAIN old \cup removed /\ disk' = disk \cup {file}
        /\ Begin(w, "agreements", "save",
                 [First EXCEPT !.agreements = With(old, id, file), !.initialized = TRUE], file, id)
    BY <1>4 DEF UploadAgreementFile
  <2> HIDE DEF file
  <2>3. disk \subseteq disk' /\ disk' \subseteq File
    BY <1>1, <2>1, <2>2
  <2> QED BY <1>3, <2>1, <2>2, <2>3
<1>5. ASSUME NEW id \in Ids, AddAgreementURL(w, id) PROVE IInv'
  BY <1>1, <1>3, <1>5 DEF AddAgreementURL
<1>6. ASSUME NEW id \in Builtins \cup Ids, UpdateAgreement(w, id) PROVE IInv'
  <2>1. Begin(w, "agreements", "save",
              [First EXCEPT !.agreements = old, !.initialized = TRUE], NoFile, id) /\ disk' = disk
    BY <1>1, <1>6 DEF UpdateAgreement, Row
  <2> QED BY <1>1, <2>1, AgreementCopy
<1>7. ASSUME NEW id \in Builtins \cup Ids, DeleteAgreement(w, id) PROVE IInv'
  <2> DEFINE rest == [a \in DOMAIN old \ {id} |-> old[a]]
  <2>1. id \in DOMAIN old /\ disk' = disk
        /\ Begin(w, "remove", "save",
                 [First EXCEPT !.agreements = rest, !.initialized = TRUE], old[id], id)
    BY <1>7 DEF DeleteAgreement
  <2>2. rest \in Agreements
    BY <1>2, AgreementsAre
  <2>3. /\ \A a \in DOMAIN rest : a \notin removed /\ (rest[a] # NoFile => rest[a].what = Agreement)
        /\ id \notin DOMAIN rest
    BY <1>1
  <2>4. old[id] \in File \cup {NoFile} /\ (old[id] # NoFile => old[id].what = Agreement)
    BY <1>1, <1>2, <2>1
  <2> HIDE DEF rest
  <2> QED BY <1>1, <2>1, <2>2, <2>3, <2>4, AgreementCopy
<1> QED BY <1>4, <1>5, <1>6, <1>7 DEF EditAgreements

\* An upload begins: the file gets a name of its own.
LEMMA UploadStep ==
    ASSUME OneAtATime, IInv, BrandingIsKnown, NEW w \in Workers, Upload(w)
    PROVE  IInv'
<1>1. First \in Row /\ Named(First) /\ disk \subseteq File
  BY FirstIs DEF IInv, TypeOK
<1>2. PICK x \in Branding \cup ThemeNames :
           Begin(w, "upload", "write", First, NoFile, x) /\ disk' = disk /\ x \in Images(First)
  BY DEF Upload, UploadBranding, UploadThemeAsset, Images
<1> DEFINE r == [op |-> "upload", stage |-> "write", creating |-> rows = <<>>, row |-> First,
                 file |-> NoFile, of |-> x]
<1>3. /\ IsRequest(r) /\ r.row = First /\ r.op = "upload" /\ r.stage = "write" /\ r.of = x
      /\ (r.creating <=> rows = <<>>)
  BY <1>1 DEF IsRequest, Requests
<1> HIDE DEF r
<1>4. Follows(r)
  BY <1>1, <1>2, <1>3 DEF Follows
<1>5. disk \subseteq disk' /\ disk' \subseteq File
  BY <1>1, <1>2
<1> QED BY <1>2, <1>3, <1>4, <1>5, BeginStep DEF r

-----------------------------------------------------------------------------
(* It goes on                                                                *)

\* The request that goes on, and the row it has a copy of.
LEMMA RequestIs ==
    ASSUME IInv, NEW w \in Workers, NEW stage, At(w, stage)
    PROVE  LET r == reqs[w]
           IN  /\ IsRequest(r) /\ r.stage = stage /\ r # Idle /\ up /\ Follows(r)
               /\ r.row \in Row /\ r.file \in File \cup {NoFile}
               /\ First \in Row /\ Named(First) /\ Kept(First) /\ Served(First, unsaved)
               /\ disk \subseteq File /\ second \in Seconds
               /\ removed \subseteq Builtins \cup Ids /\ unsaved \subseteq Branding \cup ThemeNames
               /\ rows \in Seq(Row) /\ Len(rows) <= MaxRows /\ up \in BOOLEAN
               /\ cfg \in [base : Bases, version : Versions]
<1>1. reqs[w] # Idle /\ reqs[w].stage = stage /\ TypeOK
  BY DEF At, IInv
<1>2. IsRequest(reqs[w]) /\ up /\ Follows(reqs[w])
  BY <1>1 DEF IInv, TypeOK
<1>3. reqs[w].row \in Row /\ reqs[w].file \in File \cup {NoFile}
  BY <1>2 DEF IsRequest, Requests
<1> QED BY <1>1, <1>2, <1>3, FirstIs DEF IInv, TypeOK

\* The stored file of an upload goes: it was for nothing else the row names.
LEMMA OthersStay ==
    ASSUME BrandingIsKnown, NEW row \in Row, Named(row), NEW x, NEW without, NEW gone,
           Served(row, without), gone = NoFile \/ gone.what = x
    PROVE  \A y \in Images(row) \ (without \cup {x}) :
             FileFor(row, y) # NoFile => FileFor(row, y) \in disk \ {gone}
BY DEF Named, Served

\* One image of a row is replaced, and nothing else of it.
LEMMA ReplacedIs ==
    ASSUME BrandingIsKnown, NEW row \in Row, NEW x \in Images(row), NEW file \in File
    PROVE  LET copy == Replaced(row, x, file)
           IN  /\ copy \in Row /\ copy.base = row.base /\ copy.agreements = row.agreements
               /\ copy.initialized = row.initialized /\ DOMAIN copy.themes = DOMAIN row.themes
               /\ FileFor(copy, x) = file
               /\ \A y \in Images(row) \ {x} : FileFor(copy, y) = FileFor(row, y)
<1> DEFINE copy == Replaced(row, x, file)
<1>1. \A y \in Images(row) : y \in {"logo", "favicon"} \cup DOMAIN row.themes
  BY ImagesAre
<1>2. CASE x = "logo"
  <2>1. copy = [row EXCEPT !.logo = file]
    BY <1>2 DEF Replaced
  <2> HIDE DEF copy
  <2>2. /\ copy \in Row /\ copy.base = row.base /\ copy.agreements = row.agreements
        /\ copy.initialized = row.initialized /\ copy.themes = row.themes
        /\ copy.logo = file /\ copy.favicon = row.favicon
    BY <2>1 DEF Row
  <2>3. FileFor(copy, x) = file
    BY <1>2, <2>2, ImagesAre
  <2>4. \A y \in Images(row) \ {x} : FileFor(copy, y) = FileFor(row, y)
    BY <1>1, <1>2, <2>2, ImagesAre
  <2> QED BY <2>2, <2>3, <2>4 DEF copy
<1>3. CASE x = "favicon"
  <2>1. copy = [row EXCEPT !.favicon = file]
    BY <1>3 DEF Replaced
  <2> HIDE DEF copy
  <2>2. /\ copy \in Row /\ copy.base = row.base /\ copy.agreements = row.agreements
        /\ copy.initialized = row.initialized /\ copy.themes = row.themes
        /\ copy.favicon = file /\ copy.logo = row.logo
    BY <2>1 DEF Row
  <2>3. FileFor(copy, x) = file
    BY <1>3, <2>2, ImagesAre
  <2>4. \A y \in Images(row) \ {x} : FileFor(copy, y) = FileFor(row, y)
    BY <1>1, <1>3, <2>2, ImagesAre
  <2> QED BY <2>2, <2>3, <2>4 DEF copy
<1>4. CASE x \in DOMAIN row.themes
  <2> DEFINE themes == [row.themes EXCEPT ![x] = file]
  <2>1. x \in ThemeNames /\ x # "logo" /\ x # "favicon"
    BY <1>4, ImagesAre, BrandingIsKnown
  <2>2. copy = [row EXCEPT !.themes = themes]
    BY <2>1 DEF Replaced
  <2>3. /\ themes \in Themes /\ DOMAIN themes = DOMAIN row.themes /\ themes[x] = file
        /\ \A y \in DOMAIN row.themes \ {x} : themes[y] = row.themes[y]
    BY <1>4, ImagesAre, ThemesAre
  <2> HIDE DEF copy, themes
  <2>4. /\ copy \in Row /\ copy.base = row.base /\ copy.agreements = row.agreements
        /\ copy.initialized = row.initialized /\ copy.themes = themes
        /\ copy.favicon = row.favicon /\ copy.logo = row.logo
    BY <2>2, <2>3 DEF Row
  <2>5. FileFor(copy, x) = file
    BY <1>4, <2>3, <2>4, ImagesAre
  <2>6. \A y \in Images(row) \ {x} : FileFor(copy, y) = FileFor(row, y)
    BY <1>1, <2>1, <2>3, <2>4, ImagesAre
  <2> QED BY <2>3, <2>4, <2>5, <2>6 DEF copy
<1> QED BY <1>1, <1>2, <1>3, <1>4

\* The old file goes and the new one is written, or not.
LEMMA ReplaceFileStep ==
    ASSUME OneAtATime, IInv, BrandingIsKnown, NEW w \in Workers, ReplaceFile(w) \/ WriteFails(w)
    PROVE  IInv'
<1> DEFINE r == reqs[w]
           x == r.of
           old == FileFor(First, x)
<1>1. /\ IsRequest(r) /\ r.stage = "write" /\ r # Idle /\ up /\ Follows(r) /\ r.row = First
      /\ First \in Row /\ Named(First) /\ Kept(First) /\ Served(First, unsaved)
      /\ disk \subseteq File /\ second \in Seconds
      /\ removed \subseteq Builtins \cup Ids /\ unsaved \subseteq Branding \cup ThemeNames
      /\ rows \in Seq(Row) /\ Len(rows) <= MaxRows
      /\ cfg \in [base : Bases, version : Versions]
  BY RequestIs DEF ReplaceFile, WriteFails, Follows
<1>2. /\ r \in Requests("upload", {"write", "save"}, Branding \cup ThemeNames)
      /\ r.op = "upload" /\ x \in Branding \cup ThemeNames /\ x \in Images(First)
  BY <1>1 DEF IsRequest, Requests, Follows
<1>3. old = NoFile \/ old.what = x
  BY <1>1, <1>2 DEF Named
<1>4. \A y \in Images(First) \ (unsaved \cup {x}) :
         FileFor(First, y) # NoFile => FileFor(First, y) \in disk \ {old}
  BY <1>1, <1>3, OthersStay
<1>5. UNCHANGED <<rows, cfg, up, second, removed>> /\ unsaved' = unsaved \cup {x} /\ First' = First
      /\ (First.base # Blank => cfg.base = First.base)
  <2>1. UNCHANGED <<rows, cfg, up, second, removed>> /\ unsaved' = unsaved \cup {x}
    BY DEF ReplaceFile, WriteFails
  <2>2. First.base # Blank => cfg.base = First.base
    BY <1>1 DEF OneAtATime, IInv, StoredConnectionInForce, At
  <2> QED BY <2>1, <2>2 DEF First
<1>6. /\ Named(First') /\ Kept(First)' /\ up' \in BOOLEAN /\ second' \in Seconds
      /\ rows' \in Seq(Row) /\ Len(rows') <= MaxRows /\ cfg' \in [base : Bases, version : Versions]
      /\ removed' \subseteq Builtins \cup Ids /\ unsaved' \subseteq Branding \cup ThemeNames
      /\ (up' /\ First'.base # Blank => cfg'.base = First'.base)
  BY <1>1, <1>2, <1>5 DEF Kept, IInv, TypeOK
<1>7. CASE WriteFails(w)
  <2>1. disk' = disk \ {old} /\ Goto(w, Idle)
    BY <1>1, <1>7 DEF WriteFails
  <2>2. Served(First, unsaved)' /\ disk' \subseteq File
    BY <1>1, <1>4, <1>5, <2>1 DEF Served
  <2> QED BY <1>6, <2>1, <2>2, Alone
<1>8. CASE ReplaceFile(w)
  <2>1. PICK use, file : use = x /\ file = NameFor(x)
    OBVIOUS
  <2>2. file \in File /\ file.what = use /\ file # NoFile
    BY <1>1, <1>2, <2>1, NoFileIsNone DEF NameFor, File
  <2>3. PICK row : /\ row = Replaced(First, use, file)
                   /\ row \in Row /\ row.base = First.base /\ row.agreements = First.agreements
                   /\ row.initialized = First.initialized /\ DOMAIN row.themes = DOMAIN First.themes
                   /\ FileFor(row, use) = file
                   /\ \A y \in Images(First) \ {use} : FileFor(row, y) = FileFor(First, y)
    BY <1>1, <1>2, <2>1, <2>2, ReplacedIs
  <2>4. PICK q : q = [r EXCEPT !.row = row, !.file = file, !.stage = "save"]
    OBVIOUS
  <2>5. disk' = (disk \ {old}) \cup {file} /\ Goto(w, q)
    BY <1>1, <1>8, <2>1, <2>3, <2>4 DEF ReplaceFile
  <2>6. Served(First, unsaved)' /\ disk' \subseteq File
    BY <1>1, <1>4, <1>5, <2>2, <2>5 DEF Served
  <2>7. Images(row) = Images(First)
    BY <2>3 DEF Images
  <2>8. /\ IsRequest(q) /\ q.row = row /\ q.file = file /\ q.stage = "save" /\ q.of = use
        /\ q.op = "upload" /\ (q.creating <=> rows = <<>>)
    BY <1>1, <1>2, <2>1, <2>2, <2>3, <2>4 DEF IsRequest, Requests, Follows
  <2>9. Named(row)
    BY <1>1, <2>2, <2>3, <2>7 DEF Named
  <2>10. Served(row, unsaved \ {use})'
    BY <1>4, <1>5, <2>1, <2>3, <2>5, <2>7 DEF Served
  <2>11. \A t \in DOMAIN row.themes \cap DOMAIN First.themes :
            First.themes[t] # NoFile => row.themes[t] # NoFile
    <3> SUFFICES ASSUME NEW t \in DOMAIN First.themes, First.themes[t] # NoFile
                 PROVE  row.themes[t] # NoFile
      OBVIOUS
    <3>1. FileFor(row, t) = row.themes[t] /\ FileFor(First, t) = First.themes[t] /\ t \in Images(First)
      BY <1>1, <2>3, ImagesAre DEF Images
    <3> QED BY <2>2, <2>3, <3>1
  <2>12. Saveable(q)'
    <3>1. use \in unsaved' /\ Kept(row)'
      BY <1>1, <1>5, <2>1, <2>3 DEF Kept
    <3> QED BY <1>5, <2>2, <2>3, <2>8, <2>10, <2>11, <3>1 DEF Saveable
  <2>13. Follows(q)'
    BY <1>2, <1>5, <2>1, <2>7, <2>8, <2>9, <2>12 DEF Follows
  <2>14. up'
    BY <1>1, <1>5
  <2> QED BY <1>6, <2>5, <2>6, <2>8, <2>13, <2>14, Alone
<1> QED BY <1>7, <1>8

\* What is saved becomes the row.
LEMMA SavedRow ==
    ASSUME IInv, OneAtATime, NEW w \in Workers, Save(w)
    PROVE  /\ rows' \in Seq(Row) /\ Len(rows') <= MaxRows /\ rows' # <<>>
           /\ First' = reqs[w].row /\ rows'[1] = reqs[w].row /\ Saveable(reqs[w])
<1>1. /\ reqs[w].stage = "save" /\ Follows(reqs[w]) /\ reqs[w].row \in Row
      /\ rows \in Seq(Row) /\ Len(rows) <= MaxRows
  BY RequestIs DEF Save
<1>2. Saveable(reqs[w]) /\ (reqs[w].creating <=> rows = <<>>)
  BY <1>1 DEF Follows
<1>3. CASE rows = <<>>
  <2>1. rows' = Append(rows, reqs[w].row)
    BY <1>2, <1>3 DEF Save
  <2>2. rows' \in Seq(Row) /\ Len(rows') = 1 /\ rows'[1] = reqs[w].row /\ rows' # <<>>
    BY <1>1, <1>3, <2>1
  <2> QED BY <1>2, <2>2, BoundsAreNat DEF First
<1>4. CASE rows # <<>>
  <2>1. rows' = [rows EXCEPT ![1] = reqs[w].row]
    BY <1>2, <1>4 DEF Save
  <2>2. 1 \in DOMAIN rows
    BY <1>1, <1>4
  <2>3. rows' \in Seq(Row) /\ Len(rows') = Len(rows) /\ rows'[1] = reqs[w].row /\ rows' # <<>>
    BY <1>1, <2>1, <2>2
  <2> QED BY <1>1, <1>2, <2>3 DEF First
<1> QED BY <1>3, <1>4

\* The row is saved, and the configuration follows it, or the save fails.
LEMMA SaveStep ==
    ASSUME OneAtATime, IInv, NEW w \in Workers, Save(w)
    PROVE  IInv'
<1>1. /\ IsRequest(reqs[w]) /\ reqs[w].stage = "save" /\ reqs[w] # Idle /\ up /\ Follows(reqs[w])
      /\ disk \subseteq File /\ second \in Seconds
      /\ removed \subseteq Builtins \cup Ids /\ unsaved \subseteq Branding \cup ThemeNames
      /\ cfg \in [base : Bases, version : Versions]
  BY RequestIs DEF Save
<1>2. PICK r : r = reqs[w]
  OBVIOUS
<1>3. /\ rows' \in Seq(Row) /\ Len(rows') <= MaxRows /\ First' = r.row /\ Saveable(r)
  BY <1>2, SavedRow
<1>4. /\ UNCHANGED <<cfg, up, disk, second>>
      /\ removed' = IF r.op = "remove" THEN removed \cup {r.of} ELSE removed
      /\ unsaved' = IF r.op = "upload" THEN unsaved \ {r.of} ELSE unsaved
      /\ Goto(w, IF r.op = "settings" THEN [r EXCEPT !.stage = "overlay"]
                 ELSE IF r.op = "remove" /\ r.file # NoFile
                 THEN [r EXCEPT !.stage = "cleanup"] ELSE Idle)
  BY <1>2 DEF Save
<1>5. Named(First') /\ Kept(First)' /\ Served(First, unsaved)'
  <2>1. Named(r.row)
    BY <1>1, <1>2 DEF Follows
  <2>2. Kept(r.row)'
    BY <1>3, <1>4 DEF Saveable, Kept
  <2>3. Served(r.row, unsaved)'
    BY <1>3, <1>4 DEF Saveable, Served
  <2> QED BY <1>3, <2>1, <2>2, <2>3
<1>6. removed' \subseteq Builtins \cup Ids /\ unsaved' \subseteq Branding \cup ThemeNames
      /\ cfg' \in [base : Bases, version : Versions] /\ up' \in BOOLEAN /\ up'
      /\ disk' \subseteq File /\ second' \in Seconds
  BY <1>1, <1>2, <1>4 DEF IsRequest, Requests
<1>7. r.op # "settings" /\ First'.base # Blank => cfg'.base = First'.base
  <2>1. First.base # Blank => cfg.base = First.base
    BY <1>1 DEF OneAtATime, IInv, StoredConnectionInForce, At
  <2> QED BY <1>3, <1>4, <2>1 DEF Saveable
<1>8. CASE r.op = "settings"
  <2>1. PICK q : q = [r EXCEPT !.stage = "overlay"]
    OBVIOUS
  <2>2. r \in Requests("settings", {"save", "overlay"}, Inputs)
    BY <1>1, <1>2, <1>8 DEF IsRequest, Requests
  <2>3. /\ IsRequest(q) /\ q.stage = "overlay" /\ q.row = r.row /\ q.op = r.op /\ q.file = r.file
        /\ q.of = r.of
    BY <2>1, <2>2 DEF IsRequest, Requests
  <2>4. Follows(q)'
    BY <1>1, <1>2, <1>3, <1>8, <2>3 DEF Follows
  <2>5. Goto(w, q) /\ q # Idle
    BY <1>4, <1>8, <2>1, <2>3 DEF Idle
  <2> QED BY <1>3, <1>5, <1>6, <2>3, <2>4, <2>5, Alone
<1>9. CASE r.op = "remove" /\ r.file # NoFile
  <2>1. PICK q : q = [r EXCEPT !.stage = "cleanup"]
    OBVIOUS
  <2>2. r \in Requests("remove", {"save", "cleanup"}, Builtins \cup Ids)
    BY <1>1, <1>2, <1>9 DEF IsRequest, Requests
  <2>3. /\ IsRequest(q) /\ q.stage = "cleanup" /\ q.row = r.row /\ q.op = r.op /\ q.file = r.file
        /\ q.of = r.of
    BY <2>1, <2>2 DEF IsRequest, Requests
  <2>4. Follows(q)'
    BY <1>1, <1>2, <1>3, <1>9, <2>3 DEF Follows
  <2>5. Goto(w, q)
    BY <1>4, <1>9, <2>1
  <2> QED BY <1>3, <1>5, <1>6, <1>7, <1>9, <2>3, <2>4, <2>5, Alone
<1>10. CASE r.op # "settings" /\ ~(r.op = "remove" /\ r.file # NoFile)
  <2>1. Goto(w, Idle)
    BY <1>4, <1>10
  <2> QED BY <1>3, <1>5, <1>6, <1>7, <1>10, <2>1, Alone
<1> QED BY <1>8, <1>9, <1>10

\* What takes a file away, and leaves the row as it is.
LEMMA DroppedStep ==
    ASSUME OneAtATime, IInv, BrandingIsKnown, NEW w \in Workers, SaveFails(w) \/ RemoveDocument(w)
    PROVE  IInv'
<1> DEFINE r == reqs[w]
<1>1. /\ IsRequest(r) /\ r.stage \in {"save", "cleanup"} /\ r # Idle /\ up /\ Follows(r)
      /\ First \in Row /\ Named(First) /\ Kept(First) /\ Served(First, unsaved)
      /\ disk \subseteq File
  BY RequestIs DEF SaveFails, RemoveDocument
<1>2. UNCHANGED <<rows, cfg, up, second, removed, unsaved>> /\ Goto(w, Idle)
      /\ disk' \in {disk, disk \ {r.file}}
  BY DEF SaveFails, RemoveDocument
<1>3. r.file = NoFile \/ r.file.what = Agreement \/ (r.op = "upload" /\ r.file.what \in unsaved)
  <2>1. CASE r.op # "upload"
    BY <1>1, <2>1 DEF Follows
  <2>2. CASE r.op = "upload"
    <3>1. r.stage = "save"
      BY <1>1, <2>2 DEF IsRequest, Requests
    <3> QED BY <1>1, <2>2, <3>1 DEF Follows, Saveable
  <2> QED BY <2>1, <2>2
<1>4. Agreement \notin Images(First)
  BY <1>1, ImagesAre, BrandingIsKnown DEF Agreement, Images
<1>5. \A x \in Images(First) \ unsaved :
         FileFor(First, x) # NoFile => FileFor(First, x) \in disk \ {r.file}
  BY <1>1, <1>3, <1>4 DEF Named, Served
<1>6. First' = First
  BY <1>2 DEF First
<1>7. Served(First, unsaved)' /\ disk' \subseteq File
  BY <1>1, <1>2, <1>5, <1>6 DEF Served
<1>8. /\ Named(First') /\ Kept(First)' /\ up' \in BOOLEAN /\ second' \in Seconds
      /\ rows' \in Seq(Row) /\ Len(rows') <= MaxRows /\ cfg' \in [base : Bases, version : Versions]
      /\ removed' \subseteq Builtins \cup Ids /\ unsaved' \subseteq Branding \cup ThemeNames
  BY <1>1, <1>2, <1>6 DEF Kept, IInv, TypeOK
<1>9. First'.base # Blank => cfg'.base = First'.base
  BY <1>1, <1>2, <1>6 DEF OneAtATime, IInv, StoredConnectionInForce, At
<1> QED BY <1>2, <1>7, <1>8, <1>9, Alone

\* The connection of the row that was saved comes into force.
LEMMA OverlayStep ==
    ASSUME OneAtATime, IInv, NEW w \in Workers, ApplyOverlay(w)
    PROVE  IInv'
<1>1. /\ reqs[w].stage = "overlay" /\ up /\ Follows(reqs[w]) /\ First \in Row
      /\ Named(First) /\ Kept(First) /\ Served(First, unsaved)
      /\ cfg \in [base : Bases, version : Versions]
  BY RequestIs DEF ApplyOverlay
<1>2. reqs[w].row = First
  BY <1>1 DEF Follows
<1>3. UNCHANGED <<rows, up, disk, second, removed, unsaved>> /\ cfg' = Overlay(cfg, First)
      /\ Goto(w, Idle)
  BY <1>2 DEF ApplyOverlay
<1>4. First' = First /\ Named(First') /\ Kept(First)' /\ Served(First, unsaved)'
  BY <1>1, <1>3 DEF First, Kept, Served
<1>5. First.base \in Bases /\ First.version \in Versions
  BY <1>1 DEF Row
<1>6. cfg' \in [base : Bases, version : Versions] /\ (First.base # Blank => cfg'.base = First.base)
  BY <1>1, <1>3, <1>5 DEF Overlay
<1>7. /\ up' \in BOOLEAN /\ second' \in Seconds /\ disk' \subseteq File
      /\ rows' \in Seq(Row) /\ Len(rows') <= MaxRows
      /\ removed' \subseteq Builtins \cup Ids /\ unsaved' \subseteq Branding \cup ThemeNames
  BY <1>3 DEF IInv, TypeOK
<1> QED BY <1>3, <1>4, <1>6, <1>7, Alone

-----------------------------------------------------------------------------
(* The server starts and stops, and time passes                              *)

\* The bundled agreements join a row that has never been edited.
LEMMA SeededIs ==
    ASSUME NEW row \in Row, Named(row), Kept(row), Served(row, unsaved), ~row.initialized,
           BrandingIsKnown
    PROVE  LET seeded == Seeded(row)
           IN  /\ seeded \in Row /\ Named(seeded) /\ Kept(seeded) /\ Served(seeded, unsaved)
               /\ seeded.base = row.base /\ seeded.themes = row.themes
<1> DEFINE new == BundledBeside(row.agreements)
           seeded == [row EXCEPT !.agreements = new, !.initialized = TRUE]
<1>1. row.agreements \in Agreements
  BY DEF Row
<1>2. /\ DOMAIN new = Builtins \cup DOMAIN row.agreements
      /\ \A a \in DOMAIN new : new[a] = IF a \in DOMAIN row.agreements THEN row.agreements[a] ELSE NoFile
  BY DEF BundledBeside
<1>3. /\ DOMAIN row.agreements \subseteq Builtins \cup Ids
      /\ row.agreements \in [DOMAIN row.agreements -> File \cup {NoFile}]
  BY <1>1, AgreementsAre
<1>4. new \in Agreements
  <2>1. DOMAIN new \subseteq Builtins \cup Ids /\ \A a \in DOMAIN new : new[a] \in File \cup {NoFile}
    BY <1>2, <1>3
  <2>2. new \in [DOMAIN new -> File \cup {NoFile}]
    BY <2>1 DEF BundledBeside
  <2> QED BY <2>1, <2>2, AgreementsAre
<1>5. Seeded(row) = seeded
  BY DEF Seeded
<1> HIDE DEF new
<1>6. /\ seeded \in Row /\ seeded.base = row.base /\ seeded.themes = row.themes
      /\ seeded.logo = row.logo /\ seeded.favicon = row.favicon /\ seeded.agreements = new
      /\ seeded.initialized
  BY <1>4 DEF Row
<1> HIDE DEF seeded
<1>7. \A a \in DOMAIN new : new[a] # NoFile => new[a].what = Agreement
  BY <1>2 DEF Named
<1>8. Named(seeded) /\ Served(seeded, unsaved)
  BY <1>6, <1>7, SameImages
<1>9. Kept(seeded)
  BY <1>6 DEF Kept
<1> QED BY <1>5, <1>6, <1>8, <1>9

\* The row after a start.
LEMMA StartedRow ==
    ASSUME IInv, BrandingIsKnown, Start
    PROVE  /\ rows' \in Seq(Row) /\ Len(rows') <= MaxRows
           /\ First'.base = First.base /\ First'.themes = First.themes
           /\ Named(First') /\ Kept(First)' /\ Served(First, unsaved)'
<1>1. /\ First \in Row /\ Named(First) /\ Kept(First) /\ Served(First, unsaved)
      /\ rows \in Seq(Row) /\ Len(rows) <= MaxRows /\ UNCHANGED <<disk, removed, unsaved>>
  BY FirstIs DEF IInv, TypeOK, Start
<1>2. CASE rows' = rows
  <2>1. First' = First
    BY <1>2 DEF First
  <2> QED BY <1>1, <1>2, <2>1 DEF Kept, Served
<1>3. CASE rows' # rows
  <2>1. rows' = SeedBuiltinAgreements /\ ~First.initialized
    BY <1>3 DEF Start, SeedBuiltinAgreements, First, BlankRow
  <2>2. PICK new : new = Seeded(First)
    OBVIOUS
  <2>3. /\ new \in Row /\ Named(new) /\ Kept(new) /\ Served(new, unsaved)
        /\ new.base = First.base /\ new.themes = First.themes
    BY <1>1, <2>1, <2>2, SeededIs
  <2>4. rows' \in Seq(Row) /\ Len(rows') <= MaxRows /\ rows' # <<>> /\ rows'[1] = new
    <3>1. CASE rows = <<>>
      <4>1. rows' = <<new>>
        BY <2>1, <2>2, <3>1 DEF SeedBuiltinAgreements, First
      <4> QED BY <2>3, <4>1, BoundsAreNat
    <3>2. CASE rows # <<>>
      <4>1. rows' = [rows EXCEPT ![1] = new] /\ 1 \in DOMAIN rows
        BY <1>1, <2>1, <2>2, <3>2 DEF SeedBuiltinAgreements, First
      <4> QED BY <1>1, <2>3, <4>1
    <3> QED BY <3>1, <3>2
  <2>5. First' = new
    BY <2>4 DEF First
  <2> QED BY <1>1, <2>3, <2>4, <2>5 DEF Kept, Served
<1> QED BY <1>2, <1>3

\* A start seeds the agreements and overlays the stored connection.
LEMMA StartStep ==
    ASSUME IInv, BrandingIsKnown, InputsAreBodies, Start
    PROVE  IInv'
<1>1. ~up /\ up' /\ UNCHANGED <<reqs, disk, second, removed, unsaved>>
  BY DEF Start
<1>2. \A w \in Workers : reqs[w] = Idle
  BY <1>1 DEF IInv
<1>3. First \in Row
  BY FirstIs DEF IInv
<1> DEFINE c == Overlay(EnvConfig, First)
<1>4. c \in [base : Bases, version : Versions] /\ (First.base # Blank => c.base = First.base)
  <2>1. First.base \in Bases /\ First.version \in Versions
    BY <1>3 DEF Row
  <2>2. EnvConfig.base \in Bases /\ EnvConfig.version \in Versions
    BY DEF Bases, Versions
  <2> QED BY <2>1, <2>2 DEF Overlay
<1>5. PICK v \in DetectFrameworkVersion(c.base) :
           cfg' = [c EXCEPT !.version = IF v = Blank THEN c.version ELSE v]
  BY DEF Start
<1>6. v \in Versions
  BY <1>5 DEF DetectFrameworkVersion, Versions
<1> HIDE DEF c
<1>7. cfg' \in [base : Bases, version : Versions] /\ cfg'.base = c.base
  BY <1>4, <1>5, <1>6
<1>8. TypeOK'
  BY <1>1, <1>7, StartedRow DEF IInv, TypeOK
<1>9. StoredConnectionInForce'
  BY <1>4, <1>7, StartedRow DEF StoredConnectionInForce
<1>10. \A w \in Workers : reqs'[w] = Idle
  BY <1>1, <1>2
<1> QED BY <1>8, <1>9, <1>10, StartedRow DEF IInv, Named, First, FileFor, Images

\* A stop drops what is under way and keeps the row and the files.
LEMMA StopStep == ASSUME IInv, Stop PROVE IInv'
<1>1. TypeOK'
  BY DEF IInv, TypeOK, Stop
<1>2. First' = First /\ ~up'
  BY DEF Stop, First
<1>3. Named(First') /\ Kept(First)' /\ Served(First, unsaved)' /\ StoredConnectionInForce'
  BY <1>2 DEF IInv, Stop, Kept, Served, StoredConnectionInForce
<1>4. \A w \in Workers : reqs'[w] = Idle
  BY DEF Stop
<1> QED BY <1>1, <1>3, <1>4 DEF IInv, Named, First, FileFor, Images

\* Time passes, or nothing does.
LEMMA TimeStep == ASSUME IInv, SecondPasses \/ UNCHANGED vars PROVE IInv'
<1>1. UNCHANGED <<rows, cfg, up, reqs, disk, removed, unsaved>> /\ second' \in Seconds
  BY BoundsAreNat DEF IInv, TypeOK, SecondPasses, vars, Seconds
<1>2. TypeOK' /\ StoredConnectionInForce'
  BY <1>1 DEF IInv, TypeOK, StoredConnectionInForce, First, At
<1>3. \A r : Follows(r) => Follows(r)'
  BY <1>1 DEF Follows, Saveable, Kept, Served, First
<1>4. First' = First /\ Named(First') /\ Kept(First)' /\ Served(First, unsaved)'
  BY <1>1 DEF IInv, First, Kept, Served
<1>5. ASSUME NEW w \in Workers, reqs'[w] # Idle PROVE up' /\ Follows(reqs[w])'
  <2>1. PICK r : r = reqs[w]
    OBVIOUS
  <2>2. up /\ Follows(r) /\ reqs'[w] = r
    BY <1>1, <1>5, <2>1 DEF IInv
  <2>3. Follows(r)' /\ up'
    BY <1>1, <1>3, <2>2
  <2> QED BY <2>2, <2>3
<1> QED BY <1>1, <1>2, <1>4, <1>5 DEF IInv, Named, First, FileFor, Images

-----------------------------------------------------------------------------
(* The invariant and what follows from it                                    *)

LEMMA InitIInv == Init => IInv
<1> SUFFICES ASSUME Init PROVE IInv
  OBVIOUS
<1>1. First = BlankRow /\ rows \in Seq(Row) /\ Len(rows) <= MaxRows
  <2>1. CASE rows = <<>>
    BY <2>1, BoundsAreNat DEF First
  <2>2. CASE rows = <<BlankRow>>
    BY <2>2, BlankRowIs, BoundsAreNat DEF First
  <2> QED BY <2>1, <2>2 DEF Init
<1>2. cfg \in [base : Bases, version : Versions] /\ second \in Seconds
  BY InputsAreBodies, BoundsAreNat DEF Init, Bases, Versions, Seconds
<1>3. TypeOK
  BY <1>1, <1>2 DEF Init, TypeOK
<1>4. \A x \in Images(BlankRow) : FileFor(BlankRow, x) = NoFile
  BY BlankRowIs, ImagesAre, BrandingIsKnown DEF BlankRow
<1>5. Named(First) /\ Kept(First) /\ Served(First, unsaved)
  BY <1>1, <1>4, BlankRowIs DEF Init, Named, Kept, Served
<1> QED BY <1>3, <1>5 DEF Init, IInv, StoredConnectionInForce

\* Every step keeps it, as long as requests do not overlap.
LEMMA IInvStep == ASSUME OneAtATime, IInv, [Next]_vars PROVE IInv'
<1>1. ASSUME NEW w \in Workers, NEW in \in Inputs, UpdateSettings(w, in) PROVE IInv'
  BY <1>1, UpdateSettingsStep, BrandingIsKnown, InputsAreBodies
<1>2. ASSUME NEW w \in Workers, EditAgreements(w) PROVE IInv'
  BY <1>2, AgreementStep, BrandingIsKnown, IdsAreFresh
<1>3. ASSUME NEW w \in Workers, Upload(w) PROVE IInv'
  BY <1>3, UploadStep, BrandingIsKnown
<1>4. ASSUME NEW w \in Workers, Proceed(w) PROVE IInv'
  BY <1>4, ReplaceFileStep, SaveStep, DroppedStep, OverlayStep, BrandingIsKnown DEF Proceed
<1> QED
  BY <1>1, <1>2, <1>3, <1>4, StartStep, StopStep, TimeStep, BrandingIsKnown, InputsAreBodies DEF Next

\* Only a save and a start change the row, and both keep the images of its themes.
LEMMA ThemesStep ==
    ASSUME OneAtATime, IInv, [Next]_vars, NEW t \in ThemeNames,
           rows # <<>>, t \in DOMAIN rows[1].themes, t \in DOMAIN rows'[1].themes,
           rows[1].themes[t] # NoFile
    PROVE  rows'[1].themes[t] # NoFile
<1>1. First = rows[1]
  BY DEF First
<1>2. ASSUME NEW w \in Workers, Save(w) PROVE rows'[1].themes[t] # NoFile
  <2>1. rows'[1] = reqs[w].row /\ Saveable(reqs[w])
    BY <1>2, SavedRow
  <2> QED BY <1>1, <2>1 DEF Saveable
<1>3. CASE Start
  <2>1. rows' # <<>>
    BY <1>3 DEF Start, SeedBuiltinAgreements, IInv, TypeOK
  <2>2. First' = rows'[1]
    BY <2>1 DEF First
  <2> QED BY <1>1, <1>3, <2>2, StartedRow, BrandingIsKnown
<1>4. CASE rows' = rows
  BY <1>4
<1>5. Start \/ rows' = rows \/ \E w \in Workers : Save(w)
  BY DEF Next, vars, UpdateSettings, EditAgreements, UploadAgreementFile, AddAgreementURL,
         UpdateAgreement, DeleteAgreement, Upload, UploadBranding, UploadThemeAsset, Begin, Proceed,
         ReplaceFile, WriteFails, SaveFails, ApplyOverlay, RemoveDocument, Stop, SecondPasses
<1> QED BY <1>2, <1>3, <1>4, <1>5

\* One request at a time, the server talks to the registry the stored row names,
\* unless that row is just being saved: whatever was saved, failed or restarted.
THEOREM ConnectionInForce == ASSUME OneAtATime PROVE Spec => []StoredConnectionInForce
<1>1. IInv /\ [Next]_vars => IInv'
  BY IInvStep
<1>2. IInv => StoredConnectionInForce
  BY DEF IInv
<1> QED BY <1>1, <1>2, InitIInv, PTL DEF Spec

\* One request at a time, an agreement that was removed stays removed, over any number
\* of edits, failures and starts.
THEOREM RemovedForGood == ASSUME OneAtATime PROVE Spec => []RemovedStaysRemoved
<1>1. IInv /\ [Next]_vars => IInv'
  BY IInvStep
<1>2. IInv => RemovedStaysRemoved
  BY DEF IInv, Kept, First, RemovedStaysRemoved
<1> QED BY <1>1, <1>2, InitIInv, PTL DEF Spec

\* One request at a time, the images the row names are there, unless the last upload for
\* them did not finish; and rows, requests and files keep their shape.
THEOREM ImagesServed == ASSUME OneAtATime PROVE Spec => []ImagesAreThere
<1>1. IInv /\ [Next]_vars => IInv'
  BY IInvStep
<1>2. IInv => ImagesAreThere
  BY DEF IInv, Served, Images, ImagesAreThere, StoredImagesExist
<1> QED BY <1>1, <1>2, InitIInv, PTL DEF Spec

\* One request at a time, a theme that stays in the library keeps naming an image.
THEOREM ThemeImagesStay == ASSUME OneAtATime PROVE Spec => ThemesKeepTheirImages
<1>1. IInv /\ [Next]_vars => IInv'
  BY IInvStep
<1>2. IInv /\ [Next]_vars =>
        [\A t \in ThemeNames :
           (/\ rows # <<>> /\ t \in DOMAIN rows[1].themes
            /\ t \in DOMAIN rows'[1].themes /\ rows[1].themes[t] # NoFile)
              => rows'[1].themes[t] # NoFile]_vars
  BY ThemesStep
<1> QED BY <1>1, <1>2, InitIInv, PTL DEF Spec, ThemesKeepTheirImages
=============================================================================
