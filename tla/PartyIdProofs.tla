--------------------------- MODULE PartyIdProofs ---------------------------
(* Lemmas about the identifier functions of PartyIds: what they return, that *)
(* a completed proposal's DID completes to itself on version 3; and what     *)
(* PartyIdEntry states of any identifier beside any certificate.             *)
EXTENDS PartyIdEntry, TLAPS, SequenceTheorems, WellFoundedInduction

\* Stripping a prefix (strings.TrimPrefix) and putting one in front leave an
\* identifier.
LEMMA TrimPrefixType ==
    ASSUME NEW id \in PartyId, NEW piece
    PROVE  TrimPrefix(id, piece) \in PartyId
BY DEF TrimPrefix, StartsWith, PartyId

\* A single piece is an identifier.
LEMMA PieceIsAnId ==
    ASSUME NEW piece \in Pieces
    PROVE  <<piece>> \in PartyId
BY DEF PartyId

\* A piece in front of an identifier makes an identifier and comes off again.
LEMMA PrefixType ==
    ASSUME NEW piece \in Pieces, NEW id \in PartyId
    PROVE  /\ <<piece>> \o id \in PartyId
           /\ <<piece>> \o id # <<>>
           /\ Head(<<piece>> \o id) = piece
           /\ Tail(<<piece>> \o id) = id
<1>1. <<piece>> \in Seq(Pieces) /\ Len(<<piece>>) = 1
  BY DEF PartyId
<1>2. /\ <<piece>> \o id \in Seq(Pieces)
      /\ Len(<<piece>> \o id) = 1 + Len(id)
      /\ \A i \in 1..(1 + Len(id)) :
           (<<piece>> \o id)[i] = IF i <= 1 THEN piece ELSE id[i - 1]
  BY <1>1, ConcatProperties DEF PartyId
<1> DEFINE s == <<piece>> \o id
<1> HIDE DEF s
<1>3. /\ s \in Seq(Pieces) /\ Len(s) = 1 + Len(id) /\ Len(id) \in Nat
      /\ \A i \in 1..(1 + Len(id)) : s[i] = IF i <= 1 THEN piece ELSE id[i - 1]
  BY <1>2, LenProperties DEF s, PartyId
<1>4. s # <<>> /\ Head(s) = piece
  BY <1>3
<1>5. Tail(s) \in Seq(Pieces) /\ Len(Tail(s)) = Len(id)
  BY <1>3, <1>4, HeadTailProperties
<1>6. \A i \in 1..Len(id) : Tail(s)[i] = id[i]
  BY <1>3, <1>4, HeadTailProperties
<1>7. Tail(s) = id
  BY <1>5, <1>6, SeqEqual DEF PartyId
<1> QED BY <1>3, <1>4, <1>7 DEF s, PartyId

\* The prefixes the code adds are pieces.
LEMMA PrefixesArePieces ==
    /\ IShare \in Pieces /\ OtherDid \in Pieces /\ Eori \in Pieces
    /\ Ntr \in Pieces
    /\ \A p : CountryPrefix(p) \in Pieces
BY DEF Pieces, IShare, OtherDid, Eori, Ntr, CountryPrefix

\* normalizePartyID and deriveV3Identity return identifiers.
LEMMA NormalizeType ==
    ASSUME NEW raw \in PartyId
    PROVE  normalizePartyID(raw) \in PartyId
<1>1. <<>> \in PartyId
  BY DEF PartyId
<1> QED BY <1>1, TrimPrefixType, PrefixType, PrefixesArePieces DEF normalizePartyID

\* LiftNtr returns an identifier.
LEMMA LiftType ==
    ASSUME NEW id \in PartyId
    PROVE  LiftNtr(id) \in PartyId
BY PrefixType, PrefixesArePieces DEF LiftNtr

\* deriveV3Identity returns an identifier.
LEMMA DeriveType ==
    ASSUME NEW id \in PartyId
    PROVE  deriveV3Identity(id) \in PartyId
<1> DEFINE bare == TrimPrefix(id, IShare)
<1>1. bare \in PartyId /\ <<>> \in PartyId
  BY TrimPrefixType DEF PartyId
<1>2. normalizePartyID(bare) \in PartyId /\ LiftNtr(bare) \in PartyId
  BY <1>1, NormalizeType, LiftType
<1> HIDE DEF bare
<1>3. \A x \in PartyId : BuildDidFromPartyID(x) \in PartyId
  BY PrefixType, PrefixesArePieces DEF BuildDidFromPartyID
<1> QED BY <1>1, <1>2, <1>3 DEF deriveV3Identity, bare

\* The first KVK number of an identifier exists when there is one at all.
LEMMA LeastPosition ==
    ASSUME NEW S \in SUBSET Nat, S # {}
    PROVE  \E m \in S : \A k \in S : m <= k
<1> DEFINE R == OpToRel(<, Nat)
<1>1. IsWellFoundedOn(R, Nat)
  BY NatLessThanWellFounded
<1>2. PICK m \in S : \A k \in S : ~ (<<k, m>> \in R)
  BY <1>1, WFMin, Zenon
<1>3. \A k \in S : ~ (k < m)
  BY <1>2, Zenon DEF OpToRel
<1> QED BY <1>3

\* The KVK number found in an identifier is one of its pieces.
LEMMA FirstKvkType ==
    ASSUME NEW id \in PartyId, KvkPositions(id) # {}
    PROVE  FirstKvk(id) \in Pieces
<1>1. KvkPositions(id) \in SUBSET Nat
  BY DEF KvkPositions, PartyId
<1>2. \E i \in KvkPositions(id) : \A j \in KvkPositions(id) : i <= j
  BY <1>1, LeastPosition
<1> DEFINE c == CHOOSE i \in KvkPositions(id) : \A j \in KvkPositions(id) : i <= j
<1>3. c \in KvkPositions(id)
  BY <1>2
<1>4. FirstKvk(id) = id[c]
  BY DEF FirstKvk
<1> QED BY <1>3, <1>4 DEF KvkPositions, Pieces

\* PartyIDFromOrganizationIdentifier and alignPartyIDWithCertificate return
\* identifiers.
LEMMA CertificateIdType ==
    ASSUME NEW identifier \in PartyId
    PROVE  PartyIDFromOrganizationIdentifier(identifier) \in PartyId
<1>1. LiftNtr(identifier) \in PartyId
  BY LiftType
<1>2. KvkPositions(identifier) # {} => <<Eori, FirstKvk(identifier)>> \in PartyId
  BY FirstKvkType, PrefixesArePieces DEF PartyId
<1> QED BY <1>1, <1>2 DEF PartyIDFromOrganizationIdentifier

\* alignPartyIDWithCertificate returns an identifier.
LEMMA AlignType ==
    ASSUME NEW id \in PartyId, NEW cert \in PartyId \cup {NoCert, BadCert}
    PROVE  alignPartyIDWithCertificate(id, cert) \in PartyId
BY CertificateIdType DEF alignPartyIDWithCertificate

\* What a completion posts and stores is an identifier again.
LEMMA RegistryIdType ==
    ASSUME NEW version \in Versions, NEW id \in PartyId,
           NEW cert \in PartyId \cup {NoCert, BadCert}
    PROVE  RegistryId(version, id, cert) \in PartyId
<1>1. /\ deriveV3Identity(alignPartyIDWithCertificate(id, cert)) \in PartyId
      /\ normalizePartyID(id) \in PartyId
  BY AlignType, DeriveType, NormalizeType
<1>2. BuildDidFromPartyID(normalizePartyID(id)) \in PartyId
  BY <1>1, PrefixType, PrefixesArePieces DEF BuildDidFromPartyID
<1> QED BY <1>1, <1>2 DEF RegistryId, Versions

-----------------------------------------------------------------------------
(* Completing again                                                          *)

\* TrimPrefix returns its argument, or the argument without its first piece.
LEMMA TrimPrefixAt ==
    ASSUME NEW id \in PartyId, NEW piece
    PROVE  LET t == TrimPrefix(id, piece) IN
           \/ t = id /\ ~ StartsWith(id, piece)
           \/ /\ StartsWith(id, piece) /\ id[1] = piece
              /\ Len(t) + 1 = Len(id)
              /\ \A i \in 1..Len(t) : t[i] = id[i + 1]
<1> DEFINE t == TrimPrefix(id, piece)
<1>1. CASE ~ StartsWith(id, piece)
  BY <1>1 DEF TrimPrefix
<1>2. CASE StartsWith(id, piece)
  <2>1. t = Tail(id) /\ id \in Seq(Pieces) /\ id # <<>> /\ Head(id) = piece
    BY <1>2 DEF TrimPrefix, StartsWith, PartyId
  <2>2. /\ id[1] = piece /\ Len(t) + 1 = Len(id)
        /\ \A i \in 1..Len(t) : t[i] = id[i + 1]
    BY <2>1, HeadTailProperties, LenProperties
  <2> QED BY <1>2, <2>2
<1> QED BY <1>1, <1>2

\* Dropping a prefix leaves an identifier sane, and a sane identifier without
\* two NTR prefixes has none.
LEMMA TrimKeepsSane ==
    ASSUME NEW id \in PartyId, NEW piece, Sane(id)
    PROVE  Sane(TrimPrefix(id, piece))
<1> DEFINE t == TrimPrefix(id, piece)
<1>1. Len(id) \in Nat /\ Len(t) \in Nat
  BY TrimPrefixType DEF PartyId
<1>2. CASE t = id
  BY <1>2
<1>3. CASE Len(t) + 1 = Len(id) /\ \A i \in 1..Len(t) : t[i] = id[i + 1]
  <2> HIDE DEF t
  <2>1. ASSUME NEW i \in 1..Len(t), i + 2 \in 1..Len(t),
               t[i] = Ntr, t[i + 1] = Ntr, t[i + 2] = Ntr
        PROVE  FALSE
    <3>1. /\ i + 1 \in 1..Len(id) /\ (i + 1) + 2 \in 1..Len(id)
          /\ id[i + 1] = Ntr /\ id[(i + 1) + 1] = Ntr /\ id[(i + 1) + 2] = Ntr
      BY <1>1, <1>3, <2>1
    <3> QED BY <3>1 DEF Sane
  <2> QED BY <2>1 DEF Sane, t
<1> QED BY <1>2, <1>3, TrimPrefixAt

\* Two trims take every leading NTR off a sane identifier.
LEMMA NoNtrLeft ==
    ASSUME NEW id \in PartyId, Sane(id)
    PROVE  ~ StartsWith(TrimPrefix(TrimPrefix(id, Ntr), Ntr), Ntr)
<1> DEFINE t == TrimPrefix(id, Ntr)
           u == TrimPrefix(t, Ntr)
<1>1. t \in PartyId /\ u \in PartyId
  BY TrimPrefixType
<1>2. Len(id) \in Nat /\ Len(t) \in Nat /\ Len(u) \in Nat
  BY <1>1 DEF PartyId
<1>3. SUFFICES ASSUME StartsWith(u, Ntr) PROVE FALSE
  OBVIOUS
<1>4. u[1] = Ntr /\ Len(u) >= 1
  BY <1>1, <1>3 DEF StartsWith, PartyId
<1>5. StartsWith(t, Ntr)
  BY <1>1, <1>3, TrimPrefixAt
<1>6. t[1] = Ntr /\ Len(u) + 1 = Len(t) /\ t[2] = Ntr
  <2>1. ~ (u = t /\ ~ StartsWith(t, Ntr))
    BY <1>5
  <2> HIDE DEF u, t
  <2>2. /\ t[1] = Ntr /\ Len(u) + 1 = Len(t)
        /\ \A i \in 1..Len(u) : u[i] = t[i + 1]
    BY <1>1, <2>1, TrimPrefixAt DEF u
  <2>3. u[1] = t[1 + 1]
    BY <1>2, <1>4, <2>2
  <2> QED BY <1>4, <2>2, <2>3
<1>7. StartsWith(id, Ntr)
  BY <1>5, TrimPrefixAt
<1>8. id[1] = Ntr /\ Len(t) + 1 = Len(id) /\ id[2] = Ntr /\ id[3] = Ntr
  <2> HIDE DEF u
  <2>1. /\ id[1] = Ntr /\ Len(t) + 1 = Len(id)
        /\ \A i \in 1..Len(t) : t[i] = id[i + 1]
    BY <1>7, TrimPrefixAt
  <2> HIDE DEF t
  <2>2. t[1] = id[1 + 1] /\ t[2] = id[2 + 1]
    BY <1>2, <1>4, <1>6, <2>1
  <2> QED BY <1>6, <2>1, <2>2
<1> QED BY <1>2, <1>4, <1>6, <1>8 DEF Sane

\* normalizePartyID is idempotent on the identifiers it returns.
LEMMA NormalizeSettles ==
    ASSUME NEW id \in PartyId, Sane(id)
    PROVE  normalizePartyID(normalizePartyID(id)) = normalizePartyID(id)
<1> DEFINE y == TrimPrefix(id, Eori)
           t == TrimPrefix(TrimPrefix(y, Ntr), Ntr)
<1>1. y \in PartyId /\ t \in PartyId /\ Sane(y)
  BY TrimPrefixType, TrimKeepsSane
<1>2. ~ StartsWith(t, Ntr)
  BY <1>1, NoNtrLeft
<1>3. CASE id = <<>>
  BY <1>3 DEF normalizePartyID
<1>4. CASE id # <<>>
  <2>1. normalizePartyID(id) = <<Eori>> \o t
    BY <1>4 DEF normalizePartyID
  <2> HIDE DEF t
  <2>2. /\ <<Eori>> \o t # <<>> /\ TrimPrefix(<<Eori>> \o t, Eori) = t
    BY <1>1, PrefixType, PrefixesArePieces DEF TrimPrefix, StartsWith
  <2>3. TrimPrefix(t, Ntr) = t
    BY <1>2 DEF TrimPrefix
  <2> QED BY <2>1, <2>2, <2>3 DEF normalizePartyID
<1> QED BY <1>3, <1>4

\* deriveV3Identity maps the DID it returned to itself.
THEOREM DeriveSettles ==
    ASSUME NEW id \in PartyId, Sane(id)
    PROVE  deriveV3Identity(deriveV3Identity(id)) = deriveV3Identity(id)
<1> DEFINE bare == TrimPrefix(id, IShare)
           Form(x) == IF IsNtrAligned(x) THEN x
                      ELSE IF IsNtrIdentifier(x) THEN LiftNtr(x)
                      ELSE normalizePartyID(x)
<1>1. bare \in PartyId /\ Sane(bare)
  BY TrimPrefixType, TrimKeepsSane
<1>2. CASE id = <<>> \/ StartsWith(id, OtherDid)
  BY <1>2 DEF deriveV3Identity
<1>3. CASE id # <<>> /\ ~ StartsWith(id, OtherDid)
  <2>1. deriveV3Identity(id) = BuildDidFromPartyID(Form(bare))
    BY <1>3 DEF deriveV3Identity
  <2> HIDE DEF bare
  <2>2. Form(bare) \in PartyId
    BY <1>1, LiftType, NormalizeType
  <2>3. Form(Form(bare)) = Form(bare)
    <3>1. CASE IsNtrAligned(bare)
      BY <3>1
    <3>2. CASE ~ IsNtrAligned(bare) /\ IsNtrIdentifier(bare)
      <4>1. /\ bare \in Seq(Pieces) /\ Len(bare) > 1 /\ bare[1] = Ntr
            /\ Opens(bare[2])
        BY <1>1, <3>2 DEF IsNtrIdentifier, PartyId
      <4> DEFINE c == CountryPrefix(bare[2])
      <4>2. c \in Pieces /\ c \in {"EU.NL.", "EU.NT.", "EU.EU."}
        BY DEF CountryPrefix, Pieces
      <4>3. <<c>> \in Seq(Pieces) /\ Len(<<c>>) = 1
        BY <4>2
      <4> DEFINE x == <<c>> \o bare
      <4>4. /\ x \in Seq(Pieces) /\ Len(x) = 1 + Len(bare)
            /\ x[1] = c /\ x[2] = bare[1] /\ x[3] = bare[2]
        BY <4>1, <4>3, ConcatProperties
      <4>5. LiftNtr(bare) = x
        BY DEF LiftNtr
      <4> HIDE DEF x, c
      <4>6. IsNtrAligned(x)
        BY <4>1, <4>2, <4>4 DEF IsNtrAligned
      <4> QED BY <3>2, <4>5, <4>6
    <3>3. CASE ~ IsNtrAligned(bare) /\ ~ IsNtrIdentifier(bare)
      <4> DEFINE n == normalizePartyID(bare)
      <4>1. n \in PartyId /\ normalizePartyID(n) = n
        BY <1>1, NormalizeType, NormalizeSettles
      <4>2. n = <<>> \/ Head(n) = Eori
        <5>1. CASE bare = <<>>
          BY <5>1 DEF normalizePartyID
        <5>2. CASE bare # <<>>
          BY <1>1, <5>2, TrimPrefixType, PrefixType, PrefixesArePieces
          DEF normalizePartyID
        <5> QED BY <5>1, <5>2
      <4> HIDE DEF n
      <4>3. ~ IsNtrAligned(n) /\ ~ IsNtrIdentifier(n)
        <5>1. n = <<>> \/ n[1] = "EU.EORI."
          BY <4>1, <4>2 DEF Eori, PartyId
        <5> QED BY <4>1, <5>1 DEF IsNtrAligned, IsNtrIdentifier, Ntr, PartyId
      <4> QED BY <3>3, <4>1, <4>3 DEF n
    <3> QED BY <3>1, <3>2, <3>3
  <2> DEFINE d == BuildDidFromPartyID(Form(bare))
  <2> HIDE DEF Form
  <2>4. /\ d # <<>> /\ ~ StartsWith(d, OtherDid)
        /\ TrimPrefix(d, IShare) = Form(bare)
    BY <2>2, PrefixType, PrefixesArePieces
    DEF BuildDidFromPartyID, StartsWith, TrimPrefix, IShare, OtherDid
  <2>5. deriveV3Identity(d) = BuildDidFromPartyID(Form(Form(bare)))
    BY <2>4 DEF deriveV3Identity, Form
  <2> QED BY <2>1, <2>3, <2>5
<1> QED BY <1>2, <1>3
\* The alignment and the derivation of version 3 lead from any id to the one
\* the registry computes from an NTR certificate.
LEMMA CertificateDecidesId ==
    ASSUME NEW id \in PartyId, NEW cert \in PartyId, cert \notin {NoCert, BadCert},
           IsNtrIdentifier(cert)
    PROVE  RegistryId("3.0", id, cert) = calcIshareDid(cert)
<1> DEFINE lifted == LiftNtr(cert)
           prefix == CountryPrefix(cert[2])
<1>1. /\ Len(cert) > 1 /\ cert[1] = Ntr /\ Opens(cert[2])
      /\ cert \in Seq(Pieces) /\ cert # <<>> /\ Head(cert) = Ntr
  BY DEF IsNtrIdentifier, PartyId
<1>2. /\ prefix \in {"EU.NL.", "EU.NT.", "EU.EU."} /\ prefix \in Pieces
  BY PrefixesArePieces DEF CountryPrefix
<1>3. PartyIDFromOrganizationIdentifier(cert) = lifted
  BY <1>1 DEF PartyIDFromOrganizationIdentifier, StartsWith, IShare, Eori, Ntr
<1>4. lifted # <<>> /\ Head(lifted) = prefix /\ lifted \in PartyId
  BY <1>2, PrefixType DEF LiftNtr
<1>5. alignPartyIDWithCertificate(id, cert) = lifted
  BY <1>3, <1>4 DEF alignPartyIDWithCertificate
<1>6. TrimPrefix(lifted, IShare) = lifted /\ ~StartsWith(lifted, OtherDid)
  BY <1>2, <1>4 DEF TrimPrefix, StartsWith, IShare, OtherDid
<1>7. IsNtrAligned(lifted)
  <2>1. <<prefix>> \in Seq(Pieces) /\ Len(<<prefix>>) = 1
    BY <1>2
  <2>2. /\ Len(lifted) = 1 + Len(cert)
        /\ \A i \in 1..(1 + Len(cert)) :
             lifted[i] = IF i <= 1 THEN prefix ELSE cert[i - 1]
    BY <1>1, <2>1, ConcatProperties DEF LiftNtr
  <2> HIDE DEF lifted, prefix
  <2> QED BY <1>1, <1>2, <2>2 DEF IsNtrAligned
<1> HIDE DEF lifted
<1>8. deriveV3Identity(lifted) = BuildDidFromPartyID(lifted)
  BY <1>4, <1>6, <1>7 DEF deriveV3Identity
<1> QED BY <1>5, <1>8 DEF RegistryId, calcIshareDid, lifted

-----------------------------------------------------------------------------
(* An identifier as it was typed, beside a certificate                       *)

\* What is typed is an identifier.
LEMMA TypedIsAnId == EntrySpec => [](typed \in PartyId /\ carried \in Certificates)
<1>1. EntryInit => typed \in PartyId /\ carried \in Certificates
  BY DEF EntryInit, PartyId
<1>2. typed \in PartyId /\ carried \in Certificates /\ [EntryNext]_entryVars
        => (typed \in PartyId /\ carried \in Certificates)'
  BY DEF EntryNext, TypePiece, entryVars, PartyId
<1> QED BY <1>1, <1>2, PTL DEF EntrySpec

\* A version 3 completion that is tried again, after the first one replaced the party
\* id by the DID it registered, names the same party: the certificate decides both
\* times, or what was derived is derived to itself.
THEOREM RetriesAgree == EntrySpec => []RetryNamesTheSameParty
<1>1. ASSUME typed \in PartyId, Sane(typed) PROVE V3(V3(typed)) = V3(typed)
  <2> DEFINE given == PartyIDFromOrganizationIdentifier(carried)
  <2>1. CASE carried \in {NoCert, BadCert} \/ given = <<>>
    <3>1. \A id : V3(id) = deriveV3Identity(id)
      BY <2>1 DEF V3, RegistryId, alignPartyIDWithCertificate
    <3> QED BY <1>1, <3>1, DeriveSettles
  <2>2. CASE carried \notin {NoCert, BadCert} /\ given # <<>>
    BY <2>2 DEF V3, RegistryId, alignPartyIDWithCertificate
  <2> QED BY <2>1, <2>2
<1>2. typed \in PartyId => RetryNamesTheSameParty
  BY <1>1 DEF RetryNamesTheSameParty
<1> QED BY <1>2, TypedIsAnId, PTL

\* A party onboarded with an NTR<CC> certificate is posted on version 3 under the id
\* the registry computes from that certificate, whatever was typed.
THEOREM CertificateRules == EntrySpec => []CertificateDecidesTheId
<1>1. typed \in PartyId /\ carried \in Certificates => CertificateDecidesTheId
  BY EntryAssumption, CertificateDecidesId DEF CertificateDecidesTheId, V3
<1> QED BY <1>1, TypedIsAnId, PTL

\* An identifier of two or three pieces gives up its first one.
LEMMA FirstComesOff ==
    /\ \A a, b \in Pieces : TrimPrefix(<<a, b>>, a) = <<b>>
    /\ \A a, b, c \in Pieces : TrimPrefix(<<a, b, c>>, a) = <<b, c>>
BY DEF TrimPrefix, StartsWith

\* What does not stand first stays.
LEMMA OthersStay ==
    ASSUME NEW p
    PROVE  /\ \A a \in Pieces : p # a => TrimPrefix(<<a>>, p) = <<a>>
           /\ \A a, b \in Pieces : p # a => TrimPrefix(<<a, b>>, p) = <<a, b>>
           /\ \A a, b, c \in Pieces : p # a => TrimPrefix(<<a, b, c>>, p) = <<a, b, c>>
BY DEF TrimPrefix, StartsWith

\* The spellings of one number meet in one 2.x identifier.
THEOREM SpellingsAreOne == EntrySpec => []SpellingsMeet
<1>1. ASSUME NEW body \in KvkBodies \cup PlainBodies,
             NEW id \in {<<body>>, <<Eori, body>>, <<Ntr, body>>,
                         <<Eori, Ntr, body>>, <<Ntr, Ntr, body>>}
      PROVE  normalizePartyID(id) = <<Eori, body>>
  <2>1. /\ body \in Pieces /\ Eori \in Pieces /\ Ntr \in Pieces
        /\ body # Eori /\ body # Ntr /\ Eori # Ntr
    BY EntryAssumption, PrefixesArePieces DEF Pieces, Eori, Ntr
  <2>2. TrimPrefix(TrimPrefix(TrimPrefix(id, Eori), Ntr), Ntr) = <<body>>
    <3>1. TrimPrefix(<<body>>, Eori) = <<body>> /\ TrimPrefix(<<body>>, Ntr) = <<body>>
      BY <2>1, OthersStay
    <3>2. TrimPrefix(<<Eori, body>>, Eori) = <<body>> /\ TrimPrefix(<<Ntr, body>>, Ntr) = <<body>>
      BY <2>1, FirstComesOff
    <3>3. TrimPrefix(<<Ntr, body>>, Eori) = <<Ntr, body>>
      BY <2>1, OthersStay
    <3>4. TrimPrefix(<<Eori, Ntr, body>>, Eori) = <<Ntr, body>>
      BY <2>1, FirstComesOff
    <3>5. TrimPrefix(<<Ntr, Ntr, body>>, Ntr) = <<Ntr, body>>
      BY <2>1, FirstComesOff
    <3>6. TrimPrefix(<<Ntr, Ntr, body>>, Eori) = <<Ntr, Ntr, body>>
      BY <2>1, OthersStay
    <3> QED BY <1>1, <3>1, <3>2, <3>3, <3>4, <3>5, <3>6
  <2>3. id # <<>>
    BY <1>1
  <2>4. <<Eori>> \o <<body>> = <<Eori, body>>
    <3> DEFINE s == <<Eori>> \o <<body>>
               t == <<Eori, body>>
    <3>1. /\ <<Eori>> \in Seq(Pieces) /\ <<body>> \in Seq(Pieces)
          /\ Len(<<Eori>>) = 1 /\ Len(<<body>>) = 1
          /\ t \in Seq(Pieces) /\ Len(t) = 2 /\ t[1] = Eori /\ t[2] = body
      BY <2>1
    <3>2. s \in Seq(Pieces) /\ Len(s) = 2 /\ s[1] = Eori /\ s[2] = body
      BY <3>1, ConcatProperties
    <3> HIDE DEF s, t
    <3>3. \A i \in 1..Len(s) : s[i] = t[i]
      BY <3>1, <3>2
    <3>4. s = t
      BY <3>1, <3>2, <3>3, SeqEqual
    <3> QED BY <3>4 DEF s, t
  <2> QED BY <2>2, <2>3, <2>4 DEF normalizePartyID
<1>2. SpellingsMeet
  BY <1>1 DEF SpellingsMeet
<1> QED BY <1>2, PTL
=============================================================================
