-------------------------- MODULE CredentialProofs --------------------------
(* The two caches of the backend that decide who is let in, for any number   *)
(* of calls: the token it shows the registry is handed out with its margin   *)
(* (AccessTokens), and the keys it knows tokens by are never all forgotten   *)
(* (AuthKeys). They share nothing.                                           *)
EXTENDS AccessTokens, AuthKeys, TLAPS

-----------------------------------------------------------------------------
(* Registry access tokens                                                    *)

\* The strengthening: an entry is never kept longer than its token lasts, the
\* margin left out, whether it is still usable or not.
EntriesFit ==
    \A k \in Key :
      (cache[k] # Empty /\ cache[k].exact) => cache[k].ttl + Margin <= cache[k].token.left

IInv == TypeOK /\ EntriesFit

-----------------------------------------------------------------------------
\* An entry is no empty place.
LEMMA EntryIsNoEmpty == \A e \in Entry : e # Empty
BY DEF Entry, Empty

\* At first nothing is cached and no call is under way.
LEMMA InitIInv == Init => IInv
BY LifetimesAreTicks DEF Init, IInv, TypeOK, EntriesFit, Call, Idle

\* The strengthening is what the margin needs.
LEMMA FitKeepsMargin == IInv => MarginIsKept
<1> SUFFICES ASSUME IInv, NEW k \in Key, Usable(k), cache[k].exact
             PROVE  cache[k].token.left > Margin
  BY DEF MarginIsKept
<1>1. cache[k] \in Entry /\ cache[k] # Empty
  BY DEF IInv, TypeOK, Usable, Empty
<1> QED BY <1>1 DEF IInv, EntriesFit, Usable, Entry, Token, Margin

\* What is stored for a token lasts as long as the token without its margin.
LEMMA EntryForToken ==
    ASSUME NEW token \in Token
    PROVE  /\ EntryFor(token) \in Entry
           /\ EntryFor(token).exact => EntryFor(token).ttl + Margin <= EntryFor(token).token.left
<1> DEFINE ttl == accessTokenExpiry(token)
           exact == token.dated /\ token.left >= Margin
<1>1. token.left \in Nat /\ token.dated \in BOOLEAN
  BY DEF Token
<1>2. ttl \in Nat /\ exact \in BOOLEAN /\ (exact => ttl + Margin <= token.left)
  BY <1>1 DEF accessTokenExpiry, Margin, Fallback
<1>3. EntryFor(token) = [ttl |-> ttl, token |-> token, exact |-> exact]
  BY DEF EntryFor
<1> HIDE DEF ttl, exact
<1> QED BY <1>2, <1>3 DEF Entry

\* Time takes as much from an entry as from its token.
LEMMA AgedEntry ==
    ASSUME NEW entry \in {Empty} \cup Entry,
           (entry # Empty /\ entry.exact) => entry.ttl + Margin <= entry.token.left
    PROVE  LET aged == EntryAged(entry)
           IN  /\ aged \in {Empty} \cup Entry
               /\ (aged # Empty /\ aged.exact) => aged.ttl + Margin <= aged.token.left
<1>1. CASE entry.ttl <= 1
  BY <1>1 DEF EntryAged
<1>2. CASE ~(entry.ttl <= 1)
  <2>1. entry \in Entry /\ entry # Empty /\ entry.ttl \in Nat /\ entry.ttl > 1
    BY <1>2 DEF Entry, Empty
  <2>2. entry.token \in Token /\ entry.token.left \in Nat
    BY <2>1 DEF Entry, Token
  <2> DEFINE token == Aged(entry.token)
             ttl == entry.ttl - 1
  <2>3. token \in Token /\ token.left = Less(entry.token.left)
    BY <2>2 DEF Aged, Token, Less
  <2>4. EntryAged(entry) = [entry EXCEPT !.ttl = ttl, !.token = token] /\ ttl \in Nat
    <3>1. Less(entry.ttl) = ttl /\ ttl \in Nat
      BY <2>1 DEF Less
    <3> HIDE DEF ttl, token
    <3>2. EntryAged(entry) = [entry EXCEPT !.ttl = Less(entry.ttl), !.token = Aged(entry.token)]
      BY <1>2 DEF EntryAged
    <3> QED BY <3>1, <3>2 DEF token
  <2>5. EntryAged(entry) \in Entry /\ EntryAged(entry).ttl = ttl
        /\ EntryAged(entry).token = token /\ EntryAged(entry).exact = entry.exact
    <3> HIDE DEF token, ttl
    <3> QED BY <2>1, <2>3, <2>4 DEF Entry
  <2>6. entry.exact => ttl + Margin <= Less(entry.token.left)
    BY <2>1, <2>2 DEF Less, Margin
  <2> QED BY <2>3, <2>5, <2>6
<1> QED BY <1>1, <1>2

-----------------------------------------------------------------------------
\* A call that moves on, or ends, touches no entry.
LEMMA GotoStep ==
    ASSUME IInv, NEW w \in Workers, NEW call \in Call, Goto(w, call),
           UNCHANGED <<cfg, saved, writing, switches, cache>>
    PROVE  IInv'
BY DEF IInv, TypeOK, EntriesFit, Goto

\* A call that is somewhere has what its place needs.
LEMMA CallAt ==
    ASSUME TypeOK, NEW w \in Workers
    PROVE  /\ calls[w].at \in {"mint", "post", "store"} => calls[w].key \in Key
           /\ calls[w].at = "post" => calls[w].iss \in Issuers
           /\ calls[w].at = "store" => calls[w].token \in Token
           /\ Idle \in Call
BY DEF TypeOK, Call, Idle

\* Each step of GetOwnerAccessToken.
LEMMA CallStep ==
    ASSUME IInv, NEW w \in Workers,
           LookUp(w) \/ Mint(w) \/ Exchange(w) \/ Fail(w) \/ Store(w)
    PROVE  IInv'
<1>1. TypeOK /\ cfg.base \in Bases /\ cfg.iss \in Issuers /\ cfg \in Key
  BY DEF IInv, TypeOK, Key
<1>2. CASE LookUp(w)
  <2>1. [at |-> "mint", key |-> cfg] \in Call
    BY <1>1 DEF Call
  <2> QED BY <1>2, <2>1, GotoStep DEF LookUp
<1>3. CASE Mint(w)
  <2>1. [at |-> "post", key |-> calls[w].key, iss |-> cfg.iss] \in Call
    BY <1>1, <1>3, CallAt DEF Call, Mint
  <2> QED BY <1>3, <2>1, GotoStep DEF Mint
<1>4. CASE Exchange(w)
  <2>1. PICK left \in Lifetimes, dated \in BOOLEAN :
          Goto(w, [at |-> "store", key |-> calls[w].key,
                   token |-> [base |-> cfg.base, iss |-> cfg.iss, left |-> left, dated |-> dated]])
    BY <1>4 DEF Exchange
  <2>2. [base |-> cfg.base, iss |-> cfg.iss, left |-> left, dated |-> dated] \in Token
    BY <1>1, LifetimesAreTicks DEF Token
  <2>3. calls[w].key \in Key
    BY <1>1, <1>4, CallAt DEF Exchange
  <2>4. [at |-> "store", key |-> calls[w].key,
         token |-> [base |-> cfg.base, iss |-> cfg.iss, left |-> left, dated |-> dated]] \in Call
    BY <2>2, <2>3 DEF Call
  <2> QED BY <1>4, <2>1, <2>4, GotoStep DEF Exchange
<1>5. CASE Fail(w)
  BY <1>1, <1>5, CallAt, GotoStep DEF Fail
<1>6. CASE Store(w)
  <2> DEFINE k == calls[w].key
             entry == EntryFor(calls[w].token)
  <2>1. k \in Key /\ calls[w].token \in Token
    BY <1>1, <1>6, CallAt DEF Store
  <2>2. entry \in Entry /\ (entry.exact => entry.ttl + Margin <= entry.token.left)
    BY <2>1, EntryForToken
  <2>3. cache' = [cache EXCEPT ![k] = entry] /\ calls' = [calls EXCEPT ![w] = Idle]
        /\ UNCHANGED <<cfg, saved, writing, switches>>
    BY <1>6 DEF Store, Goto
  <2> HIDE DEF k, entry
  <2>4. TypeOK'
    BY <1>1, <2>1, <2>2, <2>3, CallAt DEF TypeOK
  <2>5. EntriesFit'
    BY <1>1, <2>1, <2>2, <2>3 DEF IInv, EntriesFit, TypeOK
  <2> QED BY <2>4, <2>5 DEF IInv
<1> QED BY <1>2, <1>3, <1>4, <1>5, <1>6

\* Time passes for the cache and for the tokens on their way to it.
LEMMA TickStep == ASSUME IInv, Tick PROVE IInv'
<1>1. ASSUME NEW k \in Key
      PROVE  /\ cache'[k] \in {Empty} \cup Entry
             /\ (cache'[k] # Empty /\ cache'[k].exact)
                   => cache'[k].ttl + Margin <= cache'[k].token.left
  <2>1. cache'[k] = EntryAged(cache[k]) /\ cache[k] \in {Empty} \cup Entry
    BY DEF Tick, IInv, TypeOK
  <2>2. (cache[k] # Empty /\ cache[k].exact) => cache[k].ttl + Margin <= cache[k].token.left
    BY DEF IInv, EntriesFit
  <2> QED BY <2>1, <2>2, AgedEntry
<1>2. ASSUME NEW w \in Workers PROVE calls'[w] \in Call
  <2>1. calls[w] \in Call
    BY DEF IInv, TypeOK
  <2>2. CASE calls[w].at # "store"
    BY <2>1, <2>2 DEF Tick
  <2>3. CASE calls[w].at = "store"
    <3> DEFINE token == Aged(calls[w].token)
    <3>1. calls[w] \in [at : {"store"}, key : Key, token : Token]
      BY <2>1, <2>3 DEF Call, Idle
    <3>2. token \in Token
      BY <3>1 DEF Aged, Token, Less
    <3>3. calls'[w] = [calls[w] EXCEPT !.token = token]
      BY <2>3 DEF Tick
    <3> HIDE DEF token
    <3> QED BY <3>1, <3>2, <3>3 DEF Call
  <2> QED BY <2>2, <2>3
<1>3. /\ cache' = [k \in Key |-> EntryAged(cache[k])]
      /\ DOMAIN calls' = Workers /\ calls' = [w \in Workers |-> calls'[w]]
      /\ UNCHANGED <<cfg, saved, writing, switches>>
  BY DEF Tick
<1>4. TypeOK'
  <2>1. cache' \in [Key -> {Empty} \cup Entry]
    BY <1>1, <1>3
  <2>2. calls' \in [Workers -> Call]
    BY <1>2, <1>3
  <2> QED BY <1>3, <2>1, <2>2 DEF IInv, TypeOK
<1> QED BY <1>1, <1>4 DEF IInv, EntriesFit

\* Saving another connection, in two writes, touches no entry.
LEMMA SaveStep ==
    ASSUME IInv, (\E c \in Key : SaveConnection(c)) \/ OverlayBase \/ OverlayIss
    PROVE  IInv'
<1>1. CASE \E c \in Key : SaveConnection(c)
  BY <1>1, LifetimesAreTicks DEF SaveConnection, IInv, TypeOK, EntriesFit
<1>2. CASE OverlayBase
  BY <1>2 DEF OverlayBase, IInv, TypeOK, EntriesFit, Key
<1>3. CASE OverlayIss
  BY <1>3 DEF OverlayIss, IInv, TypeOK, EntriesFit, Key
<1> QED BY <1>1, <1>2, <1>3

-----------------------------------------------------------------------------
\* Every step keeps the entries within the life of their tokens.
THEOREM IInvStep == IInv /\ [Next]_vars => IInv'
<1> SUFFICES ASSUME IInv, [Next]_vars PROVE IInv'
  OBVIOUS
<1>1. CASE UNCHANGED vars
  BY <1>1 DEF vars, IInv, TypeOK, EntriesFit
<1> QED BY <1>1, CallStep, TickStep, SaveStep DEF Next

\* GetOwnerAccessToken hands out a cached token whose expiry is known only while
\* it has more than 30 seconds left, however calls, time and changes of the
\* connection interleave; and the cache keeps its shape.
THEOREM TokensKeepMargin == Spec => []CacheIsSound
<1>1. Init => IInv
  BY InitIInv
<1>2. IInv /\ [Next]_vars => IInv'
  BY IInvStep
<1>3. IInv => CacheIsSound
  BY FitKeepsMargin DEF IInv, CacheIsSound
<1> QED BY <1>1, <1>2, <1>3, PTL DEF Spec

-----------------------------------------------------------------------------
(* Bearer token keys                                                         *)

\* What a request holds of the key set at its stage.
LEMMA RequestIs ==
    ASSUME KeysTypeOK, NEW r \in Requests
    PROVE  /\ reqs[r] \in Request
           /\ reqs[r] = NoRequest \/ reqs[r].kid \in Kids
           /\ reqs[r].at = "install" => reqs[r].answer \subseteq Kids
           /\ \A q \in Request : [reqs EXCEPT ![r] = q] \in [Requests -> Request]
BY DEF KeysTypeOK, Request, NoRequest

\* The steps of a request move it on and leave the realm alone.
LEMMA KeyfuncStep ==
    ASSUME KeysTypeOK, NEW r \in Requests, Arrive(r) \/ Validate(r)
    PROVE  KeysTypeOK' /\ (keys # {} => keys' # {})
<1> USE RequestIs
<1>1. /\ published \subseteq Kids /\ signing \in published /\ signing \in Kids
      /\ rotations \in 0..MaxRotations /\ keys \subseteq Kids
  BY DEF KeysTypeOK
<1>2. CASE Arrive(r)
  BY <1>1, <1>2 DEF Arrive, MoveTo, KeysTypeOK, Request
<1>3. CASE Get(r)
  <2>1. reqs[r].kid \in Kids /\ [reqs[r] EXCEPT !.at = "fetch"] \in Request
    BY <1>3 DEF Get, Request, NoRequest
  <2>2. NoRequest \in Request
    BY DEF Request
  <2> QED BY <1>1, <1>3, <2>1, <2>2 DEF Get, MoveTo, KeysTypeOK
<1>4. CASE Fetch(r)
  <2>1. PICK answer \in {published, {}} :
          reqs' = [reqs EXCEPT ![r] = [reqs[r] EXCEPT !.at = "install", !.answer = answer]]
    BY <1>4 DEF Fetch, MoveTo
  <2>2. reqs[r] \in [at : {"fetch"}, kid : Kids, answer : {{}}] /\ answer \in SUBSET Kids
    BY <1>1, <1>4 DEF Fetch, Request, NoRequest
  <2>3. [reqs[r] EXCEPT !.at = "install", !.answer = answer]
          \in [at : {"install"}, kid : Kids, answer : SUBSET Kids]
    BY <2>2
  <2> QED BY <1>1, <1>4, <2>1, <2>3 DEF Fetch, Request, KeysTypeOK
<1>5. CASE FetchFails(r) \/ GetAgain(r)
  <2>1. NoRequest \in Request
    BY DEF Request
  <2> QED BY <1>1, <1>5, <2>1 DEF FetchFails, GetAgain, MoveTo, KeysTypeOK
<1>6. CASE Install(r)
  <2>0. reqs[r] \in [at : {"install"}, kid : Kids, answer : SUBSET Kids]
    BY <1>6 DEF Install, Request, NoRequest
  <2>1. [reqs[r] EXCEPT !.at = "again", !.answer = {}]
          \in [at : {"get", "fetch", "again"}, kid : Kids, answer : {{}}]
    BY <2>0
  <2>2. PICK q \in Request : reqs' = [reqs EXCEPT ![r] = q]
    BY <1>6, <2>1 DEF Install, MoveTo, Request
  <2>3. /\ keys' \subseteq Kids /\ (keys # {} => keys' # {})
        /\ UNCHANGED <<published, signing, rotations>>
    BY <1>1, <1>6, <2>0 DEF Install
  <2> QED BY <1>1, <2>2, <2>3 DEF KeysTypeOK
<1> QED BY <1>2, <1>3, <1>4, <1>5, <1>6 DEF Validate

\* However many requests fetch the key set at once and in whatever order their
\* answers are installed while the realm rotates its keys, a backend that has a key
\* is never left without one (refresh).
THEOREM KeysStay == KeysSpec => KeysAreKept
<1>1. KeysInit => KeysTypeOK
  <2> SUFFICES ASSUME KeysInit PROVE KeysTypeOK
    OBVIOUS
  <2>1. reqs \in [Requests -> Request]
    BY DEF KeysInit, Request
  <2> QED BY <2>1, RotationsBound DEF KeysInit, KeysTypeOK
<1>2. KeysTypeOK /\ [KeysNext]_keyVars
        => KeysTypeOK' /\ [keys # {} => keys' # {}]_keyVars
  <2> SUFFICES ASSUME KeysTypeOK, [KeysNext]_keyVars
               PROVE  KeysTypeOK' /\ [keys # {} => keys' # {}]_keyVars
    OBVIOUS
  <2>1. ASSUME NEW k \in Kids, Rotate(k) \/ Withdraw(k)
        PROVE  KeysTypeOK' /\ keys' = keys
    BY <2>1, RotationsBound DEF Rotate, Withdraw, KeysTypeOK
  <2>2. CASE UNCHANGED keyVars
    BY <2>2 DEF keyVars, KeysTypeOK
  <2> QED BY <2>1, <2>2, KeyfuncStep DEF KeysNext
<1> QED BY <1>1, <1>2, PTL DEF KeysSpec, KeysAreKept, SomeKeyStays
=============================================================================
