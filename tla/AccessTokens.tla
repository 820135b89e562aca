---------------------------- MODULE AccessTokens ----------------------------
(* The access tokens the backend presents to the participant registry.       *)
(*                                                                           *)
(* Every registry call asks GetOwnerAccessToken for a bearer token. A cached *)
(* token is reused; otherwise the caller mints a client assertion, exchanges *)
(* it at the registry's token endpoint and stores the answer. Only the cache *)
(* accesses hold the lock. The connection is a struct shared by all requests *)
(* that saving the settings overwrites field by field, without a lock, while *)
(* callers read it at every step.                                            *)
(*                                                                           *)
(* Time is what is left of a token and of a cache entry, in ticks of 15 s.   *)
EXTENDS Integers

CONSTANTS
    Workers,        \* registry calls in progress at the same time
    Bases,          \* registry base URLs an admin can enter
    Issuers,        \* identities (EORI of the satellite owner) to act as
    Lifetimes,      \* ticks a token can be valid for when it is issued
    MaxSwitches     \* bound: how often the connection is changed

ASSUME LifetimesAreTicks == Lifetimes \subseteq Nat /\ MaxSwitches \in Nat

Margin == 2         \* 30 seconds
Fallback == 4       \* 60 seconds

VARIABLES
    cfg,            \* Config.SatelliteBaseUrl and SatelliteIss
    saved,          \* the connection last saved from the settings page
    writing,        \* the field OverlaySatelliteSettings writes next
    switches,       \* how many connections were saved
    calls,          \* worker -> where its GetOwnerAccessToken is
    cache           \* key -> the cached token, or Empty

vars == <<cfg, saved, writing, switches, calls, cache>>

\* Keyed by endpoint and identity (the audience is the registry's own id, which
\* changes with the endpoint).
Key == [base : Bases, iss : Issuers]
\* "dated": the token decodes to a JWT with an exp.
Token == [base : Bases, iss : Issuers, left : Nat, dated : BOOLEAN]
Empty == [ttl |-> 0]
\* "exact" is a history field: the entry's life follows from the token's exp.
Entry == [ttl : Nat, token : Token, exact : BOOLEAN]

Idle == [at |-> "idle"]
Call == {Idle} \cup [at : {"mint"}, key : Key]
               \cup [at : {"post"}, key : Key, iss : Issuers]
               \cup [at : {"store"}, key : Key, token : Token]

TypeOK ==
    /\ cfg \in Key /\ saved \in Key
    /\ writing \in {"nothing", "base", "iss"}
    /\ switches \in 0..MaxSwitches
    /\ calls \in [Workers -> Call]
    /\ cache \in [Key -> {Empty} \cup Entry]

Init ==
    /\ cfg \in Key /\ saved = cfg
    /\ writing = "nothing"
    /\ switches = 0
    /\ calls = [w \in Workers |-> Idle]
    /\ cache = [k \in Key |-> Empty]

-----------------------------------------------------------------------------
(* GetOwnerAccessToken                                                       *)

Goto(w, call) == calls' = [calls EXCEPT ![w] = call]

\* The first critical section: a usable entry answers the call, which is then
\* over without a change; a miss starts minting.
Usable(k) == cache[k].ttl > 0
LookUp(w) ==
    /\ calls[w] = Idle
    /\ ~Usable(cfg)
    /\ Goto(w, [at |-> "mint", key |-> cfg])
    /\ UNCHANGED <<cfg, saved, writing, switches, cache>>

\* CreateSatelliteOwnerAccessToken signs for the identity of now (in Vault when
\* the key is there, which takes a round trip).
Mint(w) ==
    /\ calls[w].at = "mint"
    /\ Goto(w, [at |-> "post", key |-> calls[w].key, iss |-> cfg.iss])
    /\ UNCHANGED <<cfg, saved, writing, switches, cache>>

\* ExchangeForAccessToken posts to the endpoint of now, as the client of now;
\* a registry refuses an assertion that is not the client's.
Exchange(w) ==
    /\ calls[w].at = "post"
    /\ calls[w].iss = cfg.iss
    /\ \E left \in Lifetimes, dated \in BOOLEAN :
         Goto(w, [at |-> "store", key |-> calls[w].key,
                  token |-> [base |-> cfg.base, iss |-> cfg.iss,
                             left |-> left, dated |-> dated]])
    /\ UNCHANGED <<cfg, saved, writing, switches, cache>>

\* No key, a refused assertion, a network error, an answer without a token.
Fail(w) ==
    /\ calls[w].at \in {"mint", "post", "store"}
    /\ Goto(w, Idle)
    /\ UNCHANGED <<cfg, saved, writing, switches, cache>>

\* Mutant: the margin is forgotten.
ExpiryWithoutMargin(token) ==
    IF token.dated /\ token.left >= Margin THEN token.left ELSE Fallback

\* accessTokenExpiry: exp minus the margin; the fallback when there is no exp or
\* less than the margin is left.
accessTokenExpiry(token) ==
    IF token.dated /\ token.left >= Margin THEN token.left - Margin ELSE Fallback

EntryFor(token) ==
    [ttl |-> accessTokenExpiry(token), token |-> token,
     exact |-> token.dated /\ token.left >= Margin]

\* The second critical section, under the key computed before the exchange.
Store(w) ==
    /\ calls[w].at = "store"
    /\ cache' = [cache EXCEPT ![calls[w].key] = EntryFor(calls[w].token)]
    /\ Goto(w, Idle)
    /\ UNCHANGED <<cfg, saved, writing, switches>>

-----------------------------------------------------------------------------
(* UpdateSettings applies the saved connection to the shared config          *)

SaveConnection(c) ==
    /\ writing = "nothing"
    /\ switches < MaxSwitches
    /\ saved' = c /\ writing' = "base" /\ switches' = switches + 1
    /\ UNCHANGED <<cfg, calls, cache>>

OverlayBase ==
    /\ writing = "base"
    /\ cfg' = [cfg EXCEPT !.base = saved.base] /\ writing' = "iss"
    /\ UNCHANGED <<saved, switches, calls, cache>>

OverlayIss ==
    /\ writing = "iss"
    /\ cfg' = [cfg EXCEPT !.iss = saved.iss] /\ writing' = "nothing"
    /\ UNCHANGED <<saved, switches, calls, cache>>

-----------------------------------------------------------------------------
(* Time                                                                      *)

Less(n) == IF n > 0 THEN n - 1 ELSE 0
Aged(token) == [token EXCEPT !.left = Less(@)]
\* Mutant: entries are kept, whatever time it is.
EntryNeverAges(entry) ==
    IF entry = Empty THEN Empty ELSE [entry EXCEPT !.token = Aged(@)]
\* An entry whose time is up is never read again: it may as well be gone.
EntryAged(entry) ==
    IF entry.ttl <= 1 THEN Empty
    ELSE [entry EXCEPT !.ttl = Less(@), !.token = Aged(@)]

Tick ==
    /\ cache' = [k \in Key |-> EntryAged(cache[k])]
    /\ calls' = [w \in Workers |->
                   IF calls[w].at = "store"
                   THEN [calls[w] EXCEPT !.token = Aged(@)] ELSE calls[w]]
    /\ UNCHANGED <<cfg, saved, writing, switches>>

Next ==
    \/ \E w \in Workers :
         LookUp(w) \/ Mint(w) \/ Exchange(w) \/ Fail(w) \/ Store(w)
    \/ \E c \in Key : SaveConnection(c)
    \/ OverlayBase \/ OverlayIss
    \/ Tick

Spec == Init /\ [][Next]_vars
\* Time passes. Nothing is assumed of the calls: their HTTP clients have no
\* timeout, so an exchange may hang for ever.
FairSpec == Spec /\ WF_vars(Tick)

-----------------------------------------------------------------------------
(* Properties                                                                *)

Matches(k) == cache[k].token.base = k.base /\ cache[k].token.iss = k.iss

\* A cached token whose expiry is known is handed out only while it has at
\* least 30 seconds left, whenever it was stored and however long that took.
MarginIsKept ==
    \A k \in Key :
      (Usable(k) /\ cache[k].exact) => cache[k].token.left > Margin

\* However a change of the connection crossed the calls in progress, a token
\* filed under the wrong endpoint or identity is in the end no longer served:
\* it expires, and a call that starts later files its token where it belongs.
StrayTokensFade == <>[](\A k \in Key : Usable(k) => Matches(k))

\* The cache holds tokens of the right shape, and with their margin.
CacheIsSound == TypeOK /\ MarginIsKept
=============================================================================
