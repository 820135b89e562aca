------------------------------ MODULE AuthKeys ------------------------------
(* The signing keys the backend accepts bearer tokens under.                 *)
(*                                                                           *)
(* Auth looks the key id of a token up in a cache of the realm's published   *)
(* keys. On a miss the request fetches the key set, replaces the cache and   *)
(* looks again; every request on its own, so answers can arrive in another   *)
(* order than they were given in. The realm rotates its keys meanwhile.      *)
EXTENDS Naturals, FiniteSets

CONSTANTS
    Requests,       \* clients that send requests
    Kids,           \* key ids the realm uses over time
    NoKid,
    MaxRotations    \* bound: how often the realm rotates

ASSUME RotationsBound == MaxRotations \in Nat

VARIABLES
    published,      \* the realm's key set (external)
    signing,        \* the key the realm signs tokens with (external)
    rotations,
    keys,           \* jwksCache.keys
    reqs            \* request -> where it is, its token's key id, the answer

keyVars == <<published, signing, rotations, keys, reqs>>

NoRequest == [at |-> "idle", kid |-> NoKid, answer |-> {}]
Request == {NoRequest} \cup [at : {"get", "fetch", "again"}, kid : Kids, answer : {{}}]
                  \cup [at : {"install"}, kid : Kids, answer : SUBSET Kids]

KeysTypeOK ==
    /\ published \in SUBSET Kids /\ signing \in published
    /\ rotations \in 0..MaxRotations
    /\ keys \subseteq Kids
    /\ reqs \in [Requests -> Request]

\* newJWKSCache fetches once; when that fails the cache starts out empty and
\* the first request fetches.
KeysInit ==
    /\ \E k \in Kids : published = {k} /\ signing = k
    /\ rotations = 0
    /\ keys \in {{}, published}
    /\ reqs = [r \in Requests |-> NoRequest]

-----------------------------------------------------------------------------
(* Keyfunc                                                                   *)

MoveTo(r, q) == reqs' = [reqs EXCEPT ![r] = q]

\* A client gets a token from the realm and sends a request with it.
Arrive(r) ==
    /\ reqs[r] = NoRequest
    /\ MoveTo(r, [at |-> "get", kid |-> signing, answer |-> {}])
    /\ UNCHANGED <<published, signing, rotations, keys>>

\* The first look: a known key validates the token, else the keys are fetched.
Get(r) ==
    /\ reqs[r].at = "get"
    /\ MoveTo(r, IF reqs[r].kid \in keys THEN NoRequest ELSE [reqs[r] EXCEPT !.at = "fetch"])
    /\ UNCHANGED <<published, signing, rotations, keys>>

\* refresh: the realm answers with its keys, or with none that can be used ...
Fetch(r) ==
    /\ reqs[r].at = "fetch"
    /\ \E answer \in {published, {}} :
         MoveTo(r, [reqs[r] EXCEPT !.at = "install", !.answer = answer])
    /\ UNCHANGED <<published, signing, rotations, keys>>

\* ... or not at all, within the client's 10 seconds: the request is refused.
FetchFails(r) ==
    /\ reqs[r].at = "fetch"
    /\ MoveTo(r, NoRequest)
    /\ UNCHANGED <<published, signing, rotations, keys>>

\* Mutant: an empty answer is installed as well.
InstallAnything(r) ==
    /\ reqs[r].at = "install"
    /\ keys' = reqs[r].answer
    /\ MoveTo(r, [reqs[r] EXCEPT !.at = "again", !.answer = {}])
    /\ UNCHANGED <<published, signing, rotations>>

\* Mutant: the first answer is kept for good.
InstallOnce(r) ==
    /\ reqs[r].at = "install"
    /\ keys' = IF keys = {} THEN reqs[r].answer ELSE keys
    /\ MoveTo(r, [reqs[r] EXCEPT !.at = "again", !.answer = {}])
    /\ UNCHANGED <<published, signing, rotations>>

\* The answer replaces the cache under the write lock, unless it is empty.
Install(r) ==
    /\ reqs[r].at = "install"
    /\ IF reqs[r].answer = {}
       THEN UNCHANGED keys /\ MoveTo(r, NoRequest)
       ELSE /\ keys' = reqs[r].answer
            /\ MoveTo(r, [reqs[r] EXCEPT !.at = "again", !.answer = {}])
    /\ UNCHANGED <<published, signing, rotations>>

\* The second look decides: the token is validated or refused.
GetAgain(r) ==
    /\ reqs[r].at = "again"
    /\ MoveTo(r, NoRequest)
    /\ UNCHANGED <<published, signing, rotations, keys>>

-----------------------------------------------------------------------------
(* The realm                                                                 *)

Rotate(k) ==
    /\ rotations < MaxRotations
    /\ published' = published \cup {k} /\ signing' = k
    /\ rotations' = rotations + 1
    /\ UNCHANGED <<keys, reqs>>

Withdraw(k) ==
    /\ k \in published \ {signing}
    /\ published' = published \ {k}
    /\ UNCHANGED <<signing, rotations, keys, reqs>>

Validate(r) == Get(r) \/ Fetch(r) \/ FetchFails(r) \/ Install(r) \/ GetAgain(r)
KeysNext ==
    \/ \E r \in Requests : Arrive(r) \/ Validate(r)
    \/ \E k \in Kids : Rotate(k) \/ Withdraw(k)

KeysSpec == KeysInit /\ [][KeysNext]_keyVars
\* A request that is being validated goes on: goroutines are scheduled and the
\* key set's HTTP client gives up after 10 seconds.
FairKeysSpec == KeysSpec /\ \A r \in Requests : WF_keyVars(Validate(r))

-----------------------------------------------------------------------------
(* Properties                                                                *)

\* The backend that has learned keys once never locks everybody out: whatever
\* the realm answers and in which order, some key stays accepted.
SomeKeyStays == [][keys # {} => keys' # {}]_keyVars

Refused(r) == reqs[r].at = "again" /\ reqs[r].kid \notin keys

\* An answer from before a rotation can overtake a newer one and make requests
\* with a valid token fail, but only for a while: once the realm has stopped
\* rotating, no token is refused any more after the keys have been fetched.
NewKeysAreLearned == <>[](\A r \in Requests : ~Refused(r))

\* The cache and the requests have their shape, and the cache is never emptied.
KeysAreKept == []KeysTypeOK /\ SomeKeyStays
=============================================================================
