---------------------------- MODULE AgreementDocs ----------------------------
(* The copies of one agreement that lives at a URL.                          *)
(*                                                                           *)
(* DownloadAgreementDocument answers from a cache in memory or fetches the   *)
(* document and stores the copy. Editing or removing the agreement saves the *)
(* entry and then drops the copy. Downloads, edits and changes of the        *)
(* document at its source interleave; only the cache accesses hold the lock. *)
(*                                                                           *)
(* Time is counted in ticks of 30 seconds.                                   *)
EXTENDS Naturals

CONSTANTS
    Workers,        \* downloads in progress at the same time
    Urls,
    Gone,           \* the entry has been removed
    Editions,       \* what the source of a URL serves, one after the other
    agreementDocTTL,    \* 5 minutes are 10 ticks
    Timeout         \* a fetch gives up after 30 s, a token before it too

ASSUME Durations == agreementDocTTL \in Nat \ {0} /\ Timeout \in Nat
ASSUME EditionsAreCounted == Editions \subseteq Nat /\ 0 \in Editions

VARIABLES
    entry,          \* the URL in the settings row, or Gone
    upstream,       \* URL -> the edition its source serves (external)
    dropping,       \* the entry was saved and the copy not yet dropped
    cache,          \* the copy, or Empty
    fetches,        \* worker -> where its download is
    calm            \* history: ticks since the entry or its source changed

vars == <<entry, upstream, dropping, cache, fetches, calm>>

Doc == [url : Urls, edition : Editions]
Empty == [ttl |-> 0]
Idle == [at |-> "idle", age |-> 0]
\* No copy outlives a change by more than this.
Bound == agreementDocTTL + Timeout

TypeOK ==
    /\ entry \in Urls \cup {Gone}
    /\ upstream \in [Urls -> Editions]
    /\ dropping \in BOOLEAN
    /\ cache \in {Empty} \cup [ttl : 0..agreementDocTTL, doc : Doc]
    /\ fetches \in [Workers ->
         {Idle} \cup [at : {"look", "fetch"}, age : 0..Timeout, url : Urls]
                \cup [at : {"store"}, age : 0..Timeout, doc : Doc]]
    /\ calm \in 0..(Bound + 1)

Init ==
    /\ entry \in Urls
    /\ upstream = [u \in Urls |-> 0]
    /\ dropping = FALSE
    /\ cache = Empty
    /\ fetches = [w \in Workers |-> Idle]
    /\ calm = 0

-----------------------------------------------------------------------------
(* DownloadAgreementDocument                                                 *)

Usable == cache.ttl > 0
Goto(w, f) == fetches' = [fetches EXCEPT ![w] = f]

\* The entry is read first ...
LoadEntry(w) ==
    /\ fetches[w] = Idle /\ entry # Gone
    /\ Goto(w, [at |-> "look", age |-> 0, url |-> entry])
    /\ UNCHANGED <<entry, upstream, dropping, cache, calm>>

\* Mutant: a hit keeps the copy alive.
HitSlides(w) ==
    /\ fetches[w].at = "look" /\ Usable
    /\ Goto(w, Idle)
    /\ cache' = [cache EXCEPT !.ttl = agreementDocTTL]
    /\ UNCHANGED <<entry, upstream, dropping, calm>>

\* ... then the cache: a usable copy answers, otherwise the URL is fetched.
CacheHit(w) ==
    /\ fetches[w].at = "look" /\ Usable
    /\ Goto(w, Idle)
    /\ UNCHANGED <<entry, upstream, dropping, cache, calm>>

CacheMiss(w) ==
    /\ fetches[w].at = "look" /\ ~Usable
    /\ Goto(w, [fetches[w] EXCEPT !.at = "fetch"])
    /\ UNCHANGED <<entry, upstream, dropping, cache, calm>>

\* fetchAgreementURL: the source answers the URL that was read, or not at all.
Fetched(w) ==
    /\ fetches[w].at = "fetch"
    /\ LET url == fetches[w].url
       IN  Goto(w, [at |-> "store", age |-> fetches[w].age,
                    doc |-> [url |-> url, edition |-> upstream[url]]])
    /\ UNCHANGED <<entry, upstream, dropping, cache, calm>>

FetchFails(w) ==
    /\ fetches[w].at = "fetch"
    /\ Goto(w, Idle)
    /\ UNCHANGED <<entry, upstream, dropping, cache, calm>>

\* storeAgreementDoc, under the agreement's id.
Store(w) ==
    /\ fetches[w].at = "store"
    /\ cache' = [ttl |-> agreementDocTTL, doc |-> fetches[w].doc]
    /\ Goto(w, Idle)
    /\ UNCHANGED <<entry, upstream, dropping, calm>>

-----------------------------------------------------------------------------
(* UpdateAgreement and DeleteAgreement: save, then invalidateAgreementDoc    *)

SaveEntry(url) ==
    /\ ~dropping /\ entry # Gone
    /\ entry' = url /\ dropping' = TRUE /\ calm' = 0
    /\ UNCHANGED <<upstream, cache, fetches>>

DropCopy ==
    /\ dropping
    /\ dropping' = FALSE /\ cache' = Empty
    /\ UNCHANGED <<entry, upstream, fetches, calm>>

-----------------------------------------------------------------------------
(* Around it                                                                 *)

SourceChanges(u) ==
    /\ upstream[u] + 1 \in Editions
    /\ upstream' = [upstream EXCEPT ![u] = @ + 1]
    /\ calm' = 0
    /\ UNCHANGED <<entry, dropping, cache, fetches>>

\* The cache is in memory.
Restart ==
    /\ cache' = Empty /\ dropping' = FALSE
    /\ fetches' = [w \in Workers |-> Idle]
    /\ UNCHANGED <<entry, upstream, calm>>

\* No download outlives the timeouts of its fetch; what the handler does itself
\* takes no time beside that.
Tick ==
    /\ \A w \in Workers : fetches[w] # Idle => fetches[w].age < Timeout
    /\ fetches' = [w \in Workers |->
         IF fetches[w] = Idle THEN Idle ELSE [fetches[w] EXCEPT !.age = @ + 1]]
    /\ cache' = IF cache.ttl <= 1 THEN Empty ELSE [cache EXCEPT !.ttl = @ - 1]
    /\ calm' = IF calm > Bound THEN calm ELSE calm + 1
    /\ UNCHANGED <<entry, upstream, dropping>>

Next ==
    \/ \E w \in Workers :
         \/ LoadEntry(w) \/ CacheHit(w) \/ CacheMiss(w)
         \/ Fetched(w) \/ FetchFails(w) \/ Store(w)
    \/ \E u \in Urls \cup {Gone} : SaveEntry(u)
    \/ DropCopy
    \/ \E u \in Urls : SourceChanges(u)
    \/ Restart \/ Tick

Spec == Init /\ [][Next]_vars

-----------------------------------------------------------------------------
(* Properties                                                                *)

Current == [url |-> entry, edition |-> upstream[entry]]

\* Once the entry and its source have been left alone for the life of a copy
\* and of a fetch, an applicant reads the document as it is at its source,
\* however downloads, edits and the dropping of the copy interleaved.
OldCopiesAreGone ==
    (calm > Bound /\ entry # Gone /\ Usable) => cache.doc = Current

\* The cache and the downloads have their shape, and copies do not outlive their time.
CopiesAreCurrent == TypeOK /\ OldCopiesAreGone
=============================================================================
