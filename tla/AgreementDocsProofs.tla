------------------------- MODULE AgreementDocsProofs -------------------------
(* No copy of a document outlives its time, for any number of downloads, URLs *)
(* and editions, and whatever the lives of a copy and of a fetch are.         *)
EXTENDS AgreementDocs, TLAPS

\* Whoever holds something older than the last change has held it since before.
LookFits(f) == f.url # entry => calm <= f.age
StoreFits(f) == f.doc # Current => calm <= f.age
FetchFits(f) ==
    /\ f.at \in {"look", "fetch"} => LookFits(f)
    /\ f.at = "store" => StoreFits(f)

\* An old copy was stored by a fetch of before the change: what it has left, beside
\* the time since the change, is no more than the life of both.
CopyFits == Usable /\ cache.doc # Current => calm + cache.ttl <= Bound

IInv ==
    /\ TypeOK
    /\ entry # Gone => CopyFits /\ \A w \in Workers : FetchFits(fetches[w])

Holding == [at : {"look", "fetch"}, age : 0..Timeout, url : Urls]
Storing == [at : {"store"}, age : 0..Timeout, doc : Doc]

-----------------------------------------------------------------------------
\* The durations are numbers.
LEMMA Numbers ==
    /\ agreementDocTTL \in Nat \ {0} /\ Timeout \in Nat /\ Bound \in Nat
    /\ Bound = agreementDocTTL + Timeout
BY Durations DEF Bound

\* What a request holds at each stage.
LEMMA FetchIs ==
    ASSUME TypeOK, NEW w \in Workers
    PROVE  /\ fetches[w] \in {Idle} \cup Holding \cup Storing
           /\ fetches[w].at \in {"look", "fetch"} => fetches[w] \in Holding
           /\ fetches[w].at = "store" => fetches[w] \in Storing
           /\ fetches[w].at = "idle" <=> fetches[w] = Idle
BY DEF TypeOK, Holding, Storing, Idle

\* A download goes on, or is over, and nothing else happens.
LEMMA GoingOn ==
    ASSUME IInv, NEW w \in Workers, NEW f \in {Idle} \cup Holding \cup Storing,
           Goto(w, f), UNCHANGED <<entry, upstream, dropping, cache, calm>>,
           entry # Gone => FetchFits(f)
    PROVE  IInv'
<1>1. TypeOK'
  BY DEF IInv, TypeOK, Goto, Holding, Storing
<1>2. \A v \in Workers : fetches'[v] \in {fetches[v], f}
  BY DEF IInv, TypeOK, Goto
<1>3. entry # Gone => CopyFits' /\ \A v \in Workers : FetchFits(fetches[v])'
  BY <1>2 DEF IInv, CopyFits, FetchFits, LookFits, StoreFits, Usable, Current
<1> QED BY <1>1, <1>3 DEF IInv

\* A change starts the time of what is held.
LEMMA ChangedFits ==
    ASSUME IInv, calm' = 0, UNCHANGED <<cache, fetches>>, TypeOK'
    PROVE  IInv'
<1>1. CopyFits'
  <2>1. cache.ttl \in 0..agreementDocTTL
    BY Numbers DEF IInv, TypeOK, Empty
  <2> QED BY <2>1, Numbers DEF CopyFits
<1>2. ASSUME NEW w \in Workers PROVE FetchFits(fetches[w])'
  <2>1. fetches[w].age \in Nat
    BY Numbers DEF IInv, TypeOK, Idle
  <2> QED BY <2>1 DEF FetchFits, LookFits, StoreFits
<1> QED BY <1>1, <1>2 DEF IInv

\* Nothing is cached at first.
LEMMA InitIInv == Init => IInv
<1> SUFFICES ASSUME Init PROVE IInv
  OBVIOUS
<1>1. calm \in 0..(Bound + 1) /\ upstream \in [Urls -> Editions]
  BY Numbers, EditionsAreCounted DEF Init
<1>2. TypeOK
  BY <1>1 DEF Init, TypeOK
<1>3. CopyFits /\ \A w \in Workers : FetchFits(fetches[w])
  BY DEF Init, CopyFits, Usable, Empty, FetchFits, Idle
<1> QED BY <1>2, <1>3 DEF IInv

\* A tick of the clock: what is held grows as old as the change does.
LEMMA TickStep == ASSUME IInv, Tick PROVE IInv'
<1> USE Numbers
<1>1. TypeOK
  BY DEF IInv
<1>2. UNCHANGED <<entry, upstream, dropping>> /\ calm \in 0..(Bound + 1) /\ calm' \in 0..(Bound + 1)
      /\ calm' <= calm + 1
  BY <1>1 DEF TypeOK, Tick
<1>3. ASSUME NEW w \in Workers, fetches[w] # Idle
      PROVE  /\ fetches'[w] = [fetches[w] EXCEPT !.age = fetches[w].age + 1]
             /\ fetches[w].age < Timeout
  BY <1>3 DEF Tick
<1>4. ASSUME NEW w \in Workers
      PROVE  /\ fetches'[w] \in {Idle} \cup Holding \cup Storing
             /\ entry # Gone => FetchFits(fetches[w])'
  <2>1. CASE fetches[w] = Idle
    <3>1. fetches'[w] = Idle
      BY <2>1 DEF Tick
    <3> QED BY <3>1 DEF FetchFits, Idle
  <2>2. CASE fetches[w] \in Holding
    <3> DEFINE n == fetches[w].age + 1
               f == [fetches[w] EXCEPT !.age = n]
    <3>1. fetches'[w] = f /\ n \in 0..Timeout /\ fetches[w].age \in Nat
      BY <1>3, <2>2 DEF Holding, Idle
    <3>2. f \in Holding /\ f.age = n /\ f.url = fetches[w].url
      BY <2>2, <3>1 DEF Holding
    <3>3. entry # Gone => LookFits(fetches[w])
      BY <2>2 DEF IInv, FetchFits, Holding
    <3>4. entry # Gone /\ fetches'[w].url # entry => calm' <= fetches'[w].age
      BY <1>2, <3>1, <3>2, <3>3 DEF LookFits
    <3>5. fetches'[w].at # "store"
      BY <3>1, <3>2 DEF Holding
    <3> QED BY <1>2, <3>1, <3>2, <3>4, <3>5 DEF FetchFits, LookFits
  <2>3. CASE fetches[w] \in Storing
    <3> DEFINE n == fetches[w].age + 1
               f == [fetches[w] EXCEPT !.age = n]
    <3>1. fetches'[w] = f /\ n \in 0..Timeout /\ fetches[w].age \in Nat
      BY <1>3, <2>3 DEF Storing, Idle
    <3>2. f \in Storing /\ f.age = n /\ f.doc = fetches[w].doc
      BY <2>3, <3>1 DEF Storing
    <3>3. entry # Gone => StoreFits(fetches[w])
      BY <2>3 DEF IInv, FetchFits, Storing
    <3>4. entry # Gone /\ fetches'[w].doc # Current => calm' <= fetches'[w].age
      BY <1>2, <3>1, <3>2, <3>3 DEF StoreFits
    <3>5. fetches'[w].at = "store" /\ Current' = Current
      BY <1>2, <3>1, <3>2 DEF Storing, Current
    <3> QED BY <1>2, <3>1, <3>2, <3>4, <3>5 DEF FetchFits, StoreFits
  <2> QED BY <1>1, <2>1, <2>2, <2>3, FetchIs
<1>5. CASE cache.ttl <= 1
  <2>1. cache' = Empty
    BY <1>5 DEF Tick
  <2>2. TypeOK'
    BY <1>1, <1>2, <1>4, <2>1 DEF TypeOK, Tick, Holding, Storing
  <2>3. CopyFits'
    BY <2>1 DEF CopyFits, Usable, Empty
  <2> QED BY <1>2, <1>4, <2>2, <2>3 DEF IInv
<1>6. CASE ~(cache.ttl <= 1)
  <2> DEFINE n == cache.ttl - 1
             c == [cache EXCEPT !.ttl = n]
  <2>1. cache \in [ttl : 0..agreementDocTTL, doc : Doc] /\ cache' = c
    BY <1>1, <1>6 DEF TypeOK, Empty, Tick
  <2>2. n \in 0..agreementDocTTL /\ cache.ttl \in Nat /\ cache.ttl > 0
    BY <1>6, <2>1
  <2>3. c \in [ttl : 0..agreementDocTTL, doc : Doc] /\ c.ttl = n /\ c.doc = cache.doc
    BY <2>1, <2>2
  <2>4. TypeOK'
    BY <1>1, <1>2, <1>4, <2>1, <2>3 DEF TypeOK, Tick, Holding, Storing
  <2>5. entry # Gone => CopyFits'
    <3>1. entry # Gone /\ cache.doc # Current => calm + cache.ttl <= Bound
      BY <2>2 DEF IInv, CopyFits, Usable
    <3>2. entry # Gone /\ cache.doc # Current => calm' + n <= Bound
      BY <1>2, <2>2, <3>1
    <3>3. Current' = Current
      BY <1>2 DEF Current
    <3> QED BY <2>1, <2>3, <3>2, <3>3 DEF CopyFits
  <2> QED BY <1>2, <1>4, <2>4, <2>5 DEF IInv
<1> QED BY <1>5, <1>6

\* Every step keeps the copies and the requests within their time.
LEMMA IInvStep == IInv /\ [Next]_vars => IInv'
<1> SUFFICES ASSUME IInv, [Next]_vars PROVE IInv'
  OBVIOUS
<1> USE Numbers
<1>1. TypeOK
  BY DEF IInv
<1>2. ASSUME NEW w \in Workers, LoadEntry(w) PROVE IInv'
  <2> DEFINE f == [at |-> "look", age |-> 0, url |-> entry]
  <2>1. f \in Holding /\ FetchFits(f)
    BY <1>1, <1>2 DEF TypeOK, Holding, LoadEntry, FetchFits, LookFits
  <2> QED BY <1>2, <2>1, GoingOn DEF LoadEntry
<1>3. ASSUME NEW w \in Workers, CacheHit(w) \/ FetchFails(w) PROVE IInv'
  <2>1. FetchFits(Idle)
    BY DEF FetchFits, Idle
  <2> QED BY <1>3, <2>1, GoingOn DEF CacheHit, FetchFails
<1>4. ASSUME NEW w \in Workers, CacheMiss(w) PROVE IInv'
  <2> DEFINE f == [fetches[w] EXCEPT !.at = "fetch"]
  <2>1. fetches[w] \in Holding /\ Goto(w, f)
    BY <1>1, <1>4, FetchIs DEF CacheMiss
  <2>2. f \in Holding /\ f.url = fetches[w].url /\ f.age = fetches[w].age /\ f.at = "fetch"
    BY <2>1 DEF Holding
  <2>3. entry # Gone => FetchFits(f)
    BY <1>4, <2>2 DEF IInv, FetchFits, LookFits, CacheMiss
  <2> QED BY <1>4, <2>1, <2>2, <2>3, GoingOn DEF CacheMiss
<1>5. ASSUME NEW w \in Workers, Fetched(w) PROVE IInv'
  <2> DEFINE u == fetches[w].url
             d == [url |-> u, edition |-> upstream[u]]
             f == [at |-> "store", age |-> fetches[w].age, doc |-> d]
  <2>1. fetches[w] \in Holding /\ Goto(w, f) /\ fetches[w].at = "fetch"
    BY <1>1, <1>5, FetchIs DEF Fetched
  <2>2. f \in Storing /\ (u = entry => d = Current)
    BY <1>1, <2>1 DEF Holding, Storing, TypeOK, Doc, Current
  <2>3. entry # Gone => FetchFits(f)
    BY <2>1, <2>2 DEF IInv, FetchFits, LookFits, StoreFits
  <2> QED BY <1>5, <2>1, <2>2, <2>3, GoingOn DEF Fetched
<1>6. ASSUME NEW w \in Workers, Store(w) PROVE IInv'
  <2>1. fetches[w] \in Storing /\ fetches[w].at = "store"
    BY <1>1, <1>6, FetchIs DEF Store
  <2>2. /\ cache' = [ttl |-> agreementDocTTL, doc |-> fetches[w].doc] /\ Goto(w, Idle)
        /\ UNCHANGED <<entry, upstream, dropping, calm>>
    BY <1>6 DEF Store
  <2>3. TypeOK'
    BY <1>1, <2>1, <2>2 DEF TypeOK, Storing, Goto
  <2>4. entry # Gone => CopyFits'
    <3>1. entry # Gone /\ fetches[w].doc # Current => calm <= Timeout
      BY <1>1, <2>1 DEF IInv, FetchFits, StoreFits, Storing, TypeOK
    <3>2. calm \in Nat /\ cache'.ttl = agreementDocTTL /\ cache'.doc = fetches[w].doc
          /\ Current' = Current /\ calm' = calm
      BY <1>1, <2>2 DEF TypeOK, Current
    <3>3. entry # Gone /\ fetches[w].doc # Current => calm' + cache'.ttl <= Bound
      BY <3>1, <3>2
    <3> QED BY <3>2, <3>3 DEF CopyFits
  <2>5. \A v \in Workers : fetches'[v] \in {fetches[v], Idle}
    BY <1>1, <2>2 DEF TypeOK, Goto
  <2>6. entry # Gone => \A v \in Workers : FetchFits(fetches[v])'
    BY <2>2, <2>5 DEF IInv, FetchFits, LookFits, StoreFits, Current, Idle
  <2> QED BY <2>2, <2>3, <2>4, <2>6 DEF IInv
<1>7. ASSUME NEW u \in Urls \cup {Gone}, SaveEntry(u) PROVE IInv'
  <2>1. TypeOK'
    BY <1>1, <1>7 DEF TypeOK, SaveEntry
  <2> QED BY <1>7, <2>1, ChangedFits DEF SaveEntry
<1>8. ASSUME NEW u \in Urls, SourceChanges(u) PROVE IInv'
  <2>1. TypeOK'
    BY <1>1, <1>8 DEF TypeOK, SourceChanges
  <2> QED BY <1>8, <2>1, ChangedFits DEF SourceChanges
<1>9. CASE DropCopy
  <2>1. TypeOK'
    BY <1>1, <1>9 DEF TypeOK, DropCopy
  <2>2. CopyFits'
    BY <1>9 DEF DropCopy, CopyFits, Usable, Empty
  <2> QED BY <1>9, <2>1, <2>2 DEF IInv, DropCopy, FetchFits, LookFits, StoreFits, Current
<1>10. CASE Restart
  <2>1. TypeOK'
    BY <1>1, <1>10 DEF TypeOK, Restart
  <2>2. CopyFits'
    BY <1>10 DEF Restart, CopyFits, Usable, Empty
  <2> QED BY <1>10, <2>1, <2>2 DEF IInv, Restart, FetchFits, Idle
<1>11. CASE UNCHANGED vars
  BY <1>11 DEF IInv, TypeOK, CopyFits, FetchFits, LookFits, StoreFits, Current, Usable, vars
<1> QED BY <1>2, <1>3, <1>4, <1>5, <1>6, <1>7, <1>8, <1>9, <1>10, <1>11, TickStep DEF Next

\* Once an agreement and its source have been left alone for the lives of a copy and
\* of a fetch, whoever downloads it reads what the source has.
THEOREM DocsAreCurrent == Spec => []CopiesAreCurrent
<1>1. IInv => CopiesAreCurrent
  <2> SUFFICES ASSUME IInv PROVE CopiesAreCurrent
    OBVIOUS
  <2>1. calm \in Nat /\ (Usable => cache.ttl \in Nat)
    BY Numbers DEF IInv, TypeOK, Usable, Empty
  <2>2. OldCopiesAreGone
    BY <2>1, Numbers DEF IInv, OldCopiesAreGone, CopyFits, Usable
  <2> QED BY <2>2 DEF IInv, CopiesAreCurrent
<1> QED BY <1>1, InitIInv, IInvStep, PTL DEF Spec
=============================================================================
