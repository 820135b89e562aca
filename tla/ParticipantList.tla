--------------------------- MODULE ParticipantList ---------------------------
(* The participants page (pages/participants.tsx): the query the             *)
(* administrator builds, the requests it sends, the rows on screen, and the  *)
(* two module-level stores of util/participantCache.ts that outlive a visit. *)
(* An answer is modelled by the query it answers, the pages it counts and    *)
(* whether it has rows; what the rows say is not.                            *)
EXTENDS Naturals, Sequences, FiniteSets

CONSTANTS
    Terms,          \* what the search box may hold, trimmed
    Filters,        \* values of the role and ownership selects
    NoTerm, DefaultFilter,
    Sizes,          \* rows that may fit the viewport
    MaxPages,       \* bound: pages of an answer
    CacheMax,       \* LIST_CACHE_MAX
    MaxRequests     \* bound: requests of one visit

\* Assumed of the constants (Console).
ListAssumption ==
    /\ NoTerm \in Terms /\ DefaultFilter \in Filters
    /\ Sizes \subseteq Nat \ {0}
    /\ {MaxPages, CacheMax, MaxRequests} \subseteq Nat \ {0}

VARIABLES
    list,           \* the mounted page, or Closed
    asked,          \* its requests under way
    listCache,      \* answers by query, oldest first
    listState       \* the view remembered between visits

vars == <<list, asked, listCache, listState>>

-----------------------------------------------------------------------------
Query == [page : 1..MaxPages, size : Sizes, term : Terms, filter : Filters]
Answer == [query : Query, total : 1..MaxPages, some : BOOLEAN]  \* some: any rows at all
Closed == [open |-> FALSE]
NoRows == [none |-> TRUE]
View == [page : 1..MaxPages, term : Terms, search : Terms, filter : Filters]
FirstView == [page |-> 1, term |-> NoTerm, search |-> NoTerm, filter |-> DefaultFilter]

\* size = 0: useFitRows has not measured the table yet.
Page == [open : {TRUE}, view : View, size : Sizes \cup {0}, debounce : BOOLEAN,
         rows : {NoRows} \cup Answer, total : 1..MaxPages,
         loading : BOOLEAN, error : BOOLEAN, req : 0..MaxRequests]
\* cached: the rows of the cache were on screen when it was sent; orphan: its
\* page has been left.
Request == [req : 1..MaxRequests, query : Query, cached : BOOLEAN, orphan : BOOLEAN]

QueryOf(l) == [page |-> l.view.page, size |-> l.size, term |-> l.view.term,
               filter |-> l.view.filter]
Hit(q) == {i \in DOMAIN listCache : listCache[i].query = q}

cacheParticipantsList(answer) ==
    LET hit == Hit(answer.query)
        kept == IF hit = {} /\ Len(listCache) >= CacheMax THEN Tail(listCache)
                                                          ELSE listCache
    IN listCache' = IF hit = {} THEN Append(kept, answer)
                    ELSE [i \in DOMAIN listCache |->
                             IF i \in hit THEN answer ELSE listCache[i]]

\* What load() puts on screen before it waits: the cached answer, or nothing.
Shown(l) ==
    LET hit == Hit(QueryOf(l))
    IN IF hit # {}
       THEN LET a == listCache[CHOOSE i \in hit : TRUE]
            IN [l EXCEPT !.rows = a, !.total = a.total, !.loading = FALSE,
                         !.error = FALSE, !.req = @ + 1]
       ELSE [l EXCEPT !.rows = NoRows, !.total = 1, !.loading = TRUE,
                      !.error = FALSE, !.req = @ + 1]

\* The page after an event: the view is remembered, and load() runs when the
\* query is not the one of the last load, or when it is asked for.
load(l) ==
    /\ l.req < MaxRequests
    /\ list' = Shown(l)
    /\ asked' = asked \cup
         {[req |-> l.req + 1, query |-> QueryOf(l), cached |-> Hit(QueryOf(l)) # {},
           orphan |-> FALSE]}
Rendered(l) ==
    /\ listState' = l.view
    /\ IF QueryOf(l) # QueryOf(list) /\ l.size # 0
       THEN load(l)
       ELSE list' = l /\ UNCHANGED asked

-----------------------------------------------------------------------------
Enter ==
    /\ list = Closed
    /\ list' = [open |-> TRUE, view |-> listState, size |-> 0, debounce |-> FALSE,
                rows |-> NoRows, total |-> 1, loading |-> TRUE, error |-> FALSE, req |-> 0]
    /\ UNCHANGED <<asked, listCache, listState>>

\* Only the newest request of a page left still writes the caches.
Leave ==
    /\ list # Closed
    /\ asked' = {[c EXCEPT !.orphan = TRUE] :
                    c \in {d \in asked : d.orphan \/ d.req = list.req}}
    /\ list' = Closed
    /\ UNCHANGED <<listCache, listState>>

\* useFitRows: the first measurement keeps the restored page, a later one
\* goes back to page 1.
Measure(n) ==
    /\ list # Closed /\ list.size # n
    /\ Rendered([list EXCEPT !.size = n, !.view.page = IF list.size = 0 THEN @ ELSE 1])
    /\ UNCHANGED listCache

Type(text) ==
    /\ list # Closed /\ list.view.search # text
    /\ Rendered([list EXCEPT !.view.search = text, !.debounce = TRUE])
    /\ UNCHANGED listCache

\* SEARCH_DEBOUNCE_MS after the last key.
ApplyTerm ==
    /\ list # Closed /\ list.debounce
    /\ Rendered([list EXCEPT !.view.term = list.view.search, !.view.page = 1,
                             !.debounce = FALSE])
    /\ UNCHANGED listCache

\* changeFilter, changeRole: the selects are disabled while a load is shown.
ChangeFilter(f) ==
    /\ list # Closed /\ ~list.loading /\ list.view.filter # f
    /\ Rendered([list EXCEPT !.view.filter = f, !.view.page = 1])
    /\ UNCHANGED listCache

GoToPage(n) ==
    /\ list # Closed /\ list.rows # NoRows /\ list.rows.some
    /\ n \in 1..list.total /\ n # list.view.page
    /\ Rendered([list EXCEPT !.view.page = n])
    /\ UNCHANGED listCache

Refresh ==
    /\ list # Closed /\ ~list.loading /\ list.size # 0
    /\ load(list)
    /\ UNCHANGED <<listCache, listState>>

\* Mutant: every answer counts.
AnyAnswer(c) == TRUE
\* reqId === reqIdRef.current
IsNewest(c) == c.orphan \/ c.req = list.req

Answered(c, answer) ==
    /\ c \in asked
    /\ asked' = asked \ {c}
    /\ UNCHANGED listState
    /\ IF ~IsNewest(c) THEN UNCHANGED <<list, listCache>>
       ELSE /\ cacheParticipantsList(answer)
            /\ list' = IF c.orphan THEN list
                       ELSE [list EXCEPT !.loading = FALSE, !.total = answer.total,
                                         !.rows = answer]

Failed(c) ==
    /\ c \in asked
    /\ asked' = asked \ {c}
    /\ UNCHANGED <<listState, listCache>>
    /\ list' = IF c.orphan \/ ~IsNewest(c) THEN list
               ELSE IF c.cached THEN [list EXCEPT !.loading = FALSE]
               ELSE [list EXCEPT !.loading = FALSE, !.error = TRUE,
                                 !.rows = NoRows, !.total = 1]

Init ==
    /\ list = Closed /\ asked = {} /\ listCache = <<>> /\ listState = FirstView

Work ==
    \/ Leave \/ ApplyTerm \/ Refresh
    \/ \E n \in Sizes : Measure(n)
    \/ \E text \in Terms : Type(text)
    \/ \E f \in Filters : ChangeFilter(f)
    \/ \E n \in 1..MaxPages : GoToPage(n)
    \/ \E c \in asked : \/ Failed(c)
                        \/ \E total \in 1..MaxPages, some \in BOOLEAN :
                              Answered(c, [query |-> c.query, total |-> total,
                                           some |-> some])

-----------------------------------------------------------------------------
TypeOK ==
    /\ list \in {Closed} \cup Page
    /\ asked \subseteq Request
    /\ listCache \in Seq(Answer) /\ Len(listCache) <= CacheMax
    /\ listState \in View

(* The rows on screen answer the query the controls show, whatever order the *)
(* answers come in and whatever the caches hold ("stale rows staying on      *)
(* screen read as the new filter's answer", load and its comment).           *)
RowsAnswerTheQuery ==
    list # Closed /\ list.rows # NoRows => list.rows.query = QueryOf(list)

(* A page that shows its skeleton, and so keeps its filters and its refresh  *)
(* button disabled, waits for an answer that will be let in.                 *)
SkeletonIsAnswered ==
    list # Closed /\ list.loading /\ list.size # 0
        => \E c \in asked : ~c.orphan /\ c.req = list.req
=============================================================================
