----------------------------- MODULE ResultPages ---------------------------
(***************************************************************************)
(* The pages of search results in the browser.                             *)
(*                                                                         *)
(* The address (the route's query parameters) is the only input of a       *)
(* search: SearchPageComponent fetches whatever it names, and every        *)
(* fetch brings a chunk of ChunkPages pages that starts at its cursor.     *)
(* ResultsWithPaginationComponent puts the chunks into the pagination      *)
(* store, which numbers the pages in the order in which they arrive.       *)
(* A page that is not in the store is asked for by writing the store's     *)
(* next cursor into the address.                                           *)
(*                                                                         *)
(* The component is made anew whenever the user comes to the search page;  *)
(* the store belongs to the application and lives until a reload.          *)
(***************************************************************************)
EXTENDS Naturals, Sequences

CONSTANTS
    Query,       \* everything in the address but the cursor
    Total,       \* Total[q]: number of pages of results that q has
    ChunkPages,  \* max_results_by_page / RESULTS_PER_PAGE
    Moves,         \* which of AllMoves a user makes in this instance
    PatientMoves,  \* those of a user who waits until nothing is being fetched
    MaxMoves,    \* bound on the number of moves
    None

AllMoves == {"search", "repeat", "filter", "click", "back", "leave", "reload", "failure"}

ASSUME ConstantsAssumption ==
    /\ Total \in [Query -> Nat]
    /\ ChunkPages \in Nat \ {0}
    /\ Moves \subseteq AllMoves
    /\ PatientMoves \subseteq AllMoves
    /\ MaxMoves \in Nat
    /\ None \notin Query
    /\ \E q \in Query : \A p \in Query : Total[p] <= Total[q]

VARIABLES
    patient,   \* this user is one who waits
    url,       \* the address: a query and a cursor
    past,      \* the addresses that the Back button leads to
    inflight,  \* the addresses being fetched
    open,      \* the search page is shown
    prev,      \* the component's _prevParamsWithoutCursor
    pageNr,    \* the component's pageNr$
    error,     \* the component's isError
    pages,     \* the store: pages[i] is what page i shows
    current,   \* the store: currentPage
    last,      \* the store: lastPage
    next,      \* the store: nextCursor
    loading,   \* the store: isLoading
    moves      \* number of moves so far

address == <<url, past>>
component == <<open, prev, pageNr, error>>
store == <<pages, current, last, next>>
vars == <<patient, url, past, inflight, open, prev, pageNr, error,
          pages, current, last, next, loading, moves>>

-----------------------------------------------------------------------------
(* Cursors.  A cursor of Solr is a position in the results of one query;   *)
(* with another query it is still taken, and is a position somewhere.      *)
Star == [of |-> None, at |-> 0]

MaxTotal == CHOOSE n \in {Total[q] : q \in Query} : \A q \in Query : Total[q] <= n

Cursor == {Star} \cup [of : Query, at : 0..MaxTotal] \cup {None}

Address == [query : Query, cursor : Cursor]

\* The nr-th page of the results of a query.
PageOf == [query : Query, nr : 1..MaxTotal]

TypeOK ==
    /\ patient \in BOOLEAN
    /\ url \in Address
    /\ past \in Seq(Address)
    /\ inflight \subseteq Address
    /\ open \in BOOLEAN
    /\ prev \in Query \cup {None}
    /\ pageNr \in Nat \ {0}
    /\ error \in BOOLEAN
    /\ pages \in Seq(PageOf)
    /\ current \in Nat \ {0}
    /\ last \in Nat
    /\ next \in Cursor
    /\ loading \in BOOLEAN
    /\ moves \in 0..MaxMoves

Init ==
    /\ patient \in BOOLEAN
    /\ url \in [query : Query, cursor : {Star}]
    /\ past = <<>>
    /\ inflight = {url}
    /\ open = TRUE /\ prev = None /\ pageNr = 1 /\ error = FALSE
    /\ pages = <<>> /\ current = 1 /\ last = 0 /\ next = Star
    /\ loading = TRUE
    /\ moves = 0

\* A new component, and the store after a reload.
MakeComponent == open' = TRUE /\ prev' = None /\ pageNr' = 1 /\ error' = FALSE

MakeStore == pages' = <<>> /\ current' = 1 /\ last' = 0 /\ next' = Star

-----------------------------------------------------------------------------
(* The bar of pages (PaginationComponent).                                 *)
PageMargin == 2
InitialPagesSize == 5

MinOf(a, b) == IF a < b THEN a ELSE b
MaxOf(a, b) == IF a > b THEN a ELSE b

MaxRange(p, lastPage) == MinOf(MaxOf(p + PageMargin, InitialPagesSize), lastPage)

MinRange(p, maxRange) ==
    LET low == IF p <= PageMargin THEN 1 ELSE p - PageMargin
    IN  IF maxRange < low + InitialPagesSize
          THEN IF maxRange < InitialPagesSize THEN 0 ELSE maxRange - InitialPagesSize
          ELSE low

DisplayedPages(p, lastPage) ==
    MinRange(p, MaxRange(p, lastPage)) + 1 .. MaxRange(p, lastPage)

LinksNeverDisabled ==
    DisplayedPages(current, last) \cup {1, current - 1}
        \cup (IF last > current THEN {current + 1} ELSE {})

\* << and < are disabled on page 1, > is shown before the last page.
Links ==
    DisplayedPages(current, last)
        \cup (IF current # 1 THEN {1, current - 1} ELSE {})
        \cup (IF last > current THEN {current + 1} ELSE {})

\* The results of the current page and the bar are shown when the page is in
\* the store and nothing is loading.
BarIsShown == open /\ ~loading /\ ~error /\ current \in 1..Len(pages)

-----------------------------------------------------------------------------
(* Navigation.                                                             *)

LaunchMerged(u) == inflight \cup {u}

\* switchMap drops the fetch under way.
Launch(u) == {u}

\* router.navigate; the router ignores a navigation to the present address.
GoTo(u) ==
    IF u = url
      THEN UNCHANGED <<url, past, inflight>>
      ELSE /\ url' = u
           /\ past' = Append(past, url)
           /\ inflight' = Launch(u)

Move(kind) ==
    /\ kind \in IF patient THEN PatientMoves ELSE Moves
    /\ patient => inflight = {}
    /\ moves < MaxMoves
    /\ moves' = moves + 1
    /\ UNCHANGED patient

\* A search from the search bar or a change of collection: cursor = '*'.
Search(q) ==
    /\ Move(IF q = url.query THEN "repeat" ELSE "search")
    /\ open
    /\ GoTo([query |-> q, cursor |-> Star])
    /\ loading' = (loading \/ url' # url)
    /\ UNCHANGED <<component, store>>

\* A filter, a tag or the sort order: queryParamsHandling 'merge' keeps the
\* cursor that the address has.
Filter(q) ==
    /\ Move("filter")
    /\ open
    /\ q # url.query
    /\ GoTo([url EXCEPT !.query = q])
    /\ loading' = TRUE
    /\ UNCHANGED <<component, store>>

HasPageByTotal(n) == n <= last

HasPage(n) == n \in 1..Len(pages) \/ n = current

\* pageNr$.next(n) and _loadNewPage(n).  The promise of the navigation is
\* fulfilled before the chunk is there, and setLoading(false) follows it.
Click(n) ==
    /\ Move("click")
    /\ BarIsShown
    /\ n \in Links
    /\ pageNr' = n
    /\ IF HasPage(n)
         THEN /\ current' = n
              /\ UNCHANGED <<url, past, inflight>>
         ELSE /\ GoTo([url EXCEPT !.cursor = next])
              /\ UNCHANGED current
    /\ loading' = FALSE
    /\ UNCHANGED <<open, prev, error, pages, last, next>>

\* The Back button, on the search page.
Back ==
    /\ Move("back")
    /\ open
    /\ past # <<>>
    /\ url' = past[Len(past)]
    /\ past' = SubSeq(past, 1, Len(past) - 1)
    /\ inflight' = Launch(url')
    /\ loading' = TRUE
    /\ UNCHANGED <<component, store>>

\* The user opens a page of the UI other than the search page, and comes back.
Leave ==
    /\ Move("leave")
    /\ open
    /\ open' = FALSE
    /\ inflight' = {}
    /\ UNCHANGED <<address, prev, pageNr, error, store, loading>>

Return ==
    /\ ~open
    /\ MakeComponent
    /\ inflight' = {url}
    /\ loading' = TRUE
    /\ UNCHANGED <<patient, address, store, moves>>

Reload ==
    /\ Move("reload")
    /\ open
    /\ MakeComponent
    /\ MakeStore
    /\ inflight' = {url}
    /\ loading' = TRUE
    /\ UNCHANGED address

-----------------------------------------------------------------------------
(* The chunk arrives (the setter of `response`).                           *)

\* A cursor of another visit, in a store that is on its first page.
ShouldResetCursor(cursor) == cursor \notin {Star, None} /\ current = 1

AddedFirst(content) == content \o pages

\* addResultsAndPaginate: after the pages that are there.
Added(content) == pages \o content

Response(content, total, cursor, failed) ==
    [results |-> content, numFound |-> total, nextCursor |-> cursor, isError |-> failed]

Receive(u, r) ==
    /\ error' = r.isError
    /\ loading' = FALSE
    /\ IF ShouldResetCursor(url.cursor)
         THEN /\ url' = [url EXCEPT !.cursor = Star]
              /\ past' = Append(past, url)
              /\ inflight' = Launch(url')
              /\ UNCHANGED <<prev, store>>
         ELSE /\ inflight' = inflight \ {u}
              /\ prev' = url.query
              /\ next' = r.nextCursor
              /\ IF url.query # prev
                   THEN /\ pages' = r.results
                        /\ current' = 1
                        /\ last' = MaxOf(1, r.numFound)
                   ELSE /\ pages' = Added(r.results)
                        /\ current' = pageNr
                        /\ UNCHANGED last
              /\ UNCHANGED address
    /\ UNCHANGED <<patient, open, pageNr, moves>>

\* Where the chunk for an address begins: Solr follows a cursor of the query
\* itself, and takes one of another query for some position.
Starts(u) ==
    IF u.cursor = Star THEN {0}
    ELSE IF u.cursor.of = u.query THEN {u.cursor.at}
    ELSE 0..Total[u.query]

Chunk(q, start) ==
    [i \in 1..MinOf(ChunkPages, Total[q] - start) |-> [query |-> q, nr |-> start + i]]

Fetched(u) ==
    /\ u \in inflight
    /\ u.cursor # None
    /\ \E start \in Starts(u) :
          LET content == Chunk(u.query, start)
              end == [of |-> u.query, at |-> start + Len(content)]
          IN  Receive(u, Response(content, Total[u.query], end, FALSE))

FetchFailsUncaught(u) ==
    /\ u \in inflight
    /\ "failure" \in IF patient THEN PatientMoves ELSE Moves
    /\ inflight' = {}
    /\ UNCHANGED <<patient, address, component, store, loading, moves>>

\* catchError(() => of(_EMPTY_RESPONSE))
FetchFails(u) ==
    /\ u \in inflight
    /\ "failure" \in IF patient THEN PatientMoves ELSE Moves
    /\ Receive(u, Response(<<>>, 0, None, TRUE))

-----------------------------------------------------------------------------
Server == \E u \in inflight : Fetched(u) \/ FetchFails(u)

Next ==
    \/ \E q \in Query : Search(q) \/ Filter(q)
    \/ \E n \in Links : Click(n)
    \/ Back \/ Leave \/ Return \/ Reload
    \/ Server

Spec == Init /\ [][Next]_vars

\* Every HTTP request of the browser is answered or fails.
FairSpec == Spec /\ WF_vars(Server)

-----------------------------------------------------------------------------
(* Properties.                                                             *)

AtRest == open /\ inflight = {}

\* When nothing is being fetched, everything in the store is a result of the
\* query that the address names, however often it changed meanwhile.
ResultsMatchAddress ==
    AtRest => /\ prev = url.query
              /\ \A i \in 1..Len(pages) : pages[i].query = url.query

\* For a user who waits, page n of the store is the n-th page of the results.
PagesAreInOrder ==
    patient /\ AtRest /\ ~error =>
        \A i \in 1..Len(pages) : pages[i] = [query |-> url.query, nr |-> i]

\* A search that is being fetched is shown in the end, or fails, or is left.
SearchIsShown ==
    inflight # {} ~> (~open \/ error \/ (inflight = {} /\ prev = url.query))

\* "It seems that we don't have what you're looking for": a user who waits is
\* shown the view without results only for a query without results.
NoResultsMeansNone ==
    (patient /\ AtRest /\ ~error /\ current \notin 1..Len(pages)) => Total[url.query] = 0
=============================================================================
