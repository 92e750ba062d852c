------------------------- MODULE ResultPagesProofs -------------------------
(***************************************************************************)
(* What TLAPS proves of ResultPages, for every set of queries, any number  *)
(* of results and any number of moves.                                     *)
(***************************************************************************)
EXTENDS ResultPages, TLAPS

-----------------------------------------------------------------------------
(* Numbers, chunks and links.                                              *)

LEMMA Totals ==
    /\ MaxTotal \in Nat
    /\ \A q \in Query : Total[q] \in Nat /\ Total[q] <= MaxTotal
<1> DEFINE S == {Total[q] : q \in Query}
           IsMax(n) == n \in S /\ \A q \in Query : Total[q] <= n
<1>1. \A q \in Query : Total[q] \in Nat
    BY ConstantsAssumption
<1>2. \E n : IsMax(n)
    BY ConstantsAssumption
<1>3. MaxTotal = CHOOSE n : IsMax(n)
    BY DEF MaxTotal
<1>4. IsMax(MaxTotal)
    BY <1>2, <1>3
<1>5. QED
    BY <1>1, <1>4

\* How many pages a chunk has.
Size(q, start) ==
    IF start <= Total[q] THEN MinOf(ChunkPages, Total[q] - start) ELSE 0

LEMMA SizeFacts ==
    ASSUME NEW q \in Query, NEW start \in Nat
    PROVE  /\ Size(q, start) \in Nat
           /\ Size(q, start) <= ChunkPages
           /\ start <= Total[q] => start + Size(q, start) <= Total[q]
           /\ start > Total[q] => Size(q, start) = 0
    BY Totals, ConstantsAssumption DEF Size, MinOf

LEMMA ChunkFacts ==
    ASSUME NEW q \in Query, NEW start \in Nat
    PROVE  /\ Chunk(q, start) \in Seq(PageOf)
           /\ Len(Chunk(q, start)) = Size(q, start)
           /\ \A i \in 1..Size(q, start) :
                 Chunk(q, start)[i] = [query |-> q, nr |-> start + i]
<1> DEFINE n == Size(q, start)
           page(i) == [query |-> q, nr |-> start + i]
<1>1. 1..MinOf(ChunkPages, Total[q] - start) = 1..n
    BY Totals, ConstantsAssumption DEF Size, MinOf
<1>2. Chunk(q, start) = [i \in 1..n |-> page(i)]
    BY <1>1 DEF Chunk
<1>3. n \in Nat
    BY SizeFacts
<1>4. \A i \in 1..n : start + i \in 1..MaxTotal
    BY SizeFacts, Totals
<1>5. \A i \in 1..n : page(i) \in PageOf
    BY <1>4 DEF PageOf
<1> HIDE DEF n, page
<1>6. Chunk(q, start) \in Seq(PageOf) /\ Len(Chunk(q, start)) = n
    BY <1>2, <1>3, <1>5
<1>7. \A i \in 1..n : Chunk(q, start)[i] = page(i)
    BY <1>2
<1>8. QED
    BY <1>6, <1>7 DEF n, page

\* The links of the bar lie between the first page and the last, and not more
\* than a margin ahead.
LEMMA LinkFacts ==
    ASSUME current \in Nat \ {0}, last \in Nat, NEW n \in Links
    PROVE  /\ n \in Nat \ {0}
           /\ n <= current \/ n <= last
           /\ n <= current + PageMargin \/ n <= InitialPagesSize
<1>1. CASE n \in DisplayedPages(current, last)
  <2> DEFINE hi == MaxRange(current, last)
             lo == MinRange(current, hi)
  <2>1. /\ hi \in Nat
        /\ hi <= last
        /\ hi <= current + PageMargin \/ hi <= InitialPagesSize
    BY DEF MaxRange, MinOf, MaxOf, PageMargin, InitialPagesSize
  <2>2. lo \in Nat
    <3> HIDE DEF hi
    <3>1. QED
        BY <2>1 DEF MinRange, PageMargin, InitialPagesSize
  <2>3. n \in lo + 1 .. hi
    BY <1>1 DEF DisplayedPages
  <2> HIDE DEF hi, lo
  <2>4. QED
    BY <2>1, <2>2, <2>3 DEF PageMargin, InitialPagesSize
<1>2. CASE current # 1 /\ n \in {1, current - 1}
    BY <1>2 DEF PageMargin
<1>3. CASE last > current /\ n = current + 1
    BY <1>3 DEF PageMargin
<1>4. QED
    BY <1>1, <1>2, <1>3 DEF Links

LEMMA Appended ==
    ASSUME NEW s \in Seq(PageOf), NEW t \in Seq(PageOf)
    PROVE  /\ Len(s \o t) = Len(s) + Len(t)
           /\ \A i \in 1..Len(s) : (s \o t)[i] = s[i]
           /\ \A i \in 1..Len(t) : (s \o t)[Len(s) + i] = t[i]
    OBVIOUS

LEMMA StarIsCursor == Star \in Cursor
    BY DEF Cursor

LEMMA AddressFacts ==
    /\ \A u \in Address : u.query \in Query /\ u.cursor \in Cursor
    /\ \A q \in Query, c \in Cursor : [query |-> q, cursor |-> c] \in Address
    /\ \A u \in Address, c \in Cursor :
          /\ [u EXCEPT !.cursor = c] \in Address
          /\ [u EXCEPT !.cursor = c].query = u.query
          /\ [u EXCEPT !.cursor = c].cursor = c
    /\ \A u \in Address, q \in Query :
          /\ [u EXCEPT !.query = q] \in Address
          /\ [u EXCEPT !.query = q].query = q
    BY DEF Address

\* Where a chunk starts.
LEMMA StartsFacts ==
    ASSUME NEW u \in Address, u.cursor # None, NEW start \in Starts(u)
    PROVE  start \in 0..MaxTotal
<1>1. Total[u.query] \in Nat /\ Total[u.query] <= MaxTotal /\ MaxTotal \in Nat
    BY Totals, AddressFacts
<1>2. CASE u.cursor = Star
    BY <1>1, <1>2 DEF Starts
<1>3. CASE u.cursor # Star
  <2>1. u.cursor \in [of : Query, at : 0..MaxTotal]
    BY <1>3, AddressFacts DEF Cursor
  <2>2. u.cursor.at \in 0..MaxTotal
    BY <2>1
  <2>3. QED
    BY <1>1, <1>3, <2>2 DEF Starts
<1>4. QED
    BY <1>2, <1>3

-----------------------------------------------------------------------------
(* The inductive invariant of ResultsMatchAddress.                         *)

\* switchMap leaves one fetch at most, that of the address.
FetchesTheAddress == inflight \subseteq {url}

\* What the component remembers is what it was last given.
RemembersAddress == AtRest => prev = url.query

\* The store holds results of the query that the component remembers; those
\* of an earlier visit stay until a new component is given its first chunk.
StoreOfPrev == prev # None => \A i \in 1..Len(pages) : pages[i].query = prev

Inv ==
    /\ TypeOK
    /\ FetchesTheAddress
    /\ RemembersAddress
    /\ StoreOfPrev

LEMMA GoToFacts ==
    ASSUME TypeOK, NEW u \in Address, GoTo(u)
    PROVE  /\ url' = u
           /\ past' \in Seq(Address)
           /\ \/ inflight' = {url'}
              \/ inflight' = inflight /\ url' = url
<1>1. CASE u = url
    BY <1>1 DEF GoTo, TypeOK
<1>2. CASE u # url
    BY <1>2 DEF GoTo, Launch, TypeOK
<1>3. QED
    BY <1>1, <1>2

LEMMA MoveFacts ==
    ASSUME TypeOK, NEW kind, Move(kind)
    PROVE  patient' \in BOOLEAN /\ moves' \in 0..MaxMoves
    BY ConstantsAssumption DEF TypeOK, Move

\* A step that leaves the component and the store alone, and either the
\* address too or fetches it.
LEMMA AddressSteps ==
    ASSUME Inv, UNCHANGED <<component, store>>,
           patient' \in BOOLEAN, loading' \in BOOLEAN, moves' \in 0..MaxMoves,
           url' \in Address, past' \in Seq(Address),
           \/ inflight' = {url'}
           \/ inflight' = inflight /\ url'.query = url.query /\ url' = url
    PROVE  Inv'
<1>1. UNCHANGED <<open, prev, pageNr, error, pages, current, last, next>>
    BY DEF component, store
<1>2. inflight' \subseteq {url'} /\ inflight' \subseteq Address
    BY DEF Inv, FetchesTheAddress
<1>3. TypeOK'
    BY <1>1, <1>2 DEF Inv, TypeOK
<1>4. RemembersAddress'
    BY <1>1 DEF Inv, RemembersAddress, AtRest
<1>5. StoreOfPrev'
    BY <1>1 DEF Inv, StoreOfPrev
<1>6. QED
    BY <1>2, <1>3, <1>4, <1>5 DEF Inv, FetchesTheAddress

LEMMA SearchStep ==
    ASSUME Inv, NEW q \in Query, Search(q)
    PROVE  Inv'
<1>1. [query |-> q, cursor |-> Star] \in Address
    BY StarIsCursor, AddressFacts
<1>2. /\ url' \in Address
      /\ past' \in Seq(Address)
      /\ \/ inflight' = {url'}
         \/ inflight' = inflight /\ url' = url
    BY <1>1, GoToFacts DEF Search, Inv
<1>3. patient' \in BOOLEAN /\ moves' \in 0..MaxMoves
    BY MoveFacts DEF Search, Inv
<1>4. loading' \in BOOLEAN
    BY DEF Search, Inv, TypeOK
<1>5. QED
    BY <1>2, <1>3, <1>4, AddressSteps DEF Search

LEMMA FilterStep ==
    ASSUME Inv, NEW q \in Query, Filter(q)
    PROVE  Inv'
<1>1. [url EXCEPT !.query = q] \in Address
    BY AddressFacts DEF Inv, TypeOK
<1>2. /\ url' \in Address
      /\ past' \in Seq(Address)
      /\ \/ inflight' = {url'}
         \/ inflight' = inflight /\ url' = url
    BY <1>1, GoToFacts DEF Filter, Inv
<1>3. patient' \in BOOLEAN /\ moves' \in 0..MaxMoves
    BY MoveFacts DEF Filter, Inv
<1>4. QED
    BY <1>2, <1>3, AddressSteps DEF Filter

LEMMA BackStep ==
    ASSUME Inv, Back
    PROVE  Inv'
<1>1. past \in Seq(Address) /\ past # <<>>
    BY DEF Back, Inv, TypeOK
<1>2. past[Len(past)] \in Address /\ SubSeq(past, 1, Len(past) - 1) \in Seq(Address)
    BY <1>1
<1>3. url' \in Address /\ past' \in Seq(Address) /\ inflight' = {url'}
    BY <1>2 DEF Back, Launch
<1>4. patient' \in BOOLEAN /\ moves' \in 0..MaxMoves
    BY MoveFacts DEF Back, Inv
<1>5. QED
    BY <1>3, <1>4, AddressSteps DEF Back

LEMMA ClickStep ==
    ASSUME Inv, NEW n \in Links, Click(n)
    PROVE  Inv'
<1>1. n \in Nat \ {0}
    BY LinkFacts DEF Inv, TypeOK
<1>2. /\ url' \in Address
      /\ url'.query = url.query
      /\ past' \in Seq(Address)
      /\ \/ inflight' = {url'}
         \/ inflight' = inflight /\ url' = url
      /\ current' \in Nat \ {0}
  <2>1. CASE HasPage(n)
    BY <1>1, <2>1 DEF Click, Inv, TypeOK
  <2>2. CASE ~HasPage(n)
    <3>1. /\ [url EXCEPT !.cursor = next] \in Address
          /\ [url EXCEPT !.cursor = next].query = url.query
        BY AddressFacts DEF Inv, TypeOK
    <3>2. GoTo([url EXCEPT !.cursor = next]) /\ current' = current
        BY <2>2 DEF Click
    <3>3. QED
        BY <3>1, <3>2, GoToFacts DEF Inv, TypeOK
  <2>3. QED
    BY <2>1, <2>2
<1>3. patient' \in BOOLEAN /\ moves' \in 0..MaxMoves
    BY MoveFacts DEF Click, Inv
<1>4. pageNr' = n /\ loading' = FALSE /\ UNCHANGED <<open, prev, error, pages, last, next>>
    BY DEF Click
<1>5. inflight' \subseteq {url'} /\ inflight' \subseteq Address
    BY <1>2 DEF Inv, FetchesTheAddress
<1>6. TypeOK'
    BY <1>1, <1>2, <1>3, <1>4, <1>5 DEF Inv, TypeOK
<1>7. RemembersAddress'
    BY <1>2, <1>4 DEF Inv, RemembersAddress, AtRest
<1>8. StoreOfPrev'
    BY <1>4 DEF Inv, StoreOfPrev
<1>9. QED
    BY <1>5, <1>6, <1>7, <1>8 DEF Inv, FetchesTheAddress

\* Leaving the search page, and a component that is made anew.
LEMMA LeaveStep ==
    ASSUME Inv, Leave
    PROVE  Inv'
<1>1. patient' \in BOOLEAN /\ moves' \in 0..MaxMoves
    BY MoveFacts DEF Leave, Inv
<1>2. TypeOK'
    BY <1>1 DEF Leave, Inv, TypeOK, address, store
<1>3. FetchesTheAddress' /\ RemembersAddress' /\ StoreOfPrev'
    BY DEF Leave, Inv, FetchesTheAddress, RemembersAddress, AtRest, StoreOfPrev, address, store
<1>4. QED
    BY <1>2, <1>3 DEF Inv

LEMMA ReturnStep ==
    ASSUME Inv, Return
    PROVE  Inv'
<1>1. TypeOK'
  <2>1. /\ open' = TRUE /\ prev' = None /\ pageNr' = 1 /\ error' = FALSE
        /\ inflight' = {url} /\ loading' = TRUE
        /\ UNCHANGED <<patient, url, past, pages, current, last, next, moves>>
    BY DEF Return, MakeComponent, address, store
  <2>2. inflight' \subseteq Address /\ pageNr' \in Nat \ {0}
    BY <2>1 DEF Inv, TypeOK
  <2>3. QED
    BY <2>1, <2>2 DEF Inv, TypeOK
<1>2. FetchesTheAddress' /\ RemembersAddress' /\ StoreOfPrev'
    BY DEF Return, MakeComponent, FetchesTheAddress, RemembersAddress, AtRest,
           StoreOfPrev, address
<1>3. QED
    BY <1>1, <1>2 DEF Inv

LEMMA ReloadStep ==
    ASSUME Inv, Reload
    PROVE  Inv'
<1>1. patient' \in BOOLEAN /\ moves' \in 0..MaxMoves
    BY MoveFacts DEF Reload, Inv
<1>2. TypeOK'
  <2>1. /\ open' = TRUE /\ prev' = None /\ pageNr' = 1 /\ error' = FALSE
        /\ pages' = <<>> /\ current' = 1 /\ last' = 0 /\ next' = Star
        /\ inflight' = {url} /\ loading' = TRUE
        /\ UNCHANGED <<url, past>>
    BY DEF Reload, MakeComponent, MakeStore, address
  <2>2. /\ inflight' \subseteq Address
        /\ pageNr' \in Nat \ {0} /\ current' \in Nat \ {0} /\ last' \in Nat
        /\ pages' \in Seq(PageOf)
    BY <2>1 DEF Inv, TypeOK
  <2>3. QED
    BY <1>1, <2>1, <2>2, StarIsCursor DEF Inv, TypeOK
<1>3. FetchesTheAddress' /\ RemembersAddress' /\ StoreOfPrev'
    BY DEF Reload, MakeComponent, MakeStore, FetchesTheAddress, RemembersAddress,
           AtRest, StoreOfPrev, address
<1>4. QED
    BY <1>2, <1>3 DEF Inv

\* A chunk of the address, or a failure, arrives.
LEMMA ReceiveStep ==
    ASSUME Inv, NEW u \in inflight, NEW content \in Seq(PageOf), NEW total \in Nat,
           NEW cursor \in Cursor, NEW failed \in BOOLEAN,
           \A i \in 1..Len(content) : content[i].query = u.query,
           Receive(u, Response(content, total, cursor, failed))
    PROVE  Inv'
<1>1. u = url /\ inflight = {url} /\ url \in Address /\ url.query \in Query
    BY AddressFacts DEF Inv, FetchesTheAddress, TypeOK
<1>2. /\ error' \in BOOLEAN
      /\ loading' = FALSE
      /\ UNCHANGED <<patient, open, pageNr, moves>>
    BY DEF Receive, Response
<1>3. CASE ShouldResetCursor(url.cursor)
  <2>1. url' \in Address /\ inflight' = {url'} /\ past' \in Seq(Address)
    <3>1. /\ url' = [url EXCEPT !.cursor = Star]
          /\ past' = Append(past, url)
          /\ inflight' = {url'}
      BY <1>3 DEF Receive, Launch
    <3>2. url' \in Address
      BY <1>1, <3>1, StarIsCursor, AddressFacts
    <3>3. past' \in Seq(Address)
      BY <1>1, <3>1 DEF Inv, TypeOK
    <3>4. QED
      BY <3>1, <3>2, <3>3
  <2>2. UNCHANGED <<prev, pages, current, last, next>>
    BY <1>3 DEF Receive, store
  <2>3. TypeOK'
    BY <1>2, <2>1, <2>2 DEF Inv, TypeOK
  <2>4. FetchesTheAddress' /\ RemembersAddress' /\ StoreOfPrev'
    BY <2>1, <2>2 DEF Inv, FetchesTheAddress, RemembersAddress, AtRest, StoreOfPrev
  <2>5. QED
    BY <2>3, <2>4 DEF Inv
<1>4. CASE ~ShouldResetCursor(url.cursor)
  <2>1. /\ inflight' = {} /\ prev' = url.query /\ next' = cursor
        /\ UNCHANGED <<url, past>>
    BY <1>1, <1>4 DEF Receive, Response, address
  <2>2. prev' # None
    BY <1>1, <2>1, ConstantsAssumption
  <2>3. /\ pages' \in Seq(PageOf)
        /\ current' \in Nat \ {0}
        /\ last' \in Nat
        /\ \A i \in 1..Len(pages') : pages'[i].query = url.query
    <3>1. CASE url.query # prev
      <4>1. pages' = content /\ current' = 1 /\ last' = MaxOf(1, total)
        BY <1>4, <3>1 DEF Receive, Response
      <4>2. QED
        BY <1>1, <4>1 DEF MaxOf
    <3>2. CASE url.query = prev
      <4>1. pages' = pages \o content /\ current' = pageNr /\ last' = last
        BY <1>4, <3>2 DEF Receive, Response, Added
      <4>2. pages \in Seq(PageOf) /\ current' \in Nat \ {0} /\ last' \in Nat
        BY <4>1 DEF Inv, TypeOK
      <4>3. \A i \in 1..Len(pages) : pages[i].query = url.query
        BY <1>1, <3>2, ConstantsAssumption DEF Inv, StoreOfPrev
      <4>4. QED
        BY <1>1, <4>1, <4>2, <4>3
    <3>3. QED
      BY <3>1, <3>2
  <2>4. TypeOK'
    BY <1>1, <1>2, <2>1, <2>3 DEF Inv, TypeOK
  <2>5. FetchesTheAddress' /\ RemembersAddress' /\ StoreOfPrev'
    BY <2>1, <2>3 DEF FetchesTheAddress, RemembersAddress, AtRest, StoreOfPrev
  <2>6. QED
    BY <2>4, <2>5 DEF Inv
<1>5. QED
    BY <1>3, <1>4

LEMMA FetchedStep ==
    ASSUME Inv, NEW u \in inflight, Fetched(u)
    PROVE  Inv'
<1>1. u \in Address /\ u.cursor # None /\ u.query \in Query
    BY AddressFacts DEF Fetched, Inv, TypeOK
<1>2. PICK start \in Starts(u) :
          Receive(u, Response(Chunk(u.query, start), Total[u.query],
                              [of |-> u.query, at |-> start + Len(Chunk(u.query, start))],
                              FALSE))
    BY DEF Fetched
<1> DEFINE content == Chunk(u.query, start)
           end == [of |-> u.query, at |-> start + Len(content)]
<1>3. start \in 0..MaxTotal /\ MaxTotal \in Nat
    BY <1>1, StartsFacts, Totals
<1>4. /\ content \in Seq(PageOf)
      /\ Len(content) = Size(u.query, start)
      /\ \A i \in 1..Size(u.query, start) : content[i] = [query |-> u.query, nr |-> start + i]
  <2>1. start \in Nat
    BY <1>3
  <2>2. QED
    BY <1>1, <2>1, ChunkFacts
<1>5. start + Size(u.query, start) \in 0..MaxTotal
    BY <1>1, <1>3, SizeFacts, Totals
<1>6. end \in Cursor
  <2>1. start + Len(content) \in 0..MaxTotal
    BY <1>4, <1>5
  <2> HIDE DEF content
  <2>2. QED
    BY <1>1, <2>1 DEF Cursor
<1> HIDE DEF content, end
<1>7. \A i \in 1..Len(content) : content[i].query = u.query
    BY <1>4
<1>8. Total[u.query] \in Nat
    BY <1>1, Totals
<1>9. Receive(u, Response(content, Total[u.query], end, FALSE))
    BY <1>2 DEF content, end
<1>10. QED
    BY <1>4, <1>6, <1>7, <1>8, <1>9, ReceiveStep

LEMMA FailureStep ==
    ASSUME Inv, NEW u \in inflight, FetchFails(u)
    PROVE  Inv'
<1>1. Receive(u, Response(<<>>, 0, None, TRUE))
    BY DEF FetchFails
<1>2. <<>> \in Seq(PageOf) /\ None \in Cursor /\ Len(<<>>) = 0
    BY DEF Cursor
<1>3. \A i \in 1..Len(<<>>) : <<>>[i].query = u.query
    BY <1>2
<1>4. QED
    BY <1>1, <1>2, <1>3, ReceiveStep

LEMMA InitInv == Init => Inv
<1> SUFFICES ASSUME Init PROVE Inv
    OBVIOUS
<1>1. url \in Address
    BY StarIsCursor DEF Init, Address
<1>2. TypeOK
  <2>1. /\ past \in Seq(Address) /\ pages \in Seq(PageOf)
        /\ inflight \subseteq Address
        /\ pageNr \in Nat \ {0} /\ current \in Nat \ {0} /\ last \in Nat
        /\ moves \in 0..MaxMoves
    BY <1>1, ConstantsAssumption DEF Init
  <2>2. QED
    BY <1>1, <2>1, StarIsCursor DEF Init, TypeOK
<1>3. QED
    BY <1>2 DEF Init, Inv, FetchesTheAddress, RemembersAddress, AtRest, StoreOfPrev

LEMMA NextInv == Inv /\ [Next]_vars => Inv'
<1> SUFFICES ASSUME Inv, [Next]_vars PROVE Inv'
    OBVIOUS
<1>1. ASSUME NEW q \in Query, Search(q) \/ Filter(q) PROVE Inv'
    BY <1>1, SearchStep, FilterStep
<1>2. ASSUME NEW n \in Links, Click(n) PROVE Inv'
    BY <1>2, ClickStep
<1>3. CASE Back \/ Leave \/ Return \/ Reload
    BY <1>3, BackStep, LeaveStep, ReturnStep, ReloadStep
<1>4. ASSUME NEW u \in inflight, Fetched(u) \/ FetchFails(u) PROVE Inv'
    BY <1>4, FetchedStep, FailureStep
<1>5. CASE UNCHANGED vars
    BY <1>5 DEF vars, Inv, TypeOK, FetchesTheAddress, RemembersAddress, AtRest, StoreOfPrev
<1>6. QED
    BY <1>1, <1>2, <1>3, <1>4, <1>5 DEF Next, Server

LEMMA Invariance == Spec => []Inv
    BY InitInv, NextInv, PTL DEF Spec

\* The address, the component and the store stay what they are declared to be.
THEOREM TypeCorrect == Spec => []TypeOK
<1>1. Inv => TypeOK
    BY DEF Inv
<1>2. QED
    BY <1>1, Invariance, PTL

\* Whatever the user does while chunks are on their way, once nothing is being
\* fetched the store holds results of the query in the address only.
THEOREM ResultsOfTheAddress == Spec => []ResultsMatchAddress
<1>1. Inv => ResultsMatchAddress
  <2> SUFFICES ASSUME Inv, AtRest
               PROVE  /\ prev = url.query
                      /\ \A i \in 1..Len(pages) : pages[i].query = url.query
    BY DEF ResultsMatchAddress
  <2>1. prev = url.query /\ url.query # None
    BY AddressFacts, ConstantsAssumption DEF Inv, RemembersAddress, TypeOK
  <2>2. QED
    BY <2>1 DEF Inv, StoreOfPrev
<1>2. QED
    BY <1>1, Invariance, PTL

-----------------------------------------------------------------------------
(* Why a search is shown in the end: an answer is shown, or answers a      *)
(* cursor of another visit, and then the search begins anew, once.         *)

\* The answer is the last that this search waits for.
IsShown == inflight' = {} /\ prev' = url'.query /\ url' = url

\* The search begins anew, from its first page, with a cursor that is not
\* replaced again.
BeginsAnew ==
    /\ ~(url.cursor \in {Star, None})
    /\ url' = [url EXCEPT !.cursor = Star]
    /\ inflight' = {url'}

\* Every answer of the server, good or bad, shows the search that the address
\* names or begins it anew; the latter does not happen twice, because it leaves
\* the cursor that never leads to it, and a search takes two answers at most.
ShownByTheSecondAnswer == [][Server => IsShown \/ BeginsAnew]_vars

\* An answer either resets the cursor or empties what is being fetched.
LEMMA ReceiveShows ==
    ASSUME Inv, NEW u \in inflight, NEW r, Receive(u, r)
    PROVE  IsShown \/ BeginsAnew
<1>1. inflight = {u} /\ u = url
    BY DEF Inv, FetchesTheAddress
<1>2. CASE ShouldResetCursor(url.cursor)
    BY <1>2 DEF Receive, Launch, ShouldResetCursor, BeginsAnew
<1>3. CASE ~ShouldResetCursor(url.cursor)
    BY <1>1, <1>3 DEF Receive, address, IsShown
<1>4. QED
    BY <1>2, <1>3

\* However the user has moved meanwhile, the first answer shows the search or
\* begins it anew at its first page, and then the next one shows it: the reset
\* of a stale cursor is not a loop.
THEOREM SearchesDoNotLoop == Spec => ShownByTheSecondAnswer
<1>1. Inv /\ [Next]_vars => [Server => IsShown \/ BeginsAnew]_vars
  <2> SUFFICES ASSUME Inv, Server PROVE IsShown \/ BeginsAnew
    OBVIOUS
  <2>1. PICK u \in inflight : Fetched(u) \/ FetchFails(u)
    BY DEF Server
  <2>2. PICK r : Receive(u, r)
    <3>1. CASE Fetched(u)
        BY <3>1 DEF Fetched
    <3>2. CASE FetchFails(u)
        BY <3>2 DEF FetchFails
    <3>3. QED
        BY <2>1, <3>1, <3>2
  <2>3. QED
    BY <2>2, ReceiveShows
<1>2. QED
    BY <1>1, Invariance, PTL DEF Spec, ShownByTheSecondAnswer

-----------------------------------------------------------------------------
(* The pages of a user who waits.  That they are in order holds for the    *)
(* moves that set the cursor anew or take the next one, and for chunks of  *)
(* as many pages as the bar offers at first.                               *)

PatientUser ==
    /\ PatientMoves \subseteq {"search", "click", "reload"}
    /\ InitialPagesSize <= ChunkPages

\* The store has the first pages of the query of the address, and the cursor
\* that follows them.
Filled ==
    /\ prev = url.query
    /\ \A i \in 1..Len(pages) : pages[i] = [query |-> url.query, nr |-> i]
    /\ Len(pages) <= Total[url.query]
    /\ Len(pages) >= ChunkPages \/ Len(pages) = Total[url.query]
    /\ next = [of |-> url.query, at |-> Len(pages)]
    /\ last = MaxOf(1, Total[url.query])

ShowsPage == current \in 1..Len(pages) \/ Total[url.query] = 0

\* The first chunk of a query is asked for, or the cursor will be reset.
AsksFirst == prev # url.query /\ (url.cursor = Star \/ current = 1)

\* The chunk that follows the store is asked for, and has the page clicked.
AsksNext ==
    /\ Filled
    /\ url.cursor = next
    /\ current # 1
    /\ pageNr > Len(pages)
    /\ pageNr <= Len(pages) + ChunkPages
    /\ pageNr <= Total[url.query]

PInv ==
    patient => /\ open
               /\ ~error
               /\ inflight = {} => Filled /\ ShowsPage
               /\ inflight # {} => AsksFirst \/ AsksNext

LEMMA PatientMove ==
    ASSUME PatientUser, patient, NEW kind, Move(kind)
    PROVE  kind \in {"search", "click", "reload"} /\ inflight = {}
    BY DEF PatientUser, Move

LEMMA PatientSearch ==
    ASSUME PatientUser, Inv, PInv, patient, NEW q \in Query, Search(q)
    PROVE  PInv'
<1>1. q # url.query /\ inflight = {}
    BY PatientMove DEF Search
<1>2. open /\ ~error /\ prev = url.query
    BY <1>1 DEF PInv, Filled
<1>3. [query |-> q, cursor |-> Star] # url
    BY <1>1
<1>4. url' = [query |-> q, cursor |-> Star] /\ inflight' = {url'}
    BY <1>3 DEF Search, GoTo, Launch
<1>5. prev' = prev /\ open' = open /\ error' = error
    BY DEF Search, component
<1>6. AsksFirst'
    BY <1>1, <1>2, <1>4, <1>5 DEF AsksFirst
<1>7. QED
    BY <1>2, <1>4, <1>5, <1>6 DEF PInv

LEMMA PatientReload ==
    ASSUME PatientUser, Inv, PInv, patient, Reload
    PROVE  PInv'
<1>1. /\ open' = TRUE /\ error' = FALSE /\ prev' = None /\ current' = 1
      /\ inflight' = {url} /\ url' = url
    BY DEF Reload, MakeComponent, MakeStore, address
<1>2. url.query # None
    BY AddressFacts, ConstantsAssumption DEF Inv, TypeOK
<1>3. AsksFirst'
    BY <1>1, <1>2 DEF AsksFirst
<1>4. QED
    BY <1>1, <1>3 DEF PInv

LEMMA PatientClick ==
    ASSUME PatientUser, Inv, PInv, patient, NEW n \in Links, Click(n)
    PROVE  PInv'
<1>1. inflight = {} /\ current \in 1..Len(pages)
    BY PatientMove DEF Click, BarIsShown
<1>2. open /\ ~error /\ Filled
    BY <1>1 DEF PInv
<1>3. pageNr' = n /\ UNCHANGED <<open, prev, error, pages, last, next>>
    BY DEF Click
<1>4. CASE HasPage(n)
  <2>1. current' = n /\ UNCHANGED <<url, inflight>>
    BY <1>4 DEF Click
  <2>2. n \in 1..Len(pages)
    BY <1>1, <1>4 DEF HasPage
  <2>3. Filled' /\ ShowsPage'
    BY <1>2, <1>3, <2>1, <2>2 DEF Filled, ShowsPage
  <2>4. QED
    BY <1>1, <1>2, <1>3, <2>1, <2>3 DEF PInv
<1>5. CASE ~HasPage(n)
  <2> DEFINE u == [url EXCEPT !.cursor = next]
  <2>1. GoTo(u) /\ current' = current
    BY <1>5 DEF Click
  <2>2. u.query = url.query /\ u.cursor = next
    BY AddressFacts DEF Inv, TypeOK
  <2>3. CASE u = url
    <3>1. UNCHANGED <<url, inflight>>
        BY <2>1, <2>3 DEF GoTo
    <3>2. Filled' /\ ShowsPage'
        BY <1>1, <1>2, <1>3, <2>1, <3>1 DEF Filled, ShowsPage
    <3>3. QED
        BY <1>1, <1>2, <1>3, <3>1, <3>2 DEF PInv
  <2>4. CASE u # url
    <3>1. url' = u /\ inflight' = {url'}
        BY <2>1, <2>4 DEF GoTo, Launch
    <3>2. Filled' /\ url'.cursor = next'
        BY <1>2, <1>3, <2>2, <3>1 DEF Filled
    <3> DEFINE total == Total[url.query]
               len == Len(pages)
    <3>3. /\ total \in Nat
          /\ len \in Nat
          /\ len <= total
          /\ len >= ChunkPages \/ len = total
          /\ last = MaxOf(1, total)
        BY <1>2, Totals, AddressFacts DEF Filled, Inv, TypeOK
    <3>4. current \in 1..len
        BY <1>1
    <3>5. n \in Nat /\ n > len
      <4>1. n \in Nat \ {0}
          BY LinkFacts DEF Inv, TypeOK
      <4>2. n \notin 1..len
          BY <1>5 DEF HasPage
      <4>3. QED
          BY <3>3, <4>1, <4>2
    <3>6. /\ n <= current \/ n <= last
          /\ n <= current + 2 \/ n <= 5
        BY LinkFacts DEF Inv, TypeOK, PageMargin, InitialPagesSize
    <3>7. ChunkPages \in Nat /\ 5 <= ChunkPages
        BY ConstantsAssumption DEF PatientUser, InitialPagesSize
    <3> HIDE DEF total, len
    <3>8. n <= total
        BY <3>3, <3>4, <3>5, <3>6 DEF MaxOf
    <3>9. n <= len + ChunkPages
        BY <3>3, <3>4, <3>5, <3>6, <3>7
    <3>10. current # 1
        BY <3>3, <3>4, <3>5, <3>6, <3>7, <3>8
    <3>11. pageNr' > Len(pages') /\ pageNr' <= Len(pages') + ChunkPages
        BY <1>3, <3>5, <3>9 DEF len
    <3>12. pageNr' <= Total[url'.query] /\ current' # 1
        BY <1>3, <2>1, <2>2, <3>1, <3>8, <3>10 DEF total
    <3>13. AsksNext'
        BY <3>2, <3>11, <3>12 DEF AsksNext
    <3>14. QED
        BY <1>2, <1>3, <3>1, <3>13 DEF PInv
  <2>5. QED
    BY <2>3, <2>4
<1>6. QED
    BY <1>4, <1>5

LEMMA PatientFetched ==
    ASSUME PatientUser, Inv, PInv, patient, NEW u \in inflight, Fetched(u)
    PROVE  PInv'
<1>1. /\ u = url /\ inflight = {url} /\ url \in Address
      /\ url.query \in Query /\ url.cursor # None
    BY AddressFacts DEF Fetched, Inv, FetchesTheAddress, TypeOK
<1>2. open /\ ~error /\ (AsksFirst \/ AsksNext)
    BY <1>1 DEF PInv
<1>3. PICK start \in Starts(url) :
          Receive(url, Response(Chunk(url.query, start), Total[url.query],
                                [of |-> url.query, at |-> start + Len(Chunk(url.query, start))],
                                FALSE))
    BY <1>1 DEF Fetched
<1> DEFINE content == Chunk(url.query, start)
           total == Total[url.query]
           end == [of |-> url.query, at |-> start + Len(content)]
<1>4. start \in Nat /\ total \in Nat
    BY <1>1, StartsFacts, Totals
<1>5. /\ content \in Seq(PageOf)
      /\ Len(content) = Size(url.query, start)
      /\ \A i \in 1..Size(url.query, start) :
            content[i] = [query |-> url.query, nr |-> start + i]
    BY <1>1, <1>4, ChunkFacts
<1>6. /\ open' = open /\ error' = FALSE /\ patient' = patient
      /\ pageNr' = pageNr
    BY <1>3 DEF Receive, Response
<1>7. CASE ShouldResetCursor(url.cursor)
  <2>1. AsksFirst
    BY <1>2, <1>7 DEF ShouldResetCursor, AsksNext
  <2>2. url' = [url EXCEPT !.cursor = Star] /\ inflight' = {url'} /\ prev' = prev
    BY <1>3, <1>7 DEF Receive, Launch
  <2>3. url'.query = url.query /\ url'.cursor = Star
    BY <1>1, <2>2, StarIsCursor, AddressFacts
  <2>4. AsksFirst'
    BY <2>1, <2>2, <2>3 DEF AsksFirst
  <2>5. QED
    BY <1>2, <1>6, <2>2, <2>4 DEF PInv
<1>8. CASE ~ShouldResetCursor(url.cursor)
  <2>1. /\ inflight' = {} /\ prev' = url.query /\ next' = end /\ url' = url
    BY <1>1, <1>3, <1>8 DEF Receive, Response, address
  <2>2. CASE AsksFirst
    <3>1. pages' = content /\ current' = 1 /\ last' = MaxOf(1, total)
        BY <1>3, <1>8, <2>2 DEF Receive, Response, AsksFirst
    <3>2. url.cursor = Star
        BY <1>1, <1>8, <2>2 DEF AsksFirst, ShouldResetCursor
    <3>3. start = 0
        BY <1>3, <3>2 DEF Starts
    <3> HIDE DEF content, total
    <3>4. \A i \in 1..Len(pages') : pages'[i] = [query |-> url.query, nr |-> i]
        BY <1>5, <3>1, <3>3
    <3>5. Len(content) = MinOf(ChunkPages, total)
        BY <1>4, <1>5, <3>3 DEF Size, total
    <3>6. /\ Len(content) \in Nat
          /\ Len(content) <= total
          /\ Len(content) >= ChunkPages \/ Len(content) = total
          /\ 1 \in 1..Len(content) \/ total = 0
        BY <1>4, <3>5, ConstantsAssumption DEF MinOf
    <3>7. next' = [of |-> url.query, at |-> Len(content)]
        BY <2>1, <3>3, <3>6
    <3>8. Filled' /\ ShowsPage'
        BY <2>1, <3>1, <3>4, <3>6, <3>7 DEF Filled, ShowsPage, total
    <3>9. QED
        BY <1>2, <1>6, <2>1, <3>8 DEF PInv
  <2>3. CASE AsksNext
    <3>1. /\ Filled /\ url.cursor = [of |-> url.query, at |-> Len(pages)]
          /\ pages \in Seq(PageOf) /\ pageNr \in Nat
        BY <2>3 DEF AsksNext, Filled, Inv, TypeOK
    <3>2. pages' = pages \o content /\ current' = pageNr /\ last' = last
        BY <1>3, <1>8, <3>1 DEF Receive, Response, Added, Filled
    <3>3. url.cursor # Star
        BY <1>1, <3>1, ConstantsAssumption DEF Star
    <3>4. start = Len(pages)
        BY <1>3, <3>1, <3>3 DEF Starts
    <3>5. Len(pages) \in Nat /\ Len(pages) <= total
        BY <3>1 DEF Filled
    <3>6. Len(content) = MinOf(ChunkPages, total - Len(pages))
        BY <1>5, <3>4, <3>5 DEF Size
    <3> HIDE DEF content, total
    <3>7. /\ Len(content) \in Nat
          /\ Len(pages) + Len(content) <= total
          /\ Len(content) >= ChunkPages \/ Len(pages) + Len(content) = total
        BY <1>4, <3>5, <3>6, ConstantsAssumption DEF MinOf
    <3>8. Len(pages') = Len(pages) + Len(content)
      <4>1. content \in Seq(PageOf) /\ pages \in Seq(PageOf)
          BY <1>5, <3>1
      <4>2. QED
          BY <3>2, <4>1, Appended
    <3>9. \A i \in 1..Len(pages') : pages'[i] = [query |-> url.query, nr |-> i]
      <4>1. \A i \in 1..Len(pages) : pages[i] = [query |-> url.query, nr |-> i]
          BY <3>1 DEF Filled
      <4>2. \A i \in 1..Len(content) :
                content[i] = [query |-> url.query, nr |-> Len(pages) + i]
          BY <1>5, <3>4
      <4> SUFFICES ASSUME NEW i \in 1..Len(pages')
                   PROVE  pages'[i] = [query |-> url.query, nr |-> i]
          OBVIOUS
      <4>3. CASE i <= Len(pages)
        <5>1. i \in 1..Len(pages)
            BY <3>5, <3>7, <3>8, <4>3
        <5>2. pages'[i] = pages[i]
            BY <1>5, <3>1, <3>2, <5>1, Appended
        <5>3. QED
            BY <4>1, <5>1, <5>2
      <4>4. CASE i > Len(pages)
        <5>1. i - Len(pages) \in 1..Len(content)
            BY <3>5, <3>7, <3>8, <4>4
        <5>2. Len(pages) + (i - Len(pages)) = i
            BY <3>5
        <5>3. pages'[i] = content[i - Len(pages)]
          <6>1. pages'[Len(pages) + (i - Len(pages))] = content[i - Len(pages)]
              BY <1>5, <3>1, <3>2, <5>1, Appended
          <6>2. QED
              BY <5>2, <6>1
        <5>4. QED
            BY <4>2, <5>1, <5>2, <5>3
      <4>5. QED
          BY <3>5, <4>3, <4>4
    <3>10. /\ Len(pages') <= total
           /\ Len(pages') >= ChunkPages \/ Len(pages') = total
        BY <3>5, <3>7, <3>8, ConstantsAssumption
    <3>11. next' = [of |-> url.query, at |-> Len(pages')]
        BY <2>1, <3>4, <3>8
    <3>12. Filled'
        BY <2>1, <3>1, <3>2, <3>9, <3>10, <3>11 DEF Filled, total
    <3>13. current' \in 1..Len(pages')
      <4>1. pageNr > Len(pages) /\ pageNr <= Len(pages) + ChunkPages /\ pageNr <= total
          BY <2>3 DEF AsksNext, total
      <4>2. pageNr <= Len(pages')
          BY <1>4, <3>1, <3>5, <3>7, <3>8, <4>1, ConstantsAssumption
      <4>3. QED
          BY <3>1, <3>2, <3>5, <3>7, <3>8, <4>1, <4>2
    <3>14. QED
        BY <1>2, <1>6, <2>1, <3>12, <3>13 DEF PInv, ShowsPage
  <2>4. QED
    BY <1>2, <2>2, <2>3
<1>9. QED
    BY <1>7, <1>8

LEMMA PatientInit == Init => PInv
<1> SUFFICES ASSUME Init PROVE PInv
    OBVIOUS
<1>1. /\ open = TRUE /\ error = FALSE /\ prev = None
      /\ inflight = {url} /\ url.query \in Query /\ url.cursor = Star
    BY DEF Init
<1>2. AsksFirst
    BY <1>1, ConstantsAssumption DEF AsksFirst
<1>3. QED
    BY <1>1, <1>2 DEF PInv

LEMMA PatientNext ==
    ASSUME PatientUser
    PROVE  Inv /\ PInv /\ [Next]_vars => PInv'
<1> SUFFICES ASSUME Inv, PInv, [Next]_vars PROVE PInv'
    OBVIOUS
<1>1. CASE UNCHANGED vars
    BY <1>1 DEF vars, PInv, Filled, ShowsPage, AsksFirst, AsksNext
<1>2. CASE Next /\ ~patient
  <2>1. patient' = patient
    BY <1>2 DEF Next, Server, Search, Filter, Click, Back, Leave, Return, Reload,
           Move, Fetched, FetchFails, Receive
  <2>2. QED
    BY <1>2, <2>1 DEF PInv
<1>3. CASE Next /\ patient
  <2>1. ASSUME NEW q \in Query, Search(q) \/ Filter(q) PROVE PInv'
    BY <1>3, <2>1, PatientSearch, PatientMove DEF Filter
  <2>2. ASSUME NEW n \in Links, Click(n) PROVE PInv'
    BY <1>3, <2>2, PatientClick
  <2>3. CASE Back \/ Leave
    BY <1>3, <2>3, PatientMove DEF Back, Leave
  <2>4. CASE Return
    BY <1>3, <2>4 DEF Return, PInv
  <2>5. CASE Reload
    BY <1>3, <2>5, PatientReload
  <2>6. ASSUME NEW u \in inflight, Fetched(u) \/ FetchFails(u) PROVE PInv'
    BY <1>3, <2>6, PatientFetched DEF FetchFails, PatientUser
  <2>7. QED
    BY <1>3, <2>1, <2>2, <2>3, <2>4, <2>5, <2>6 DEF Next, Server
<1>4. QED
    BY <1>1, <1>2, <1>3

LEMMA PatientInvariance ==
    ASSUME PatientUser
    PROVE  Spec => [](Inv /\ PInv)
<1>1. Init => Inv /\ PInv
    BY InitInv, PatientInit
<1>2. (Inv /\ PInv) /\ [Next]_vars => (Inv /\ PInv)'
    BY NextInv, PatientNext
<1>3. QED
    BY <1>1, <1>2, PTL DEF Spec

\* Page n of the store of a user who waits is the n-th page of the results,
\* whatever is searched for, opened and reloaded.
THEOREM PatientPagesInOrder ==
    ASSUME PatientUser
    PROVE  Spec => []PagesAreInOrder
<1>1. Inv /\ PInv => PagesAreInOrder
    BY DEF PagesAreInOrder, PInv, AtRest, Filled
<1>2. QED
    BY <1>1, PatientInvariance, PTL

\* A user who waits is told that there are no results only if there are none:
\* every link of the bar leads to a page that has some.
THEOREM PatientNoneIsNone ==
    ASSUME PatientUser
    PROVE  Spec => []NoResultsMeansNone
<1>1. Inv /\ PInv => NoResultsMeansNone
    BY DEF NoResultsMeansNone, PInv, AtRest, ShowsPage
<1>2. QED
    BY <1>1, PatientInvariance, PTL
=============================================================================
