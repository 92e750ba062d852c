------------------------- MODULE SearchFiltersProofs -------------------------
(* Proofs about SearchFilters: a click on a tag narrows to its value; the   *)
(* address holds values that its filters can have, and the panel at rest    *)
(* tells what the address asks for; rewriting one filter keeps the others;  *)
(* what the backend makes of the filters finds what they ask for, and the   *)
(* options that are counted are those that find something; for every table  *)
(* of filters and tags that fit together, every day, option and document.   *)
EXTENDS SearchFilters, WellFoundedInduction, FiniteSetTheorems, TLAPS

Pages ==
    [scope : {"eu", "pl"}, collection : EU_CONTEXT_COLLECTIONS \cap DOMAIN Answers,
     west : BOOLEAN]

\* The store has the configurations of the page in the address, whatever way
\* led to it.
Inv == place \in Pages /\ configs = setScope(place)

\* A page starts with the configurations of its address.
LEMMA InitInv == Init => Inv
    BY TablesAssumption, AnswersAssumption DEF Init, Inv, Pages

-----------------------------------------------------------------------------
(* The invariant: only another page brings other configurations.            *)

\* A navigation brings the configurations of the page that it leads to.
LEMMA GotoInv ==
    ASSUME NEW page \in Pages, NEW filters, NEW p, Goto(page, filters, p)
    PROVE  Inv'
    BY DEF Goto, Inv, setScope

\* To rewrite the filters of a page keeps the configurations.
LEMMA NavigateInv ==
    ASSUME Inv, NEW filters, NEW p, Navigate(filters, p)
    PROVE  Inv'
<1>1. CASE filters = fq
    BY <1>1 DEF Navigate, Inv, setScope
<1>2. CASE filters # fq
    BY <1>2, GotoInv DEF Navigate, Inv
<1>3. QED
    BY <1>1, <1>2

\* So does a new range,
LEMMA ReplaceInv ==
    ASSUME Inv, NEW f, NEW v, replaceRange(f, v)
    PROVE  Inv'
    BY NavigateInv DEF replaceRange

\* and whatever the user does to a filter.
LEMMA ActsOnInv ==
    ASSUME Inv, NEW f, ActsOn(f)
    PROVE  Inv'
<1>1. CASE resetAllActiveEntities(f)
    BY <1>1, NavigateInv DEF resetAllActiveEntities
<1>2. ASSUME NEW v, RemoveBadge(f, v) PROVE Inv'
    BY <1>2, NavigateInv DEF RemoveBadge
<1>3. ASSUME NEW v, ChangeYears(f, v) \/ ChangeYear(f, v) \/ ChangeStartEnd(f, v) PROVE Inv'
    BY <1>3, ReplaceInv DEF ChangeYears, ChangeYear, ChangeStartEnd
<1>4. ASSUME NEW v, ChangeCalendar(f, v) PROVE Inv'
    BY <1>4, ReplaceInv DEF ChangeCalendar
<1>5. ASSUME NEW v, ClickTag(f, v) PROVE Inv'
    BY <1>5, NavigateInv DEF ClickTag
<1>6. ASSUME NEW v, Tick(f, v) PROVE Inv'
    BY <1>6, NavigateInv DEF Tick
<1>7. ASSUME NEW v, Dropdown(f, v) PROVE Inv'
    BY <1>7, NavigateInv DEF Dropdown
<1>8. ASSUME NEW v, CheckBox(f, v) PROVE Inv'
    BY <1>8, NavigateInv DEF CheckBox
<1>9. ASSUME NEW v, MoveSlider(f, v) PROVE Inv'
    BY <1>9, NavigateInv DEF MoveSlider
<1>10. ASSUME NEW v, NEW fresh \in BOOLEAN, Rebuild(f, v, fresh) PROVE Inv'
    BY <1>10, NavigateInv DEF Rebuild
<1>11. QED
    BY <1>1, <1>2, <1>3, <1>4, <1>5, <1>6, <1>7, <1>8, <1>9, <1>10 DEF ActsOn

\* The pages that a link leads to are pages of the tables.
LEMMA PageIsKnown ==
    ASSUME Inv, NEW scope \in {"eu", "pl"}, NEW c \in EU_CONTEXT_COLLECTIONS \cap DOMAIN Answers
    PROVE  Page(scope, c) \in Pages
    BY DEF Inv, Page, Pages

\* Who leaves comes to a page with its own configurations.
LEMMA LeavesInv ==
    ASSUME Inv, Leaves
    PROVE  Inv'
<1>1. "all_collection" \in EU_CONTEXT_COLLECTIONS \cap DOMAIN Answers
    BY AnswersAssumption DEF EU_CONTEXT_COLLECTIONS, PL_CONTEXT_COLLECTIONS
<1>2. place.scope \in {"eu", "pl"}
    BY DEF Inv, Pages
<1>3. ASSUME NEW page \in Places, setCollection(page.collection) PROVE Inv'
  <2>1. page.collection \in EU_CONTEXT_COLLECTIONS \cap DOMAIN Answers
    BY TablesAssumption, AnswersAssumption
  <2>2. QED
    BY <1>2, <1>3, <2>1, PageIsKnown, GotoInv DEF setCollection
<1>4. CASE Breadcrumb
    BY <1>1, <1>4, PageIsKnown, GotoInv DEF Breadcrumb
<1>5. ASSUME NEW v \in Related, ShowRelated(v) PROVE Inv'
    BY <1>1, <1>5, PageIsKnown, GotoInv DEF ShowRelated
<1>6. QED
    BY <1>3, <1>4, <1>5 DEF Leaves

\* What the program does keeps the page.
LEMMA ProgramInv ==
    ASSUME Inv, Program
    PROVE  Inv'
<1>1. CASE fetchFilters
    BY <1>1 DEF fetchFilters, Inv, setScope
<1>2. CASE Render
  <2>1. CASE UNCHANGED <<place, configs, fq, answer>>
    BY <2>1 DEF Inv, setScope
  <2>2. ASSUME NEW filters, NEW p, Goto(place, filters, p) PROVE Inv'
    BY <2>2, GotoInv DEF Inv
  <2>3. QED
    BY <1>2, <2>1, <2>2 DEF Render
<1>3. CASE RangeEcho
    BY <1>3, NavigateInv DEF RangeEcho
<1>4. QED
    BY <1>1, <1>2, <1>3 DEF Program

\* No step leaves the configurations of another page in the store.
LEMMA NextInv == Inv /\ [Next]_vars => Inv'
<1>1. SUFFICES ASSUME Inv, [Next]_vars PROVE Inv'
    OBVIOUS
<1>2. ASSUME NEW f \in Filters, ActsOn(f) PROVE Inv'
    BY <1>1, <1>2, ActsOnInv
<1>3. CASE clearAll
    BY <1>1, <1>3, NavigateInv DEF clearAll
<1>4. CASE OtherParams
    BY <1>1, <1>4, GotoInv DEF OtherParams, Inv
<1>5. CASE Leaves
    BY <1>1, <1>5, LeavesInv
<1>6. CASE Program
    BY <1>1, <1>6, ProgramInv
<1>7. CASE UNCHANGED vars
    BY <1>1, <1>7 DEF vars, Inv, setScope
<1>8. QED
    BY <1>1, <1>2, <1>3, <1>4, <1>5, <1>6, <1>7 DEF Next

\* The configurations are those of the page, always.
LEMMA Invariance == Spec => []Inv
    BY InitInv, NextInv, PTL DEF Spec

-----------------------------------------------------------------------------
(* What is added to a filter is in the address that is written.             *)

\* After a navigation the address has the filters that were written.
LEMMA NavigateWrites ==
    ASSUME NEW filters, NEW p, Navigate(filters, p)
    PROVE  fq' = filters
    BY DEF Navigate, Goto

\* A value that is added to a filter of the page, no range, is in what is written.
LEMMA AddedIsWritten ==
    ASSUME NEW map, NEW f \in DOMAIN configs, configs[f] \notin RangeTypes, NEW v
    PROVE  v \in Values(addFilterValue(map, f, v), f)
<1> DEFINE added == Values(map, f) \union {v}
<1> DEFINE all == With(map, f, added)
<1> DEFINE written == [g \in DOMAIN all \cap DOMAIN configs |-> deserialize(g, all[g], 1)]
<1>1. f \in DOMAIN all /\ all[f] = added
    BY DEF With
<1>2. deserialize(f, added, 1) = added
    BY DEF deserialize, RangeTypes
<1>3. f \in DOMAIN written /\ written[f] = added
    BY <1>1, <1>2
<1>4. addFilterValue(map, f, v) = Restrict(written, {g \in DOMAIN written : written[g] # {}})
    BY DEF addFilterValue, Deserialized
<1>5. v \in added
    OBVIOUS
<1> HIDE DEF written, added
<1>6. f \in DOMAIN addFilterValue(map, f, v) /\ addFilterValue(map, f, v)[f] = added
    BY <1>3, <1>4, <1>5 DEF Restrict
<1>7. QED
    BY <1>5, <1>6 DEF Values

\* A click on a tag of a card narrows the search to the value of the tag, on
\* every page of both scopes, unless the scope leaves the filter of the tag out.
THEOREM TagsNarrow == Spec => TagNarrows
<1>1. ASSUME Inv, NEW f \in Tags[place.scope][place.collection],
             f \notin Excluded(place.scope, place.collection), NEW v, ClickTag(f, v)
      PROVE  v \in Values(fq', f)
  <2>1. f \in DOMAIN configs /\ configs[f] \notin RangeTypes
    BY <1>1, TablesAssumption DEF Inv, Pages, setScope
  <2>2. fq' = addFilterValue(Serialized(fq), f, v)
    BY <1>1, NavigateWrites DEF ClickTag
  <2>3. QED
    BY <2>1, <2>2, AddedIsWritten
<1>2. Inv => [\A f \in Tags[place.scope][place.collection] \cap DOMAIN Offered :
                f \notin Excluded(place.scope, place.collection) =>
                   \A v \in Offered[f] : v \in Values(fq', f) \/ ~ClickTag(f, v)]_vars
    BY <1>1
<1>3. QED
    BY <1>2, Invariance, PTL DEF TagNarrows

-----------------------------------------------------------------------------
(* The rewriting of the filters keeps their meaning.                        *)

Asked == DOMAIN fq \ Typed(configs, RangeTypes)
MatchesAll(doc, filters) == \A filter \in filters : Matches(doc, filter)
MatchesOne(doc, query) == \E filter \in query : Matches(doc, filter)
Hits(doc, queries) == \A query \in queries : MatchesOne(doc, query)

\* A filter of terms matches the documents that have one of its values.
LEMMA TermsMean ==
    ASSUME NEW doc, NEW f, NEW values
    PROVE  Matches(doc, Terms(f, values)) <=> values \cap Field(doc, f) # {}
    BY DEF Matches, Terms

\* What is written for a filter is about that filter.
LEMMA WrittenFields ==
    ASSUME NEW f, NEW values, NEW w \in Written(f, values)
    PROVE  w.field = f
    BY DEF Written, Terms

\* A tag asks for all its values, any other filter for one of them.
LEMMA WrittenMean ==
    ASSUME NEW doc, NEW f, NEW values
    PROVE  MatchesAll(doc, Written(f, values)) <=>
             IF f \in Typed(configs, {"tag"}) THEN values \subseteq Field(doc, f)
             ELSE values \cap Field(doc, f) # {}
<1>1. CASE f \in Typed(configs, {"tag"})
  <2>1. Written(f, values) = {Terms(f, {v}) : v \in values}
    BY <1>1 DEF Written
  <2>2. MatchesAll(doc, Written(f, values)) <=> \A v \in values : Matches(doc, Terms(f, {v}))
    BY <2>1 DEF MatchesAll
  <2>3. \A v \in values : Matches(doc, Terms(f, {v})) <=> v \in Field(doc, f)
    BY TermsMean
  <2>4. QED
    BY <1>1, <2>2, <2>3
<1>2. CASE f \notin Typed(configs, {"tag"})
  <2>1. Written(f, values) = {Terms(f, values)}
    BY <1>2 DEF Written
  <2>2. QED
    BY <1>2, <2>1, TermsMean DEF MatchesAll
<1>3. QED
    BY <1>1, <1>2

\* What is sent are the filters of the address that are no range.
LEMMA SentIs ==
    ASSUME NEW w
    PROVE  w \in Sent(fq) <=> \E f \in Asked : w \in Written(f, fq[f])
    BY DEF Sent, Asked

\* Of what is sent, the filters of some fields are those written for them.
LEMMA AboutIs ==
    ASSUME NEW fields, NEW w
    PROVE  w \in About(Sent(fq), fields) <=> \E f \in Asked \cap fields : w \in Written(f, fq[f])
    BY SentIs, WrittenFields DEF About

\* The filters that are left alone match what they matched.
LEMMA RestMeans ==
    ASSUME NEW doc, NEW fields
    PROVE  MatchesAll(doc, Sent(fq) \ About(Sent(fq), fields)) <=>
             \A f \in Asked \ fields : MatchesAll(doc, Written(f, fq[f]))
    BY SentIs, AboutIs, WrittenFields DEF MatchesAll

\* Filters that each make a query must all match,
LEMMA EachMeans ==
    ASSUME NEW doc, NEW filters, NEW more
    PROVE  Hits(doc, Each(filters) \union more) <=> MatchesAll(doc, filters) /\ Hits(doc, more)
<1>1. Hits(doc, Each(filters)) <=> MatchesAll(doc, filters)
  <2>1. \A w \in filters : {w} \in Each(filters)
    BY DEF Each
  <2>2. \A query \in Each(filters) : \E w \in filters : query = {w}
    BY DEF Each
  <2>3. \A w : MatchesOne(doc, {w}) <=> Matches(doc, w)
    BY DEF MatchesOne
  <2>4. QED
    BY <2>1, <2>2, <2>3 DEF Hits, MatchesAll
<1>2. QED
    BY <1>1 DEF Hits

\* and nothing else if there are no other queries.
LEMMA EachAlone ==
    ASSUME NEW doc, NEW filters
    PROVE  Hits(doc, Each(filters)) <=> MatchesAll(doc, filters)
<1>1. Each(filters) \union {} = Each(filters)
    OBVIOUS
<1>2. Hits(doc, {})
    BY DEF Hits
<1>3. QED
    BY <1>1, <1>2, EachMeans

\* The documents that are found are those that every query hits.
LEMMA FoundIs ==
    ASSUME NEW filters, NEW doc
    PROVE  doc \in Results(filters) <=>
             doc \in Documents[place.collection] /\ Hits(doc, search(place.collection, filters))
    BY DEF Results, Found, Hits, MatchesOne

\* With filters that are left alone, and one query in place of the others.
LEMMA OneMoreMeans ==
    ASSUME NEW doc, NEW filters, NEW query
    PROVE  Hits(doc, Each(filters) \union {query}) <=>
             MatchesAll(doc, filters) /\ MatchesOne(doc, query)
<1>1. Hits(doc, {query}) <=> MatchesOne(doc, query)
    BY DEF Hits
<1>2. QED
    BY <1>1, EachMeans

\* What Solr makes of a range of days.
LEMMA RangeMeans ==
    ASSUME NEW doc, NEW op \in {"Contains", "Within", "Intersects"}, NEW first, NEW last
    PROVE  Matches(doc, DateRange(op, first, last)) <=>
             \E r \in Field(doc, "date_range") :
                CASE op = "Contains" -> r[1] <= first /\ last <= r[2]
                  [] op = "Within" -> first <= r[1] /\ r[2] <= last
                  [] op = "Intersects" -> r[1] <= last /\ first <= r[2]
<1> DEFINE w == DateRange(op, first, last)
           v == <<first, last>>
<1>1. w.field = "date_range" /\ w.op = op /\ w.values = {v}
    BY DEF DateRange
<1>2. v[1] = first /\ v[2] = last
    OBVIOUS
<1> HIDE DEF w, v
<1>3. CASE op = "Contains"
  <2>1. Matches(doc, w) <=> \E r \in Field(doc, "date_range"), x \in {v} : r[1] <= x[1] /\ x[2] <= r[2]
    BY <1>1, <1>3, Zenon DEF Matches
  <2>2. QED
    BY <1>2, <1>3, <2>1 DEF w
<1>4. CASE op = "Within"
  <2>1. Matches(doc, w) <=> \E r \in Field(doc, "date_range"), x \in {v} : x[1] <= r[1] /\ r[2] <= x[2]
    BY <1>1, <1>4, Zenon DEF Matches
  <2>2. QED
    BY <1>2, <1>4, <2>1 DEF w
<1>5. CASE op = "Intersects"
  <2>1. Matches(doc, w) <=> \E r \in Field(doc, "date_range"), x \in {v} : r[1] <= x[2] /\ x[1] <= r[2]
    BY <1>1, <1>5, Zenon DEF Matches
  <2>2. QED
    BY <1>2, <1>5, <2>1 DEF w
<1>6. QED
    BY <1>3, <1>4, <1>5 DEF w

\* The ranges of days are those of the status.
LEMMA StatusMeans ==
    ASSUME NEW doc \in Documents["project"],
           NEW values \in {{Ongoing}, {Closed}, {Ongoing, Closed}}
    PROVE  Matches(doc, STATUS_TO_DATE_RANGE_MAP(values)) <=> \E v \in values : HasStatus(doc, v)
<1> DEFINE ranges == Field(doc, "date_range")
<1>1. \A days \in ranges : days[1] \in Nat /\ days[2] \in Nat /\ days[1] <= days[2]
    BY DocumentsAssumption
<1>2. /\ Ongoing # Closed
      /\ {Ongoing} # {Closed} /\ {Ongoing} # {Ongoing, Closed} /\ {Closed} # {Ongoing, Closed}
  <2>1. Ongoing # Closed
    BY DEF Ongoing, Closed
  <2>2. Ongoing \in {Ongoing} /\ Ongoing \notin {Closed} /\ Closed \notin {Ongoing}
    BY <2>1
  <2>3. QED
    BY <2>1, <2>2
<1>3. Today \in Nat /\ Today >= 1 /\ Yesterday \in Nat /\ Yesterday = Today - 1
    BY TodayAssumption DEF Yesterday
<1>4. CASE values = {Ongoing}
  <2>1. STATUS_TO_DATE_RANGE_MAP(values) = DateRange("Contains", Today, Today)
    BY <1>2, <1>4 DEF STATUS_TO_DATE_RANGE_MAP
  <2>2. Matches(doc, DateRange("Contains", Today, Today)) <=>
          \E r \in ranges : r[1] <= Today /\ Today <= r[2]
    BY RangeMeans
  <2>3. HasStatus(doc, Ongoing) <=> \E r \in ranges : r[1] <= Today /\ Today <= r[2]
    BY <1>1, <1>3 DEF HasStatus
  <2>4. QED
    BY <1>4, <2>1, <2>2, <2>3
<1>5. CASE values = {Closed}
  <2>1. STATUS_TO_DATE_RANGE_MAP(values) = DateRange("Within", 0, Yesterday)
    BY <1>2, <1>5 DEF STATUS_TO_DATE_RANGE_MAP
  <2>2. Matches(doc, DateRange("Within", 0, Yesterday)) <=>
          \E r \in ranges : 0 <= r[1] /\ r[2] <= Yesterday
    BY RangeMeans
  <2>3. HasStatus(doc, Closed) <=> \E r \in ranges : r[2] < Today
    BY <1>2 DEF HasStatus
  <2>4. QED
    BY <1>1, <1>3, <1>5, <2>1, <2>2, <2>3
<1>6. CASE values = {Ongoing, Closed}
  <2>1. STATUS_TO_DATE_RANGE_MAP(values) = DateRange("Intersects", 0, Today)
    BY <1>2, <1>6 DEF STATUS_TO_DATE_RANGE_MAP
  <2>2. Matches(doc, DateRange("Intersects", 0, Today)) <=>
          \E r \in ranges : r[1] <= Today /\ 0 <= r[2]
    BY RangeMeans
  <2>3. HasStatus(doc, Closed) <=> \E r \in ranges : r[2] < Today
    BY <1>2 DEF HasStatus
  <2>4. HasStatus(doc, Ongoing) <=> \E r \in ranges : r[1] <= Today /\ Today <= r[2]
    BY <1>1, <1>3 DEF HasStatus
  <2>5. QED
    BY <1>1, <1>3, <1>6, <2>1, <2>2, <2>3, <2>4
<1>7. QED
    BY <1>4, <1>5, <1>6

\* A filter that is not rewritten asks for what is written.
LEMMA PlainMeans ==
    ASSUME NEW doc, NEW f \in Asked, f \notin Rewritten(place.collection)
    PROVE  MatchesAll(doc, Written(f, fq[f])) <=> Satisfies(doc, f, fq[f])
<1>1. ~(f = "project_status" /\ place.collection = "project")
    BY DEF Rewritten
<1>2. ~(f = "related_resources" /\ place.collection = "organisation")
    BY DEF Rewritten
<1>3. QED
    BY <1>1, <1>2, WrittenMean DEF Satisfies

\* A filter that is rewritten is written once.
LEMMA RewrittenIsOne ==
    ASSUME Inv, NEW f \in Asked \cap Rewritten(place.collection)
    PROVE  f \notin Typed(configs, {"tag"}) /\ Written(f, fq[f]) = {Terms(f, fq[f])}
<1>1. f \in DOMAIN configs => configs[f] \in CheckboxTypes
    BY TablesAssumption DEF Inv, Pages, setScope
<1>2. f \notin Typed(configs, {"tag"})
    BY <1>1 DEF Typed, CheckboxTypes
<1>3. QED
    BY <1>2 DEF Written

\* The filters that are not rewritten find what is asked for.
LEMMA RestSatisfied ==
    ASSUME NEW doc
    PROVE  MatchesAll(doc, Sent(fq) \ About(Sent(fq), Rewritten(place.collection))) <=>
             \A f \in Asked \ Rewritten(place.collection) : Satisfies(doc, f, fq[f])
<1>1. \A f \in Asked \ Rewritten(place.collection) :
        MatchesAll(doc, Written(f, fq[f])) <=> Satisfies(doc, f, fq[f])
    BY PlainMeans
<1>2. QED
    BY <1>1, RestMeans

\* A filter that is rewritten alone is one filter of the request.
LEMMA AboutOne ==
    ASSUME Inv, NEW f, Rewritten(place.collection) = {f}, f \in Asked
    PROVE  About(Sent(fq), {f}) = {Terms(f, fq[f])}
<1>1. Written(f, fq[f]) = {Terms(f, fq[f])}
    BY RewrittenIsOne
<1>2. QED
    BY <1>1, AboutIs

\* Nothing is sent about fields that are not asked for.
LEMMA AboutNone ==
    ASSUME NEW fields, Asked \cap fields = {}
    PROVE  About(Sent(fq), fields) = {}
    BY AboutIs

\* The operator filter of a collection with one rewritten filter f finds the same
\* as the filters themselves, if the query in its place does.
LEMMA OneRewritten ==
    ASSUME NEW doc \in Documents[place.collection], NEW f, NEW query,
           Rewritten(place.collection) = {f}, f \in Asked,
           search(place.collection, Sent(fq)) =
             Each(Sent(fq) \ About(Sent(fq), {f})) \union {query},
           MatchesOne(doc, query) <=> Satisfies(doc, f, fq[f])
    PROVE  doc \in Results(Sent(fq)) <=> \A g \in Asked : Satisfies(doc, g, fq[g])
<1> DEFINE rest == Sent(fq) \ About(Sent(fq), {f})
<1>1. doc \in Results(Sent(fq)) <=> Hits(doc, Each(rest) \union {query})
    BY FoundIs
<1>2. MatchesAll(doc, rest) <=> \A g \in Asked \ {f} : Satisfies(doc, g, fq[g])
    BY RestSatisfied
<1> HIDE DEF rest
<1>3. Hits(doc, Each(rest) \union {query}) <=> MatchesAll(doc, rest) /\ MatchesOne(doc, query)
    BY OneMoreMeans
<1>4. QED
    BY <1>1, <1>2, <1>3

\* Without any filter to rewrite the request is left as it is.
LEMMA NoneRewritten ==
    ASSUME NEW doc \in Documents[place.collection],
           Asked \cap Rewritten(place.collection) = {},
           search(place.collection, Sent(fq)) = Each(Sent(fq))
    PROVE  doc \in Results(Sent(fq)) <=> \A g \in Asked : Satisfies(doc, g, fq[g])
<1> DEFINE S == Sent(fq)
<1>1. S \ About(S, Rewritten(place.collection)) = S
    BY AboutNone
<1>2. MatchesAll(doc, S) <=> \A g \in Asked : Satisfies(doc, g, fq[g])
    BY <1>1, RestSatisfied
<1>3. doc \in Results(S) <=> Hits(doc, Each(S))
    BY FoundIs
<1>4. Hits(doc, Each(S)) <=> MatchesAll(doc, S)
    BY EachAlone
<1>5. QED
    BY <1>2, <1>3, <1>4

\* A project is found if and only if it satisfies all that is asked for.
LEMMA ProjectMeans ==
    ASSUME Inv, place.collection = "project", Parsable("project", Sent(fq)),
           NEW doc \in Documents["project"]
    PROVE  doc \in Results(Sent(fq)) <=> \A f \in Asked : Satisfies(doc, f, fq[f])
<1> DEFINE f == "project_status"
           S == Sent(fq)
<1>1. Rewritten(place.collection) = {f}
    BY DEF Rewritten
<1>2. search("project", S) = parse_project_filters(S)
    BY DEF search
<1>3. CASE f \notin Asked
  <2>1. About(S, {f}) = {}
    BY <1>3, AboutNone
  <2>2. parse_project_filters(S) = Each(S)
    BY <2>1 DEF parse_project_filters
  <2>3. QED
    BY <1>1, <1>2, <1>3, <2>2, NoneRewritten
<1>4. CASE f \in Asked
  <2> DEFINE values == fq[f]
             query == {STATUS_TO_DATE_RANGE_MAP(values)}
  <2>1. About(S, {f}) = {Terms(f, values)}
    BY <1>1, <1>4, AboutOne
  <2>2. (CHOOSE filter \in About(S, {f}) : TRUE) = Terms(f, values)
    BY <2>1
  <2>3. Terms(f, values).values = values
    BY DEF Terms
  <2>4. values \in {{Ongoing}, {Closed}, {Ongoing, Closed}}
    BY <2>1, <2>3 DEF Parsable
  <2>5. parse_project_filters(S) = Each(S \ About(S, {f})) \union {query}
    BY <2>1, <2>2, <2>3 DEF parse_project_filters
  <2>6. f \notin Typed(configs, {"tag"})
    BY <1>1, <1>4, RewrittenIsOne
  <2>7. MatchesOne(doc, query) <=> Satisfies(doc, f, values)
    <3> HIDE DEF values
    <3>1. Satisfies(doc, f, values) <=> \E v \in values : HasStatus(doc, v)
      BY <2>6 DEF Satisfies
    <3>2. QED
      BY <2>4, <3>1, StatusMeans DEF MatchesOne
  <2>8. QED
    BY <1>1, <1>2, <1>4, <2>5, <2>7, OneRewritten
<1>5. QED
    BY <1>3, <1>4

\* So is an organisation.
LEMMA OrganisationMeans ==
    ASSUME Inv, place.collection = "organisation", NEW doc \in Documents["organisation"]
    PROVE  doc \in Results(Sent(fq)) <=> \A f \in Asked : Satisfies(doc, f, fq[f])
<1> DEFINE f == "related_resources"
           S == Sent(fq)
<1>1. Rewritten(place.collection) = {f}
    BY DEF Rewritten
<1>2. search("organisation", S) = parse_organisation_filters(S)
    BY DEF search
<1>3. CASE f \notin Asked
  <2>1. About(S, {f}) = {}
    BY <1>3, AboutNone
  <2>2. parse_organisation_filters(S) = Each(S)
    BY <2>1 DEF parse_organisation_filters
  <2>3. QED
    BY <1>1, <1>2, <1>3, <2>2, NoneRewritten
<1>4. CASE f \in Asked
  <2> DEFINE values == fq[f]
             query == {Present(TYPE_TO_FIELD_MAP[v[1]]) : v \in values}
  <2>1. About(S, {f}) = {Terms(f, values)}
    BY <1>1, <1>4, AboutOne
  <2>2. (CHOOSE filter \in About(S, {f}) : TRUE) = Terms(f, values)
    BY <2>1
  <2>3. Terms(f, values).values = values
    BY DEF Terms
  <2>4. parse_organisation_filters(S) = Each(S \ About(S, {f})) \union {query}
    BY <2>1, <2>2, <2>3 DEF parse_organisation_filters
  <2>5. f \notin Typed(configs, {"tag"})
    BY <1>1, <1>4, RewrittenIsOne
  <2>6. MatchesOne(doc, query) <=> Satisfies(doc, f, values)
    <3> HIDE DEF values
    <3>1. Satisfies(doc, f, values) <=>
            \E v \in values : Field(doc, TYPE_TO_FIELD_MAP[v[1]]) # {}
      BY <2>5 DEF Satisfies
    <3>2. \A field : Matches(doc, Present(field)) <=> Field(doc, field) # {}
      BY DEF Matches, Present
    <3>3. MatchesOne(doc, query) <=>
            \E v \in values : Matches(doc, Present(TYPE_TO_FIELD_MAP[v[1]]))
      BY DEF MatchesOne
    <3>4. QED
      BY <3>1, <3>2, <3>3
  <2>7. QED
    BY <1>1, <1>2, <1>4, <2>4, <2>6, OneRewritten
<1>5. QED
    BY <1>3, <1>4

\* With the filters of providers joined by OR, one of them is enough.
LEMMA ProvidersMean ==
    ASSUME Inv, place.collection = "all_collection", NEW doc \in Documents["all_collection"]
    PROVE  doc \in Results(Sent(fq)) <=>
             LET either == Asked \cap Rewritten("all_collection")
             IN /\ \A f \in Asked \ either : Satisfies(doc, f, fq[f])
                /\ either # {} => \E f \in either : Satisfies(doc, f, fq[f])
<1> DEFINE S == Sent(fq)
           fields == {"providers", "resource_organisation"}
           either == Asked \cap fields
           query == About(S, fields)
           rest == S \ query
<1>1. Rewritten(place.collection) = fields /\ Rewritten("all_collection") = fields
    BY DEF Rewritten
<1>2. doc \in Results(S) <=> Hits(doc, search("all_collection", S))
    BY FoundIs
<1>3. MatchesAll(doc, rest) <=> \A f \in Asked \ either : Satisfies(doc, f, fq[f])
  <2>1. Asked \ either = Asked \ fields
    OBVIOUS
  <2>2. QED
    BY <1>1, <2>1, RestSatisfied
<1>4. \A f \in either : Written(f, fq[f]) = {Terms(f, fq[f])} /\ f \notin Typed(configs, {"tag"})
    BY <1>1, RewrittenIsOne
<1>5. \A f \in either : Matches(doc, Terms(f, fq[f])) <=> Satisfies(doc, f, fq[f])
  <2> SUFFICES ASSUME NEW f \in either
               PROVE  Matches(doc, Terms(f, fq[f])) <=> Satisfies(doc, f, fq[f])
    OBVIOUS
  <2>1. f \notin Typed(configs, {"tag"}) /\ f \notin {"project_status", "related_resources"}
    BY <1>4
  <2>2. Satisfies(doc, f, fq[f]) <=> fq[f] \cap Field(doc, f) # {}
    BY <2>1 DEF Satisfies
  <2>3. QED
    BY <2>2, TermsMean
<1>6. \A w : w \in query <=> \E f \in either : w = Terms(f, fq[f])
  <2>1. \A w : w \in query <=> \E f \in either : w \in Written(f, fq[f])
    BY AboutIs
  <2>2. QED
    BY <1>4, <2>1
<1>7. MatchesOne(doc, query) <=> \E f \in either : Satisfies(doc, f, fq[f])
    BY <1>5, <1>6 DEF MatchesOne
<1>8. CASE "providers" \in Asked
  <2>1. About(S, {"providers"}) # {}
    <3>1. Terms("providers", fq["providers"]) \in Written("providers", fq["providers"])
      BY <1>4, <1>8
    <3>2. QED
      BY <1>8, <3>1, AboutIs
  <2>2. search("all_collection", S) = Each(rest) \union {query}
    BY <2>1 DEF search, parse_providers_filters
  <2>3. doc \in Results(S) <=> MatchesAll(doc, rest) /\ MatchesOne(doc, query)
    <3> HIDE DEF rest, query
    <3>1. QED
      BY <1>2, <2>2, OneMoreMeans
  <2>4. either # {}
    BY <1>8
  <2>5. QED
    BY <1>1, <1>3, <1>7, <2>3, <2>4
<1>9. CASE "providers" \notin Asked
  <2>1. About(S, {"providers"}) = {}
    BY <1>9, AboutNone
  <2>2. search("all_collection", S) = Each(S)
    BY <2>1 DEF search
  <2>3. S = rest \union query
    BY DEF About
  <2>4. MatchesAll(doc, S) <=> MatchesAll(doc, rest) /\ MatchesAll(doc, query)
    <3> HIDE DEF S, rest, query
    <3>1. QED
      BY <2>3 DEF MatchesAll
  <2>5. MatchesAll(doc, query) <=> \A f \in either : Satisfies(doc, f, fq[f])
    BY <1>5, <1>6 DEF MatchesAll
  <2>6. either \subseteq {"resource_organisation"}
    BY <1>9
  <2>7. doc \in Results(S) <=> MatchesAll(doc, S)
    BY <1>2, <2>2, EachAlone
  <2>8. (\A f \in either : Satisfies(doc, f, fq[f])) <=>
          (either # {} => \E f \in either : Satisfies(doc, f, fq[f]))
    BY <2>6
  <2>9. QED
    BY <1>1, <1>3, <2>4, <2>5, <2>7, <2>8
<1>10. QED
    BY <1>8, <1>9

\* In the other collections no filter is rewritten.
LEMMA OthersMean ==
    ASSUME place.collection \notin {"all_collection", "project", "organisation"},
           NEW doc \in Documents[place.collection]
    PROVE  doc \in Results(Sent(fq)) <=> \A f \in Asked : Satisfies(doc, f, fq[f])
<1>1. Rewritten(place.collection) = {}
    BY DEF Rewritten
<1>2. search(place.collection, Sent(fq)) = Each(Sent(fq))
    BY DEF search
<1>3. QED
    BY <1>1, <1>2, NoneRewritten

\* Where the filters can be parsed, what is found is what is asked for.
LEMMA FoundMeans ==
    ASSUME Inv, Parsable(place.collection, Sent(fq))
    PROVE  FoundAsAsked
<1> DEFINE either == IF place.collection = "all_collection"
                     THEN Asked \cap Rewritten("all_collection") ELSE {}
           wanted(doc) == /\ \A f \in Asked \ either : Satisfies(doc, f, fq[f])
                          /\ either # {} => \E f \in either : Satisfies(doc, f, fq[f])
<1>1. ASSUME NEW doc \in Documents[place.collection]
      PROVE  doc \in Results(Sent(fq)) <=> wanted(doc)
  <2>1. CASE place.collection = "all_collection"
    BY <1>1, <2>1, ProvidersMean
  <2>2. CASE place.collection = "project"
    BY <1>1, <2>2, ProjectMeans
  <2>3. CASE place.collection = "organisation"
    BY <1>1, <2>3, OrganisationMeans
  <2>4. CASE place.collection \notin {"all_collection", "project", "organisation"}
    BY <1>1, <2>4, OthersMean
  <2>5. QED
    BY <2>1, <2>2, <2>3, <2>4
<1>2. Results(Sent(fq)) \subseteq Documents[place.collection]
    BY DEF Results, Found
<1>3. Results(Sent(fq)) = {doc \in Documents[place.collection] : wanted(doc)}
    BY <1>1, <1>2
<1>4. QED
    BY <1>3 DEF FoundAsAsked, Asked

-----------------------------------------------------------------------------
(* Reading and writing keep the values that a filter can have.              *)

\* The address a page may hold.
AddressIs(map) == \A f \in DOMAIN map : map[f] # {} /\ map[f] \subseteq Legal(f)
\* The same of the filters of this page only, which may be without values.
Held(map) == \A f \in DOMAIN map \cap DOMAIN configs : map[f] \subseteq Legal(f)

\* A filter of ranges can have every range,
LEMMA LegalRange ==
    ASSUME NEW f \in RangeFilters
    PROVE  Legal(f) = Ranges
    BY DEF Legal

\* and any other filter every option that a fetch may bring.
LEMMA OfferedIsLegal ==
    ASSUME NEW f, f \notin RangeFilters
    PROVE  Values(Offered, f) \subseteq Legal(f)
    BY DEF Legal

\* A filter of this page with one of some types has one of them somewhere.
LEMMA TypeHere ==
    ASSUME Inv, NEW f \in DOMAIN configs, NEW types, configs[f] \in types
    PROVE  f \in Ever(types)
<1>1. PICK scope \in {"eu", "pl"}, c \in EU_CONTEXT_COLLECTIONS : configs = Configs[scope][c]
    BY DEF Inv, Pages, setScope
<1>2. f \in Typed(Configs[scope][c], types)
    BY <1>1 DEF Typed
<1>3. QED
    BY <1>2 DEF Ever

\* A filter that is a range, a duration or a checkbox somewhere is one here.
LEMMA SameFamily ==
    ASSUME Inv, NEW f \in DOMAIN configs,
           NEW types \in {RangeTypes, {"range"}, CheckboxTypes}, f \in Ever(types)
    PROVE  configs[f] \in types
    BY FamiliesAssumption DEF Inv, Pages, setScope

\* A filter of this page is a range here if and only if it is one somewhere.
LEMMA RangeHere ==
    ASSUME Inv, NEW f \in DOMAIN configs
    PROVE  configs[f] \in RangeTypes <=> f \in RangeFilters
    BY TypeHere, SameFamily DEF RangeFilters

\* A filter that has any other type on some page is a range on none.
LEMMA NoRange ==
    ASSUME NEW types, types \cap RangeTypes = {}, NEW f \in Ever(types)
    PROVE  f \notin RangeFilters
<1>1. PICK scope \in {"eu", "pl"}, c \in EU_CONTEXT_COLLECTIONS :
        f \in DOMAIN Configs[scope][c] /\ Configs[scope][c][f] \in types
    BY DEF Ever, Typed
<1>2. f \in Ever(RangeTypes) => Configs[scope][c][f] \in RangeTypes
    BY <1>1, FamiliesAssumption
<1>3. QED
    BY <1>1, <1>2 DEF RangeFilters

\* A duration that is read is a duration.
LEMMA RangeSerialized ==
    ASSUME NEW v \in Ranges
    PROVE  RangeSerializer(v) \in Ranges
    BY NumbersAssumption DEF RangeSerializer, Ranges, Ends, NoDates

\* A day that moves is a day.
LEMMA DayMoved ==
    ASSUME NEW d \in Nat, NEW n \in Nat
    PROVE  (d + Days - (n % Days)) % Days \in Nat
<1>1. Days \in Nat /\ Days > 0
    BY NumbersAssumption
<1>2. n % Days \in Nat /\ n % Days < Days
    BY <1>1
<1>3. d + Days - (n % Days) \in Nat
    BY <1>1, <1>2
<1>4. QED
    BY <1>1, <1>3

\* Dates that move are dates, and not without both ends if they were not.
LEMMA DatesMoved ==
    ASSUME NEW values, NEW n \in Nat, NEW v \in DateDeserializer(values, n)
    PROVE  /\ values \subseteq Ranges => v \in Ranges
           /\ values \subseteq Ends \X Ends => v \in Ends \X Ends
<1> DEFINE DayBefore(d) == IF d = None THEN None ELSE (d + Days - (n % Days)) % Days
<1>1. \A d \in Ends : DayBefore(d) \in Ends /\ (DayBefore(d) = None <=> d = None)
    BY DayMoved, NumbersAssumption DEF Ends
<1>2. CASE ~place.west
    BY <1>2 DEF DateDeserializer
<1>3. CASE place.west
  <2>1. PICK w \in values : v = <<DayBefore(w[1]), DayBefore(w[2])>>
    BY <1>3 DEF DateDeserializer
  <2> HIDE DEF DayBefore
  <2>2. w \in Ends \X Ends => v \in Ends \X Ends
    BY <1>1, <2>1
  <2>3. w \in Ends \X Ends /\ w # NoDates => v # NoDates
    BY <1>1, <2>1 DEF NoDates
  <2>4. QED
    BY <2>2, <2>3 DEF Ranges
<1>4. QED
    BY <1>2, <1>3

\* What is read from an address are values that its filters can have.
LEMMA SerializedIs ==
    ASSUME Inv, Held(fq)
    PROVE  Held(Serialized(fq))
<1> SUFFICES ASSUME NEW f \in DOMAIN fq \cap DOMAIN configs
             PROVE  Serialized(fq)[f] \subseteq Legal(f)
    BY DEF Held, Serialized
<1>1. fq[f] \subseteq Legal(f)
    BY DEF Held
<1>2. CASE configs[f] = "range"
  <2>1. Serialized(fq)[f] = {RangeSerializer(v) : v \in fq[f]}
    BY <1>2 DEF Serialized
  <2>2. Legal(f) = Ranges
    BY <1>2, RangeHere, LegalRange DEF RangeTypes
  <2>3. QED
    BY <1>1, <2>1, <2>2, RangeSerialized
<1>3. CASE configs[f] # "range"
    BY <1>1, <1>3 DEF Serialized
<1>4. QED
    BY <1>2, <1>3

\* They are if such values are put in place of those of a filter,
LEMMA WithIs ==
    ASSUME NEW map, Held(map), NEW f, NEW values,
           f \in DOMAIN configs => values \subseteq Legal(f)
    PROVE  Held(With(map, f, values))
    BY DEF Held, With

\* and when they are written,
LEMMA DeserializedValues ==
    ASSUME Inv, NEW f \in DOMAIN configs, NEW values \in SUBSET Legal(f), NEW n \in Nat
    PROVE  deserialize(f, values, n) \subseteq Legal(f)
<1>1. CASE configs[f] \in DateTypes
  <2>1. Legal(f) = Ranges
    BY <1>1, RangeHere, LegalRange DEF RangeTypes
  <2>2. QED
    BY <1>1, <2>1, DatesMoved DEF deserialize
<1>2. CASE configs[f] \notin DateTypes
    BY <1>2 DEF deserialize, RangeDeserializer
<1>3. QED
    BY <1>1, <1>2

\* which leaves out the filters without values: the result is an address.
LEMMA DeserializedIs ==
    ASSUME Inv, NEW map, Held(map), NEW n \in Nat
    PROVE  AddressIs(Deserialized(map, n))
<1> DEFINE written == [f \in DOMAIN map \cap DOMAIN configs |-> deserialize(f, map[f], n)]
<1>1. \A f \in DOMAIN written : written[f] \subseteq Legal(f)
    BY DeserializedValues DEF Held
<1>2. Deserialized(map, n) = Restrict(written, {f \in DOMAIN written : written[f] # {}})
    BY DEF Deserialized
<1> HIDE DEF written
<1>3. QED
    BY <1>1, <1>2 DEF AddressIs, Restrict

\* To read an address, change one filter and write it makes an address.
LEMMA RewrittenIs ==
    ASSUME Inv, Held(fq), NEW f, NEW values, NEW n \in Nat,
           f \in DOMAIN configs => values \subseteq Legal(f)
    PROVE  AddressIs(Deserialized(With(Serialized(fq), f, values), n))
    BY SerializedIs, WithIs, DeserializedIs

\* So does the report of a range widget, which may be without dates.
LEMMA ReplacedIs ==
    ASSUME Inv, Held(fq), NEW f \in RangeFilters, NEW values \in SUBSET (Ends \X Ends)
    PROVE  AddressIs(Replaced(f, values))
<1> DEFINE others == Deserialized(Serialized(fq), 1)
           filters == With(others, f, values \ {NoDates})
<1>1. AddressIs(others)
    BY SerializedIs, DeserializedIs
<1>2. values \ {NoDates} \subseteq Legal(f)
    BY LegalRange DEF Ranges
<1> HIDE DEF others
<1>3. \A g \in DOMAIN filters : filters[g] \subseteq Legal(g)
    BY <1>1, <1>2 DEF With, AddressIs
<1>4. Replaced(f, values) = Restrict(filters, {g \in DOMAIN filters : filters[g] # {}})
    BY DEF Replaced, others
<1> HIDE DEF filters
<1>5. QED
    BY <1>3, <1>4 DEF AddressIs, Restrict

-----------------------------------------------------------------------------
(* What is left of a tree when some of its options are unticked: an         *)
(* induction over their number, over a set rather than a formula.           *)

\* Induction over the natural numbers, with a set for the formula.
LEMMA NatSteps ==
    ASSUME NEW T, 0 \in T, \A n \in Nat : n \in T => n + 1 \in T
    PROVE  Nat \subseteq T
<1> DEFINE R == OpToRel(<, Nat)
           U == Nat \ T
<1>1. IsWellFoundedOn(R, Nat)
    BY NatLessThanWellFounded
<1>2. ASSUME U # {} PROVE FALSE
  <2>1. PICK x \in U : \A y \in U : ~(<<y, x>> \in R)
    <3>1. U \subseteq Nat
      OBVIOUS
    <3> HIDE DEF R, U
    <3>2. QED
      BY <1>1, <1>2, <3>1, WFMin
  <2>2. \A y \in U : ~(y < x)
    BY <2>1 DEF OpToRel
  <2>3. x # 0 /\ x - 1 \in Nat /\ x - 1 < x /\ x = (x - 1) + 1
    OBVIOUS
  <2>4. x - 1 \in T
    BY <2>2, <2>3
  <2>5. QED
    BY <2>3, <2>4
<1>3. QED
    BY <1>2

\* The function f starts at a and takes N steps.
Stepwise(f, a, step, N) == f[0] = a /\ \A n \in 1..N : f[n] = step[n][f[n - 1]]
Walks(S, a, step, N) == {f \in [0..N -> S] : Stepwise(f, a, step, N)}

\* Where every step has a value, a function that is defined step by step exists.
LEMMA StepsExist ==
    ASSUME NEW S, NEW a \in S, NEW step \in [Nat -> [S -> S]], NEW N \in Nat
    PROVE  Walks(S, a, step, N) # {}
<1> DEFINE Steps(f, m) == f[0] = a /\ \A n \in 1..m : f[n] = step[n][f[n - 1]]
           T == {m \in Nat : \E f \in [0..m -> S] : Steps(f, m)}
<1>1. 0 \in T
  <2>1. [n \in 0..0 |-> a] \in [0..0 -> S] /\ Steps([n \in 0..0 |-> a], 0)
    OBVIOUS
  <2>2. QED
    BY <2>1
<1>2. ASSUME NEW m \in Nat, m \in T PROVE m + 1 \in T
  <2>1. PICK f \in [0..m -> S] : Steps(f, m)
    BY <1>2
  <2> DEFINE g == [n \in 0..(m + 1) |-> IF n = m + 1 THEN step[m + 1][f[m]] ELSE f[n]]
  <2>2. g \in [0..(m + 1) -> S]
    OBVIOUS
  <2>3. g[0] = a
    BY <2>1
  <2>4. ASSUME NEW n \in 1..(m + 1) PROVE g[n] = step[n][g[n - 1]]
    <3>1. n - 1 \in 0..m /\ g[n - 1] = f[n - 1]
      OBVIOUS
    <3>2. CASE n = m + 1
      BY <3>1, <3>2
    <3>3. CASE n \in 1..m
      BY <2>1, <3>1, <3>3
    <3>4. QED
      BY <3>2, <3>3
  <2>5. Steps(g, m + 1)
    BY <2>3, <2>4
  <2> HIDE DEF g, Steps
  <2>6. QED
    BY <2>2, <2>5
<1> HIDE DEF T
<1>3. Nat \subseteq T
    BY <1>1, <1>2, NatSteps
<1>4. N \in T
    BY <1>3
<1>5. QED
    BY <1>4 DEF T, Walks, Stepwise

\* One turn of removeFilterValueTree only takes values out,
LEMMA TreeShrinks ==
    ASSUME NEW old, NEW options, NEW v
    PROVE  removeFilterValueTree(old, options, v) \subseteq old
    BY DEF removeFilterValueTree

\* What is left when the options in unticked are taken out one by one.
Left(values, options, unticked) ==
    LET left[n \in 0..Len(unticked)] ==
            IF n = 0 THEN values
            ELSE removeFilterValueTree(left[n - 1], options, unticked[n])
    IN left[Len(unticked)]

\* and so do all turns together.
LEMMA LeftIs ==
    ASSUME NEW values, NEW options, NEW unticked, Len(unticked) \in Nat
    PROVE  Left(values, options, unticked) \subseteq values
<1> DEFINE S == SUBSET values
           N == Len(unticked)
           step == [n \in Nat |-> [s \in S |-> removeFilterValueTree(s, options, unticked[n])]]
           isLeft(h) ==
             h = [n \in 0..N |->
                    IF n = 0 THEN values
                    ELSE removeFilterValueTree(h[n - 1], options, unticked[n])]
           left == CHOOSE h : isLeft(h)
<1>1. step \in [Nat -> [S -> S]]
    BY TreeShrinks
<1>2. values \in S /\ N \in Nat
    OBVIOUS
<1>3. PICK g \in [0..N -> S] : g[0] = values /\ \A n \in 1..N : g[n] = step[n][g[n - 1]]
  <2> HIDE DEF S, step, N
  <2>1. Walks(S, values, step, N) # {}
    BY <1>1, <1>2, StepsExist
  <2>2. QED
    BY <2>1 DEF Walks, Stepwise
<1>4. isLeft(g)
  <2>1. ASSUME NEW n \in 1..N
        PROVE  g[n] = removeFilterValueTree(g[n - 1], options, unticked[n])
    <3>1. n \in Nat /\ n - 1 \in 0..N
      OBVIOUS
    <3>2. g[n - 1] \in S
      BY <1>3, <3>1
    <3>3. step[n][g[n - 1]] = removeFilterValueTree(g[n - 1], options, unticked[n])
      <4> HIDE DEF S
      <4>1. QED
        BY <3>1, <3>2
    <3>4. QED
      BY <1>3, <3>3
  <2>2. QED
    BY <1>3, <2>1
<1>5. isLeft(left)
  <2> HIDE DEF isLeft
  <2>1. QED
    BY <1>4
<1>6. left[N] \in S
  <2>1. \A n \in 0..N : left[n] = IF n = 0 THEN values
                                  ELSE removeFilterValueTree(left[n - 1], options, unticked[n])
    BY <1>5
  <2> DEFINE T == {n \in Nat : n <= N => left[n] \in S}
  <2> HIDE DEF left
  <2>2. 0 \in T
    BY <2>1
  <2>3. ASSUME NEW n \in Nat, n \in T PROVE n + 1 \in T
    <3>1. SUFFICES ASSUME n + 1 <= N PROVE left[n + 1] \in S
      OBVIOUS
    <3>2. left[n] \in S
      BY <2>3, <3>1
    <3>3. left[n + 1] = removeFilterValueTree(left[n], options, unticked[n + 1])
      BY <2>1, <3>1
    <3>4. QED
      BY <3>2, <3>3, TreeShrinks
  <2> HIDE DEF T
  <2>4. Nat \subseteq T
    BY <2>2, <2>3, NatSteps
  <2>5. QED
    BY <2>4 DEF T
<1>7. Left(values, options, unticked) = left[N]
    BY DEF Left
<1> HIDE DEF left
<1>8. QED
    BY <1>6, <1>7

\* toggleActive takes from the values of its filter and adds what was ticked.
LEMMA ToggleIs ==
    ASSUME NEW f, NEW options, NEW unticked, Len(unticked) \in Nat, NEW ticked
    PROVE  \E left \in SUBSET Values(Serialized(fq), f) :
             toggleActive(f, options, unticked, ticked) =
               Deserialized(With(Serialized(fq), f, left \union ticked), 2 + Cardinality(ticked))
<1>1. toggleActive(f, options, unticked, ticked) =
        Deserialized(With(Serialized(fq), f,
                          Left(Values(Serialized(fq), f), options, unticked) \union ticked),
                     2 + Cardinality(ticked))
    BY DEF toggleActive, Left
<1>2. Left(Values(Serialized(fq), f), options, unticked) \subseteq Values(Serialized(fq), f)
    BY LeftIs
<1>3. QED
    BY <1>1, <1>2

\* A set of finitely many values can be put in order.
LEMMA Ordered ==
    ASSUME NEW S, IsFiniteSet(S)
    PROVE  /\ SetToSeq(S) \in [1..Cardinality(S) -> S]
           /\ Cardinality(S) \in Nat
<1>1. Cardinality(S) \in Nat /\ ExistsBijection(1..Cardinality(S), S)
    BY FS_CardinalityType
<1>2. PICK g \in [1..Cardinality(S) -> S] : IsInjective(g)
    BY <1>1 DEF ExistsBijection, Bijection, Injection, Surjection, IsInjective, IsInjective
<1>3. QED
    BY <1>1, <1>2 DEF SetToSeq

-----------------------------------------------------------------------------
(* The invariant.                                                           *)

\* Options are finitely many of those that a fetch may bring.
OptionsAre(options) ==
    options = None \/ \A f \in DOMAIN options :
                         options[f] \subseteq Values(Offered, f) /\ IsFiniteSet(options[f])

\* Options, Under and InTree of any panel p.
Shown(p, f) == IF p.offered = None THEN {} ELSE Values(p.offered, f)
Deeper(p, f, v) == {w \in Shown(p, f) : Len(w) > Len(v) /\ SubSeq(w, 1, Len(v)) = v}
Inside(p, f, v) == v \in Shown(p, f) \/ Deeper(p, f, v) # {}

\* The panel has widgets for filters that have their type somewhere: they may be
\* those of the page before.
PanelIs(p) ==
    /\ DOMAIN p = DOMAIN EmptyPanel
    /\ \A f \in DOMAIN p.widgets : f \in Ever({p.widgets[f]})
    /\ OptionsAre(p.offered)
    /\ \A f \in DOMAIN p.chosen : p.chosen[f] \subseteq Shown(p, f)
    /\ \A f \in DOMAIN p.ticks :
          f \in Ever({"multiselect"}) /\ \A v \in p.ticks[f] : Inside(p, f, v)
    /\ \A f \in DOMAIN p.boxes :
          f \in Ever(CheckboxTypes) /\ p.boxes[f] \subseteq Values(Offered, f)

\* The panel p tells what the address asks for: a click on it can bring nothing
\* into the address that is there, nor take anything out that is not.
Agrees(p, filters, types) ==
    /\ \A f \in DOMAIN p.ticks :
          /\ f \in Typed(types, {"multiselect"})
          /\ Values(p.chosen, f) \subseteq Values(filters, f)
          /\ \A v \in p.ticks[f] : Deeper(p, f, v) = {} => v \in Values(filters, f)
    /\ \A f \in DOMAIN p.boxes :
          f \in Typed(types, CheckboxTypes) /\ p.boxes[f] = Values(filters, f)

IInv ==
    /\ Inv
    /\ due \in BOOLEAN
    /\ AddressIs(fq)
    /\ OptionsAre(answer)
    /\ PanelIs(panel)
    /\ ~due => Agrees(panel, fq, configs)

\* The operators of the model speak of the panel on the screen.
LEMMA OptionsShown ==
    ASSUME NEW f, NEW v
    PROVE  /\ Options(f) = Shown(panel, f) /\ Under(f, v) = Deeper(panel, f, v)
           /\ InTree(f, v) <=> Inside(panel, f, v)
    BY DEF Options, Shown, Under, Deeper, InTree, Inside

\* The options on the screen are finitely many that a fetch may bring.
LEMMA OptionsKnown ==
    ASSUME NEW p, PanelIs(p), NEW f
    PROVE  Shown(p, f) \subseteq Values(Offered, f) /\ IsFiniteSet(Shown(p, f))
<1>1. IsFiniteSet({})
    BY FS_EmptySet
<1>2. QED
    BY <1>1 DEF PanelIs, OptionsAre, Shown, Values

\* What is offered is a sequence of levels, a range, a status or a type.
LEMMA OfferedAre ==
    ASSUME NEW f, NEW v \in Values(Offered, f)
    PROVE  /\ v \in Seq({v[i] : i \in DOMAIN v}) \ {<<>>}
           /\ f \in RangeFilters => v \in Ranges
           /\ f = "project_status" => v \in {Ongoing, Closed}
           /\ f = "related_resources" => v \in {<<type>> : type \in DOMAIN TYPE_TO_FIELD_MAP}
<1>1. PICK facets \in AnyAnswer : f \in DOMAIN facets /\ v \in facets[f]
    BY DEF Values, Offered
<1>2. PICK c \in DOMAIN Answers : facets \in Answers[c]
    BY DEF AnyAnswer
<1>3. QED
    BY <1>1, <1>2, AnswersAssumption

\* An option has a first level.
LEMMA HasFirst ==
    ASSUME NEW f, NEW v \in Values(Offered, f)
    PROVE  1 \in DOMAIN v
<1> DEFINE levels == {v[i] : i \in DOMAIN v}
<1>1. v \in Seq(levels) /\ v # <<>>
    BY OfferedAre
<1> HIDE DEF levels
<1>2. QED
    BY <1>1

\* An option is below all its parents.
LEMMA BelowParents ==
    ASSUME NEW p, PanelIs(p), NEW f, NEW v \in Shown(p, f), NEW n \in 1..(Len(v) - 1)
    PROVE  v \in Deeper(p, f, SubSeq(v, 1, n))
<1> DEFINE levels == {v[i] : i \in DOMAIN v}
<1>1. v \in Seq(levels)
    BY OptionsKnown, OfferedAre
<1> HIDE DEF levels
<1>2. Len(v) \in Nat /\ Len(SubSeq(v, 1, n)) = n /\ n < Len(v)
    BY <1>1
<1>3. QED
    BY <1>2 DEF Deeper

-----------------------------------------------------------------------------
(* What the user's clicks make of the panel.                                *)

\* The slider has reported.
LEMMA EchoedIs ==
    ASSUME NEW p, PanelIs(p), NEW q, q = [p EXCEPT !.echo = FALSE]
    PROVE  /\ PanelIs(q)
           /\ \A filters, types : Agrees(p, filters, types) => Agrees(q, filters, types)
<1>1. /\ DOMAIN q = DOMAIN p /\ q.widgets = p.widgets /\ q.offered = p.offered
      /\ q.chosen = p.chosen /\ q.ticks = p.ticks /\ q.boxes = p.boxes
    OBVIOUS
<1>2. \A f, v : Shown(q, f) = Shown(p, f) /\ Deeper(q, f, v) = Deeper(p, f, v)
    BY <1>1 DEF Shown, Deeper
<1>3. \A f, v : Inside(q, f, v) <=> Inside(p, f, v)
    BY <1>2 DEF Inside
<1>4. PanelIs(q)
    BY <1>1, <1>2, <1>3 DEF PanelIs
<1>5. \A filters, types : Agrees(p, filters, types) => Agrees(q, filters, types)
    BY <1>1, <1>2 DEF Agrees
<1>6. QED
    BY <1>4, <1>5

\* Other options of a tree are ticked.
LEMMA TickedSame ==
    ASSUME NEW p, PanelIs(p), NEW f \in DOMAIN p.ticks, NEW ticks,
           NEW q, q = [p EXCEPT !.ticks[f] = ticks]
    PROVE  /\ DOMAIN q = DOMAIN p /\ q.widgets = p.widgets /\ q.offered = p.offered
           /\ q.chosen = p.chosen /\ q.boxes = p.boxes
           /\ DOMAIN q.ticks = DOMAIN p.ticks
           /\ \A g \in DOMAIN p.ticks : q.ticks[g] = IF g = f THEN ticks ELSE p.ticks[g]
           /\ \A g, v : Shown(q, g) = Shown(p, g) /\ Deeper(q, g, v) = Deeper(p, g, v)
<1>1. /\ DOMAIN q = DOMAIN p /\ q.widgets = p.widgets /\ q.offered = p.offered
      /\ q.chosen = p.chosen /\ q.boxes = p.boxes
    OBVIOUS
<1>2. DOMAIN q.ticks = DOMAIN p.ticks
    BY DEF PanelIs, EmptyPanel
<1>3. \A g \in DOMAIN p.ticks : q.ticks[g] = IF g = f THEN ticks ELSE p.ticks[g]
    BY DEF PanelIs, EmptyPanel
<1>4. \A g, v : Shown(q, g) = Shown(p, g) /\ Deeper(q, g, v) = Deeper(p, g, v)
    BY <1>1 DEF Shown, Deeper
<1>5. QED
    BY <1>1, <1>2, <1>3, <1>4

\* A panel with other options of a tree ticked is one, if they are in the tree.
LEMMA TickedIs ==
    ASSUME NEW p, PanelIs(p), NEW f \in DOMAIN p.ticks, NEW ticks,
           \A v \in ticks : Inside(p, f, v)
    PROVE  PanelIs([p EXCEPT !.ticks[f] = ticks])
<1> DEFINE q == [p EXCEPT !.ticks[f] = ticks]
<1>1. /\ DOMAIN q = DOMAIN p /\ q.widgets = p.widgets /\ q.offered = p.offered
      /\ q.chosen = p.chosen /\ q.boxes = p.boxes /\ DOMAIN q.ticks = DOMAIN p.ticks
    BY TickedSame
<1>2. \A g \in DOMAIN p.ticks : q.ticks[g] = IF g = f THEN ticks ELSE p.ticks[g]
    BY TickedSame
<1>3. \A g, v : Shown(q, g) = Shown(p, g) /\ Deeper(q, g, v) = Deeper(p, g, v)
    BY TickedSame
<1> HIDE DEF q
<1>4. \A g, v : Inside(q, g, v) <=> Inside(p, g, v)
    BY <1>3 DEF Inside
<1>5. PanelIs(q)
    BY <1>1, <1>2, <1>3, <1>4 DEF PanelIs
<1>6. QED
    BY <1>5 DEF q

\* It agrees with the address if the ends of branches that are ticked do.
LEMMA TickedAgrees ==
    ASSUME NEW p, PanelIs(p), NEW f \in DOMAIN p.ticks, NEW ticks,
           NEW filters, NEW types, Agrees(p, filters, types),
           \A v \in ticks : Deeper(p, f, v) = {} => v \in Values(filters, f)
    PROVE  Agrees([p EXCEPT !.ticks[f] = ticks], filters, types)
<1> DEFINE q == [p EXCEPT !.ticks[f] = ticks]
<1>1. q.chosen = p.chosen /\ q.boxes = p.boxes /\ DOMAIN q.ticks = DOMAIN p.ticks
    BY TickedSame
<1>2. \A g \in DOMAIN p.ticks : q.ticks[g] = IF g = f THEN ticks ELSE p.ticks[g]
    BY TickedSame
<1>3. \A g, v : Deeper(q, g, v) = Deeper(p, g, v)
    BY TickedSame
<1> HIDE DEF q
<1>4. Agrees(q, filters, types)
    BY <1>1, <1>2, <1>3 DEF Agrees
<1>5. QED
    BY <1>4 DEF q

\* Boxes are checked.
LEMMA BoxedIs ==
    ASSUME NEW p, PanelIs(p), NEW boxes,
           DOMAIN boxes = DOMAIN p.boxes,
           \A f \in DOMAIN boxes : boxes[f] \subseteq Values(Offered, f),
           NEW q, q = [p EXCEPT !.boxes = boxes]
    PROVE  PanelIs(q)
<1>1. /\ DOMAIN q = DOMAIN p /\ q.widgets = p.widgets /\ q.offered = p.offered
      /\ q.chosen = p.chosen /\ q.ticks = p.ticks
    OBVIOUS
<1>2. q.boxes = boxes
    BY DEF PanelIs, EmptyPanel
<1>3. \A g, v : Shown(q, g) = Shown(p, g) /\ Deeper(q, g, v) = Deeper(p, g, v)
    BY <1>1 DEF Shown, Deeper
<1>4. \A g, v : Inside(q, g, v) <=> Inside(p, g, v)
    BY <1>3 DEF Inside
<1>5. QED
    BY <1>1, <1>2, <1>3, <1>4 DEF PanelIs

\* A checkbox is no range and no filter of a link: it has what is offered.
LEMMA CheckboxLegal ==
    ASSUME NEW f \in Ever(CheckboxTypes)
    PROVE  Legal(f) = Values(Offered, f)
<1>1. f \notin LinkFilters
    BY LinkedAssumption
<1>2. f \notin RangeFilters
    BY NoRange DEF CheckboxTypes, RangeTypes, DateTypes
<1>3. QED
    BY <1>1, <1>2 DEF Legal

\* At a navigation each box of a value in the address is flipped.
LEMMA FlippedIs ==
    ASSUME NEW p, PanelIs(p), NEW filters, AddressIs(filters),
           NEW q, q = [p EXCEPT !.boxes = updateCheckbox(@, filters)]
    PROVE  PanelIs(q)
<1> DEFINE boxes == updateCheckbox(p.boxes, filters)
<1>1. q = [p EXCEPT !.boxes = boxes]
    OBVIOUS
<1>2. DOMAIN boxes = DOMAIN p.boxes
    BY DEF updateCheckbox
<1>3. ASSUME NEW f \in DOMAIN p.boxes PROVE boxes[f] \subseteq Values(Offered, f)
  <2>1. p.boxes[f] \subseteq Values(Offered, f) /\ Legal(f) = Values(Offered, f)
    BY CheckboxLegal DEF PanelIs
  <2>2. Values(filters, f) \subseteq Legal(f)
    BY DEF AddressIs, Values
  <2>3. boxes[f] = SymDiff(p.boxes[f], Values(filters, f))
    BY DEF updateCheckbox
  <2>4. QED
    BY <2>1, <2>2, <2>3 DEF SymDiff
<1> HIDE DEF boxes
<1>4. QED
    BY <1>1, <1>2, <1>3, BoxedIs

-----------------------------------------------------------------------------
(* What a click makes of the address and of the panel.                      *)

\* A navigation to an address of legal values keeps the invariant.
LEMMA GotoIInv ==
    ASSUME NEW page \in Pages, NEW filters, AddressIs(filters), NEW p, PanelIs(p),
           Goto(page, filters, p)
    PROVE  IInv'
<1>1. Inv'
    BY GotoInv
<1>2. fq' = filters /\ answer' = None /\ due' = TRUE
      /\ panel' = [p EXCEPT !.boxes = updateCheckbox(@, filters)]
    BY DEF Goto
<1>3. PanelIs(panel')
    BY <1>2, FlippedIs
<1>4. OptionsAre(answer')
    BY <1>2 DEF OptionsAre
<1>5. QED
    BY <1>1, <1>2, <1>3, <1>4 DEF IInv

\* One filter is rewritten, by the widgets, a tag or a badge; by the calendars
\* and the slider; by the button beside its label.
Rewrites(f, filters) ==
    \/ \E values, n : filters = Deserialized(With(Serialized(fq), f, values), n)
    \/ \E values : filters = Replaced(f, values)
    \/ filters = Restrict(fq, DOMAIN fq \ {f})

\* The filters are those of an address, and the panel p is one: of an address
\* that is kept, where the panel was.
Writes(filters, p) ==
    /\ AddressIs(filters)
    /\ PanelIs(p)
    /\ ~due /\ filters = fq => Agrees(p, fq, configs)

\* So does a rewriting that writes an address, with a panel that agrees.
LEMMA NavigateIInv ==
    ASSUME IInv, NEW filters, NEW p, Writes(filters, p), Navigate(filters, p)
    PROVE  IInv'
<1>1. CASE filters # fq
    BY <1>1, GotoIInv DEF Navigate, Writes, IInv, Inv
<1>2. CASE filters = fq
  <2>1. panel' = p /\ UNCHANGED <<place, configs, fq, answer, due>>
    BY <1>2 DEF Navigate
  <2>2. Inv'
    BY <2>1 DEF IInv, Inv, setScope
  <2>3. QED
    BY <1>2, <2>1, <2>2 DEF IInv, Writes
<1>3. QED
    BY <1>1, <1>2

\* What a step of the user is: one filter is rewritten, or none.
Acts(f) == \E filters, p : Navigate(filters, p) /\ Writes(filters, p) /\ Rewrites(f, filters)

\* The values in the address, before and after they are read, are legal.
LEMMA HeldNow ==
    ASSUME IInv
    PROVE  Held(fq) /\ Held(Serialized(fq))
           /\ \A f \in DOMAIN configs : Values(Serialized(fq), f) \subseteq Legal(f)
<1>1. Held(fq)
    BY DEF IInv, AddressIs, Held
<1>2. Held(Serialized(fq))
    BY <1>1, SerializedIs DEF IInv
<1>3. QED
    BY <1>1, <1>2 DEF Held, Values

\* The panel as it is, and any values that the filter can have.
LEMMA PlainActs ==
    ASSUME IInv, NEW f, NEW values, f \in DOMAIN configs => values \subseteq Legal(f),
           NEW n \in Nat, NEW p, PanelIs(p), ~due => Agrees(p, fq, configs),
           Navigate(Deserialized(With(Serialized(fq), f, values), n), p)
    PROVE  Acts(f)
<1> DEFINE filters == Deserialized(With(Serialized(fq), f, values), n)
<1>1. AddressIs(filters)
    BY HeldNow, RewrittenIs DEF IInv
<1>2. Rewrites(f, filters)
    BY DEF Rewrites
<1> HIDE DEF filters
<1>3. Writes(filters, p)
    BY <1>1 DEF Writes
<1>4. Navigate(filters, p)
    BY DEF filters
<1>5. QED
    BY <1>2, <1>3, <1>4 DEF Acts

\* The button beside a label rewrites one filter.
LEMMA ResetActs ==
    ASSUME IInv, NEW f, resetAllActiveEntities(f)
    PROVE  Acts(f)
<1> DEFINE filters == Restrict(fq, DOMAIN fq \ {f})
<1>1. AddressIs(filters)
    BY DEF IInv, AddressIs, Restrict
<1>2. Rewrites(f, filters) /\ Navigate(filters, panel)
    BY DEF Rewrites, resetAllActiveEntities
<1> HIDE DEF filters
<1>3. QED
    BY <1>1, <1>2 DEF Acts, Writes, IInv

\* A badge that is removed rewrites one filter.
LEMMA BadgeActs ==
    ASSUME IInv, NEW f, NEW v, RemoveBadge(f, v)
    PROVE  Acts(f)
<1>1. Navigate(Deserialized(With(Serialized(fq), f, Values(Serialized(fq), f) \ {v}), 1), panel)
    BY DEF RemoveBadge, removeFilterValue
<1>2. f \in DOMAIN configs => Values(Serialized(fq), f) \ {v} \subseteq Legal(f)
    BY HeldNow
<1>3. QED
    BY <1>1, <1>2, PlainActs DEF IInv

\* A tag rewrites one filter, and its value is legal: no tag is a range.
LEMMA TagActs ==
    ASSUME IInv, NEW f \in Filters, NEW v \in Offered[f], ClickTag(f, v)
    PROVE  Acts(f)
<1>1. Navigate(Deserialized(With(Serialized(fq), f, Values(Serialized(fq), f) \union {v}), 1), panel)
    BY DEF ClickTag, addFilterValue
<1>2. ASSUME f \in DOMAIN configs
      PROVE  Values(Serialized(fq), f) \union {v} \subseteq Legal(f)
  <2>1. configs[f] \notin RangeTypes
    BY <1>2, TablesAssumption DEF ClickTag, IInv, Inv, Pages, setScope
  <2>2. Values(Offered, f) \subseteq Legal(f)
    BY <1>2, <2>1, RangeHere, OfferedIsLegal DEF IInv
  <2>3. v \in Values(Offered, f)
    BY DEF Values, Offered
  <2>4. QED
    BY <1>2, <2>2, <2>3, HeldNow
<1>3. QED
    BY <1>1, <1>2, PlainActs DEF IInv

\* The values of a range widget are written as they are.
LEMMA ReplacedActs ==
    ASSUME IInv, NEW f \in RangeFilters, NEW values \in SUBSET (Ends \X Ends),
           NEW p, PanelIs(p), ~due => Agrees(p, fq, configs),
           Navigate(Replaced(f, values), p)
    PROVE  Acts(f)
<1> DEFINE filters == Replaced(f, values)
<1>1. AddressIs(filters)
    BY HeldNow, ReplacedIs DEF IInv
<1>2. Rewrites(f, filters) /\ Navigate(filters, p)
    BY DEF Rewrites
<1> HIDE DEF filters
<1>3. QED
    BY <1>1, <1>2 DEF Acts, Writes

\* A filter that is of some types somewhere is of any more types there.
LEMMA EverWidens ==
    ASSUME NEW some, NEW types, some \subseteq types
    PROVE  Ever(some) \subseteq Ever(types)
<1>1. SUFFICES ASSUME NEW f \in Ever(some) PROVE f \in Ever(types)
    OBVIOUS
<1>2. PICK scope \in {"eu", "pl"}, c \in EU_CONTEXT_COLLECTIONS :
        f \in Typed(Configs[scope][c], some)
    BY <1>1 DEF Ever
<1>3. f \in Typed(Configs[scope][c], types)
    BY <1>2 DEF Typed
<1>4. QED
    BY <1>3 DEF Ever

\* The widget of a filter is of a type that the filter has somewhere.
LEMMA WidgetOf ==
    ASSUME NEW p, PanelIs(p), NEW types, NEW f \in Typed(p.widgets, types)
    PROVE  f \in Ever(types)
<1>1. f \in Ever({p.widgets[f]}) /\ {p.widgets[f]} \subseteq types
    BY DEF PanelIs, Typed
<1>2. QED
    BY <1>1, EverWidens

\* A date, as the user can choose it.
LEMMA DateIs ==
    ASSUME NEW f \in Filters, f \in RangeFilters, NEW v \in Offered[f] \union {NoDates}
    PROVE  v \in Ends \X Ends
<1>1. CASE v \in Offered[f]
    BY <1>1, OfferedAre DEF Ranges, Values, Offered
<1>2. CASE v = NoDates
    BY <1>2 DEF NoDates, Ends
<1>3. QED
    BY <1>1, <1>2

\* The widgets of dates and years rewrite one filter of ranges.
LEMMA DatesActs ==
    ASSUME IInv, NEW f \in Filters, NEW v \in Offered[f] \union {NoDates},
           \/ ChangeYears(f, v) \/ ChangeYear(f, v) \/ ChangeStartEnd(f, v)
           \/ ChangeCalendar(f, v)
    PROVE  Acts(f)
<1> DEFINE types == {"date-range", "date-year", "date-start-end", "date-calendar"}
<1>1. f \in Typed(panel.widgets, types)
    BY DEF ChangeYears, ChangeYear, ChangeStartEnd, ChangeCalendar, Typed
<1>2. f \in RangeFilters
  <2>1. f \in Ever(types)
    BY <1>1, WidgetOf DEF IInv
  <2>2. types \subseteq RangeTypes
    BY DEF RangeTypes, DateTypes
  <2>3. QED
    BY <2>1, <2>2, EverWidens DEF RangeFilters
<1>3. v \in Ends \X Ends
    BY <1>2, DateIs
<1>4. ASSUME NEW w \in Ends \X Ends, replaceRange(f, w) PROVE Acts(f)
  <2>1. Navigate(Replaced(f, {w}), panel)
    BY <1>4 DEF replaceRange
  <2>2. {w} \in SUBSET (Ends \X Ends)
    OBVIOUS
  <2>3. QED
    BY <1>2, <2>1, <2>2, ReplacedActs DEF IInv
<1>5. CASE ChangeYears(f, v) \/ ChangeYear(f, v) \/ ChangeStartEnd(f, v)
    BY <1>3, <1>4, <1>5 DEF ChangeYears, ChangeYear, ChangeStartEnd
<1>6. CASE ChangeCalendar(f, v)
  <2> DEFINE values == IF Values(fq, f) = {} THEN {NoDates} ELSE fq[f]
  <2>1. PICK w \in DateDeserializer(values, 1) :
          \E changed \in {<<v[1], w[2]>>, <<w[1], v[2]>>} : replaceRange(f, changed)
    BY <1>6 DEF ChangeCalendar
  <2>2. values \subseteq Ends \X Ends
    <3>1. fq[f] \subseteq Ranges \/ f \notin DOMAIN fq
      BY <1>2, LegalRange DEF IInv, AddressIs
    <3>2. NoDates \in Ends \X Ends
      BY DEF NoDates, Ends
    <3>3. QED
      BY <3>1, <3>2 DEF Values, Ranges
  <2>3. w \in Ends \X Ends
    BY <2>2, DatesMoved
  <2>4. <<v[1], w[2]>> \in Ends \X Ends /\ <<w[1], v[2]>> \in Ends \X Ends
    BY <1>3, <2>3
  <2>5. QED
    BY <1>4, <2>1, <2>4
<1>7. QED
    BY <1>5, <1>6

\* What the slider makes of a range has ends, though perhaps both are open.
LEMMA SlidIs ==
    ASSUME NEW v \in Ends \X Ends
    PROVE  AtSlider(v) \in Ends \X Ends
    BY DEF AtSlider, Ends

\* The slider rewrites one filter of ranges.
LEMMA SliderActs ==
    ASSUME IInv, NEW f \in Filters, NEW v \in Offered[f], MoveSlider(f, v)
    PROVE  Acts(f)
<1> DEFINE p == [panel EXCEPT !.echo = FALSE]
<1>1. f \in RangeFilters
    BY WidgetOf, EverWidens DEF MoveSlider, IInv, RangeFilters, RangeTypes
<1>2. {AtSlider(v)} \in SUBSET (Ends \X Ends)
    BY <1>1, DateIs, SlidIs
<1>3. PanelIs(p) /\ (~due => Agrees(p, fq, configs))
    BY EchoedIs DEF IInv
<1>4. Navigate(Replaced(f, {AtSlider(v)}), p)
    BY DEF MoveSlider
<1> HIDE DEF p
<1>5. QED
    BY <1>1, <1>2, <1>3, <1>4, ReplacedActs

\* The values of a filter that is written unless the filter is a range.
LEMMA WrittenHere ==
    ASSUME Inv, NEW f \in DOMAIN configs, f \notin RangeFilters, NEW map, NEW values, NEW n
    PROVE  Values(Deserialized(With(map, f, values), n), f) = values
<1> DEFINE all == With(map, f, values)
           written == [g \in DOMAIN all \cap DOMAIN configs |-> deserialize(g, all[g], n)]
<1>1. f \in DOMAIN all /\ all[f] = values
    BY DEF With
<1>2. configs[f] \notin RangeTypes
    BY RangeHere
<1>3. deserialize(f, values, n) = values
    BY <1>2 DEF deserialize, RangeTypes
<1>4. f \in DOMAIN written /\ written[f] = values
    BY <1>1, <1>3
<1>5. Deserialized(all, n) = Restrict(written, {g \in DOMAIN written : written[g] # {}})
    BY DEF Deserialized
<1> DEFINE filters == Deserialized(all, n)
<1> HIDE DEF written, all
<1>6. DOMAIN filters = {g \in DOMAIN written : written[g] # {}}
    BY <1>5 DEF Restrict
<1>7. f \in DOMAIN filters => filters[f] = written[f]
    BY <1>5 DEF Restrict
<1> HIDE DEF filters
<1>8. Values(filters, f) = values
    BY <1>4, <1>6, <1>7 DEF Values
<1>9. QED
    BY <1>8 DEF filters, all

\* The values of such a filter are read as they are.
LEMMA ReadHere ==
    ASSUME Inv, NEW f \in DOMAIN configs, f \notin RangeFilters
    PROVE  Values(Serialized(fq), f) = Values(fq, f)
<1>1. configs[f] # "range"
    BY RangeHere DEF RangeTypes
<1>2. QED
    BY <1>1 DEF Serialized, Values

\* The filter of a tree is a range nowhere,
LEMMA TreeIsNoRange ==
    ASSUME NEW f \in Ever({"multiselect"})
    PROVE  f \notin RangeFilters
    BY NoRange DEF RangeTypes, DateTypes

\* nor is that of a checkbox.
LEMMA BoxIsNoRange ==
    ASSUME NEW f \in Ever(CheckboxTypes)
    PROVE  f \notin RangeFilters
    BY NoRange DEF RangeTypes, DateTypes, CheckboxTypes

\* A tree: what is ticked is in the address that is written, and what was ticked
\* without being there has options below it.
LEMMA TreeActs ==
    ASSUME IInv, NEW f \in DOMAIN panel.ticks, NEW unticked, Len(unticked) \in Nat,
           NEW ticked \in SUBSET Options(f), NEW ticks,
           \A v \in ticks :
              \/ v \in panel.ticks[f] \/ v \in Values(panel.chosen, f) \/ v \in ticked
              \/ Deeper(panel, f, v) # {},
           Navigate(toggleActive(f, Options(f), unticked, ticked),
                    [panel EXCEPT !.ticks[f] = ticks])
    PROVE  Acts(f)
<1> DEFINE filters == toggleActive(f, Options(f), unticked, ticked)
           p == [panel EXCEPT !.ticks[f] = ticks]
<1>1. PanelIs(panel) /\ f \in Ever({"multiselect"}) /\ f \notin RangeFilters
    BY TreeIsNoRange DEF IInv, PanelIs
<1>2. PICK left \in SUBSET Values(Serialized(fq), f) :
        filters = Deserialized(With(Serialized(fq), f, left \union ticked), 2 + Cardinality(ticked))
    BY ToggleIs
<1>3. Options(f) = Shown(panel, f)
    BY OptionsShown
<1>4. Cardinality(ticked) \in Nat
  <2>1. IsFiniteSet(ticked)
    BY <1>1, <1>3, OptionsKnown, FS_Subset
  <2>2. QED
    BY <2>1, FS_CardinalityType
<1>5. ticked \subseteq Legal(f)
    BY <1>1, <1>3, OptionsKnown, OfferedIsLegal
<1>6. f \in DOMAIN configs => left \union ticked \subseteq Legal(f)
    BY <1>5, HeldNow
<1>7. AddressIs(filters)
    BY <1>2, <1>4, <1>6, HeldNow, RewrittenIs DEF IInv
<1>8. Rewrites(f, filters)
    BY <1>2 DEF Rewrites
<1>9. \A v \in ticks : Inside(panel, f, v)
  <2>1. Values(panel.chosen, f) \subseteq Shown(panel, f)
    BY <1>1 DEF PanelIs, Values
  <2>2. \A v \in panel.ticks[f] : Inside(panel, f, v)
    BY <1>1 DEF PanelIs
  <2>3. QED
    BY <1>3, <2>1, <2>2 DEF Inside
<1>10. PanelIs(p)
    BY <1>1, <1>9, TickedIs
<1>11. ASSUME ~due, filters = fq PROVE Agrees(p, fq, configs)
  <2>1. Agrees(panel, fq, configs)
    BY <1>11 DEF IInv
  <2>2. f \in DOMAIN configs
    BY <2>1 DEF Agrees, Typed
  <2>3. Values(fq, f) = left \union ticked
    BY <1>1, <1>2, <1>11, <2>2, WrittenHere DEF IInv
  <2>4. \A v \in ticks : Deeper(panel, f, v) = {} => v \in Values(fq, f)
    BY <2>1, <2>3 DEF Agrees
  <2>5. QED
    BY <1>1, <2>1, <2>4, TickedAgrees
<1> HIDE DEF filters, p
<1>12. Writes(filters, p)
    BY <1>7, <1>10, <1>11 DEF Writes
<1>13. Navigate(filters, p)
    BY DEF filters, p
<1>14. QED
    BY <1>8, <1>12, <1>13 DEF Acts

\* To tick or untick an option rewrites the filter of its tree. The options above
\* it that are ticked with it have options below them.
LEMMA TickActs ==
    ASSUME IInv, NEW f, NEW v, Tick(f, v)
    PROVE  Acts(f)
<1> DEFINE nodes == {v} \union Under(f, v)
           on == v \notin panel.ticks[f]
           ticks == IF on THEN panel.ticks[f] \union nodes ELSE panel.ticks[f] \ nodes
           unticked == IF on THEN <<>> ELSE <<v>> \o SetToSeq(nodes \ {v})
           ticked == IF on THEN nodes ELSE {}
           after == checkAllParentsSelection(f, ticks, v)
<1>1. f \in DOMAIN panel.ticks /\ v \in Options(f)
    BY DEF Tick
<1>2. Navigate(toggleActive(f, Options(f), unticked, ticked), [panel EXCEPT !.ticks[f] = after])
    BY DEF Tick
<1>3. nodes \subseteq Options(f)
    BY <1>1 DEF Under
<1>4. Len(unticked) \in Nat
  <2> DEFINE S == nodes \ {v}
  <2>1. IsFiniteSet(S)
    BY <1>3, OptionsShown, OptionsKnown, FS_Subset DEF IInv
  <2> HIDE DEF S
  <2>2. SetToSeq(S) \in [1..Cardinality(S) -> S] /\ Cardinality(S) \in Nat
    BY <2>1, Ordered
  <2>3. SetToSeq(S) \in Seq(S)
    BY <2>2
  <2>4. Len(<<v>> \o SetToSeq(S)) \in Nat
    BY <2>3
  <2>5. Len(<<>>) \in Nat
    OBVIOUS
  <2>6. QED
    BY <2>4, <2>5 DEF S
<1>5. ticked \in SUBSET Options(f)
    BY <1>3
<1>6. ASSUME NEW w \in after
      PROVE  w \in panel.ticks[f] \/ w \in ticked \/ Deeper(panel, f, w) # {}
  <2> DEFINE parents == {SubSeq(v, 1, n) : n \in 1..(Len(v) - 1)}
  <2>1. w \in ticks \/ w \in parents
    BY <1>6 DEF checkAllParentsSelection
  <2>2. CASE w \in ticks
    BY <2>2
  <2>3. CASE w \in parents
    BY <1>1, <2>3, OptionsShown, BelowParents DEF IInv
  <2>4. QED
    BY <2>1, <2>2, <2>3
<1> HIDE DEF unticked, ticked, after
<1>7. QED
    BY <1>1, <1>2, <1>4, <1>5, <1>6, TreeActs

\* Nodes that are built anew rewrite the filter of their tree.
LEMMA RebuildActs ==
    ASSUME IInv, NEW f, NEW last, NEW fresh, Rebuild(f, last, fresh)
    PROVE  Acts(f)
<1> DEFINE chosen == Values(panel.chosen, f)
           ticks == IF fresh THEN chosen ELSE SymDiff(panel.ticks[f], chosen)
<1>1. f \in DOMAIN panel.ticks /\ last \in chosen
    BY DEF Rebuild
<1>2. chosen \subseteq Options(f)
    BY OptionsShown DEF IInv, PanelIs, Values
<1>3. \A v \in ticks : v \in panel.ticks[f] \/ v \in chosen
    BY DEF SymDiff
<1> DEFINE q == [panel EXCEPT !.ticks[f] = ticks]
<1>4. \/ Navigate(toggleActive(f, Options(f), <<>>, {last}), q)
      \/ Navigate(toggleActive(f, Options(f), <<last>>, {}), q)
    BY DEF Rebuild
<1>5. Len(<<>>) \in Nat /\ Len(<<last>>) \in Nat
    OBVIOUS
<1> HIDE DEF ticks
<1>6. CASE Navigate(toggleActive(f, Options(f), <<>>, {last}), q)
  <2>1. {last} \in SUBSET Options(f)
    BY <1>1, <1>2
  <2>2. QED
    BY <1>1, <1>3, <1>5, <1>6, <2>1, TreeActs
<1>7. CASE Navigate(toggleActive(f, Options(f), <<last>>, {}), q)
  <2>1. {} \in SUBSET Options(f)
    OBVIOUS
  <2>2. QED
    BY <1>1, <1>3, <1>5, <1>7, <2>1, TreeActs
<1>8. QED
    BY <1>4, <1>6, <1>7

\* A change of the entries of a dropdown rewrites one filter.
LEMMA DropdownActs ==
    ASSUME IInv, NEW f, NEW v, Dropdown(f, v)
    PROVE  Acts(f)
<1> DEFINE entries == SymDiff(Entries(f) \intersect Values(panel.chosen, f), {v})
           known == Serialized(fq)
           values == (Values(known, f) \ Options(f)) \union entries
           n == 1 + Cardinality(Options(f))
<1>1. f \in Typed(panel.widgets, {"dropdown"}) /\ v \in Entries(f)
    BY DEF Dropdown
<1>2. Navigate(Deserialized(With(known, f, values), n), panel)
    BY DEF Dropdown
<1>3. Options(f) \subseteq Values(Offered, f) /\ IsFiniteSet(Options(f))
    BY OptionsShown, OptionsKnown DEF IInv
<1>4. n \in Nat
    BY <1>3, FS_CardinalityType
<1>5. Entries(f) \subseteq Options(f)
    BY DEF Entries
<1>6. f \notin RangeFilters
  <2>1. f \in Ever({"dropdown"})
    BY <1>1, WidgetOf DEF IInv
  <2>2. QED
    BY <2>1, NoRange DEF RangeTypes, DateTypes
<1>7. entries \subseteq Legal(f)
    BY <1>1, <1>3, <1>5, <1>6, OfferedIsLegal DEF SymDiff
<1>8. f \in DOMAIN configs => values \subseteq Legal(f)
    BY <1>7, HeldNow
<1> HIDE DEF values, n, known
<1>9. QED
    BY <1>2, <1>4, <1>8, PlainActs DEF IInv, known

\* A box that is checked takes its value out of the address, any other brings it
\* in: once the panel agrees with the address, neither is without effect.
LEMMA BoxActs ==
    ASSUME IInv, NEW f \in Filters, NEW v \in Offered[f], CheckBox(f, v)
    PROVE  Acts(f)
<1> DEFINE known == Serialized(fq)
           values == IF v \in panel.boxes[f]
                     THEN Values(known, f) \ OfRoot(Values(known, f), v)
                     ELSE Values(known, f) \union {v}
           filters == Deserialized(With(known, f, values), 2)
           boxes == [panel.boxes EXCEPT ![f] = SymDiff(@, {v})]
           p == [panel EXCEPT !.boxes = boxes]
<1>1. f \in DOMAIN panel.boxes /\ Navigate(filters, [panel EXCEPT !.boxes[f] = SymDiff(@, {v})])
    BY DEF CheckBox
<1>2. [panel EXCEPT !.boxes[f] = SymDiff(@, {v})] = p
    BY DEF IInv, PanelIs, EmptyPanel
<1>3. f \in Ever(CheckboxTypes) /\ f \notin RangeFilters /\ PanelIs(panel)
    BY <1>1, BoxIsNoRange DEF IInv, PanelIs
<1>4. v \in Values(Offered, f)
    BY DEF Values, Offered
<1>5. f \in DOMAIN configs => values \subseteq Legal(f)
    BY <1>3, <1>4, HeldNow, OfferedIsLegal
<1>6. AddressIs(filters)
    BY <1>5, HeldNow, RewrittenIs DEF IInv
<1>7. Rewrites(f, filters)
    BY DEF Rewrites
<1>8. PanelIs(p)
  <2>1. \A g \in DOMAIN boxes : boxes[g] \subseteq Values(Offered, g)
    BY <1>3, <1>4 DEF PanelIs, SymDiff
  <2>2. DOMAIN boxes = DOMAIN panel.boxes
    OBVIOUS
  <2> HIDE DEF boxes
  <2>3. QED
    BY <1>3, <2>1, <2>2, BoxedIs
<1>9. ASSUME ~due PROVE filters # fq
  <2>1. f \in DOMAIN configs /\ panel.boxes[f] = Values(fq, f)
    BY <1>1, <1>9 DEF IInv, Agrees, Typed
  <2>2. Values(filters, f) = values /\ Values(known, f) = Values(fq, f)
    BY <1>3, <2>1, WrittenHere, ReadHere DEF IInv
  <2>3. v \in OfRoot({v}, v)
    BY <1>4, HasFirst DEF OfRoot, Includes
  <2>4. v \in values <=> v \notin Values(fq, f)
    BY <2>1, <2>2, <2>3 DEF OfRoot
  <2> HIDE DEF values, filters
  <2>5. QED
    BY <2>2, <2>4
<1> HIDE DEF filters, p
<1>10. Writes(filters, p)
    BY <1>6, <1>8, <1>9 DEF Writes
<1>11. QED
    BY <1>1, <1>2, <1>7, <1>10 DEF Acts

\* Whatever the user does to a filter rewrites that one, into an address.
LEMMA UserActs ==
    ASSUME IInv, NEW f \in Filters, ActsOn(f)
    PROVE  Acts(f)
<1>1. CASE resetAllActiveEntities(f)
    BY <1>1, ResetActs
<1>2. ASSUME NEW v, RemoveBadge(f, v) PROVE Acts(f)
    BY <1>2, BadgeActs
<1>3. ASSUME NEW v \in Offered[f] \union {NoDates},
             \/ ChangeYears(f, v) \/ ChangeYear(f, v) \/ ChangeStartEnd(f, v)
             \/ ChangeCalendar(f, v)
      PROVE  Acts(f)
    BY <1>3, DatesActs
<1>4. ASSUME NEW v \in Offered[f], ClickTag(f, v) PROVE Acts(f)
    BY <1>4, TagActs
<1>5. ASSUME NEW v, Tick(f, v) PROVE Acts(f)
    BY <1>5, TickActs
<1>6. ASSUME NEW v, Dropdown(f, v) PROVE Acts(f)
    BY <1>6, DropdownActs
<1>7. ASSUME NEW v \in Offered[f], CheckBox(f, v) PROVE Acts(f)
    BY <1>7, BoxActs
<1>8. ASSUME NEW v \in Offered[f], MoveSlider(f, v) PROVE Acts(f)
    BY <1>8, SliderActs
<1>9. ASSUME NEW v, NEW fresh, Rebuild(f, v, fresh) PROVE Acts(f)
    BY <1>9, RebuildActs
<1>10. QED
    BY <1>1, <1>2, <1>3, <1>4, <1>5, <1>6, <1>7, <1>8, <1>9 DEF ActsOn

-----------------------------------------------------------------------------
(* The steps of the user that leave, and those of the program.              *)

\* A page without a panel
LEMMA EmptyPanelIs == PanelIs(EmptyPanel)
<1>1. /\ EmptyPanel.widgets = <<>> /\ EmptyPanel.offered = None /\ EmptyPanel.chosen = <<>>
      /\ EmptyPanel.ticks = <<>> /\ EmptyPanel.boxes = <<>>
    BY DEF EmptyPanel
<1>2. DOMAIN <<>> = {}
    OBVIOUS
<1>3. QED
    BY <1>1, <1>2 DEF PanelIs, OptionsAre

\* and an address without filters are right.
LEMMA EmptyAddressIs == AddressIs(<<>>)
    BY DEF AddressIs

\* The page of an address that someone followed satisfies the invariant.
LEMMA InitIInv == Init => IInv
<1> SUFFICES ASSUME Init PROVE IInv
    OBVIOUS
<1>1. AddressIs(fq)
    BY LinkedAssumption DEF Init, AddressIs
<1>2. QED
    BY <1>1, InitInv, EmptyPanelIs DEF Init, IInv, OptionsAre

\* Who leaves takes no filter along but those of a link, which are legal.
LEMMA LeavesIInv ==
    ASSUME IInv, Leaves
    PROVE  IInv'
<1>1. "all_collection" \in EU_CONTEXT_COLLECTIONS \cap DOMAIN Answers
    BY AnswersAssumption DEF EU_CONTEXT_COLLECTIONS, PL_CONTEXT_COLLECTIONS
<1>2. place.scope \in {"eu", "pl"} /\ Inv /\ PanelIs(panel)
    BY DEF IInv, Inv, Pages
<1>3. ASSUME NEW page \in Places, setCollection(page.collection) PROVE IInv'
  <2>1. page.collection \in EU_CONTEXT_COLLECTIONS \cap DOMAIN Answers
    BY TablesAssumption, AnswersAssumption
  <2>2. Page(place.scope, page.collection) \in Pages
    BY <1>2, <2>1, PageIsKnown
  <2>3. QED
    BY <1>2, <1>3, <2>2, GotoIInv, EmptyAddressIs DEF setCollection
<1>4. Page("pl", "all_collection") \in Pages
    BY <1>1, <1>2, PageIsKnown
<1>5. CASE Breadcrumb
    BY <1>2, <1>4, <1>5, GotoIInv, EmptyAddressIs DEF Breadcrumb
<1>6. ASSUME NEW v \in Related, ShowRelated(v) PROVE IInv'
  <2> DEFINE filters == [f \in fqDict[place.collection] |-> {v}]
  <2>1. place.collection \in DOMAIN fqDict
    BY <1>6 DEF ShowRelated
  <2>2. ASSUME NEW f \in fqDict[place.collection] PROVE v \in Legal(f)
    <3>1. f \in LinkFilters
      BY <2>1 DEF LinkFilters
    <3>2. f \notin RangeFilters
      BY <3>1, LinkedAssumption
    <3>3. QED
      BY <3>1, <3>2 DEF Legal
  <2>3. AddressIs(filters)
    BY <2>2 DEF AddressIs
  <2>4. Goto(Page("pl", "all_collection"), filters, EmptyPanel)
    BY <1>6 DEF ShowRelated
  <2> HIDE DEF filters
  <2>5. QED
    BY <1>4, <2>3, <2>4, GotoIInv, EmptyPanelIs
<1>7. QED
    BY <1>3, <1>5, <1>6 DEF Leaves

\* The options that arrive are finitely many of those that a fetch may bring.
LEMMA fetchFiltersIInv ==
    ASSUME IInv, fetchFilters
    PROVE  IInv'
<1>1. PICK facets \in Answers[place.collection] : answer' = Nodes(facets)
    BY DEF fetchFilters
<1>2. place.collection \in DOMAIN Answers
    BY DEF IInv, Inv, Pages
<1>3. \A f \in DOMAIN facets : facets[f] \subseteq Values(Offered, f) /\ IsFiniteSet(facets[f])
  <2>1. facets \in AnyAnswer
    BY <1>2 DEF AnyAnswer
  <2>2. \A f \in DOMAIN facets : IsFiniteSet(facets[f])
    BY <1>2, AnswersAssumption
  <2>3. ASSUME NEW f \in DOMAIN facets PROVE facets[f] \subseteq Values(Offered, f)
    <3>1. f \in Filters
      BY <2>1 DEF Filters
    <3>2. Offered[f] = UNION {Values(a, f) : a \in AnyAnswer}
      BY <3>1 DEF Offered
    <3>3. Values(facets, f) = facets[f] /\ Values(Offered, f) = Offered[f]
      BY <3>1 DEF Values, Offered
    <3>4. QED
      BY <2>1, <3>2, <3>3
  <2>4. QED
    BY <2>2, <2>3
<1>4. ASSUME NEW f \in DOMAIN Nodes(facets)
      PROVE  Nodes(facets)[f] \subseteq Values(Offered, f) /\ IsFiniteSet(Nodes(facets)[f])
  <2>1. f \in DOMAIN facets
    BY DEF Nodes
  <2>2. Nodes(facets)[f] \subseteq facets[f]
    BY DEF Nodes, transformCatalogueNames
  <2>3. QED
    BY <1>3, <2>1, <2>2, FS_Subset
<1>5. OptionsAre(answer')
    BY <1>1, <1>4 DEF OptionsAre
<1>6. Inv'
    BY ProgramInv DEF Program, IInv
<1>7. due' = TRUE /\ fq' = fq /\ panel' = panel
    BY DEF fetchFilters
<1>8. QED
    BY <1>5, <1>6, <1>7 DEF IInv

\* The panel that is built has the widgets of the page, and agrees.
LEMMA NewPanelIs ==
    ASSUME IInv
    PROVE  PanelIs(NewPanel) /\ Agrees(NewPanel, fq, configs)
<1> DEFINE chosen == [f \in Typed(configs, {"multiselect", "dropdown"}) |->
                        IF answer = None THEN {} ELSE Values(fq, f) \intersect Values(answer, f)]
           p == NewPanel
<1>1. /\ p.widgets = Widgets /\ p.offered = answer /\ p.chosen = chosen
      /\ p.ticks = Restrict(chosen, Typed(configs, {"multiselect"}))
      /\ p.boxes = [f \in Typed(configs, CheckboxTypes) |-> Values(fq, f)]
      /\ DOMAIN p = DOMAIN EmptyPanel
    BY DEF NewPanel, EmptyPanel
<1>2. \A f : f \in DOMAIN p.ticks <=> f \in Typed(configs, {"multiselect"})
    BY <1>1 DEF Restrict
<1>3. \A f \in DOMAIN p.ticks : p.ticks[f] = chosen[f] /\ f \in DOMAIN chosen
    BY <1>1 DEF Restrict, Typed
<1>4. \A f \in DOMAIN chosen : chosen[f] \subseteq Values(fq, f) /\ chosen[f] \subseteq Shown(p, f)
    BY <1>1 DEF Shown
<1>5. \A f : f \in DOMAIN p.boxes <=> f \in Typed(configs, CheckboxTypes)
    BY <1>1
<1>6. \A f \in DOMAIN p.boxes : p.boxes[f] = Values(fq, f)
    BY <1>1
<1>7. Agrees(p, fq, configs)
  <2>1. \A f \in DOMAIN p.ticks : Values(p.chosen, f) \subseteq Values(fq, f)
    BY <1>1, <1>3, <1>4 DEF Values
  <2> HIDE DEF p, chosen
  <2>2. QED
    BY <1>2, <1>3, <1>4, <1>5, <1>6, <2>1 DEF Agrees
<1>8. \A f \in DOMAIN configs : \A types : configs[f] \in types => f \in Ever(types)
    BY TypeHere DEF IInv
<1>9. \A f \in DOMAIN p.widgets : f \in Ever({p.widgets[f]})
  <2>1. ASSUME NEW f \in DOMAIN Widgets PROVE f \in Ever({Widgets[f]})
    <3>1. f \in DOMAIN configs /\ Widgets[f] = configs[f]
      BY DEF Widgets, Restrict, Typed
    <3>2. QED
      BY <1>8, <3>1
  <2>2. QED
    BY <1>1, <2>1
<1>10. \A f \in DOMAIN p.ticks :
          f \in Ever({"multiselect"}) /\ \A v \in p.ticks[f] : Inside(p, f, v)
  <2> HIDE DEF p, chosen
  <2>1. QED
    BY <1>2, <1>3, <1>4, <1>8 DEF Typed, Inside
<1>11. \A f \in DOMAIN p.boxes :
          f \in Ever(CheckboxTypes) /\ p.boxes[f] \subseteq Values(Offered, f)
  <2>1. ASSUME NEW f \in DOMAIN p.boxes PROVE f \in Ever(CheckboxTypes)
    BY <1>5, <1>8 DEF Typed
  <2>2. ASSUME NEW f \in DOMAIN p.boxes PROVE p.boxes[f] \subseteq Values(Offered, f)
    <3>1. Values(fq, f) \subseteq Legal(f)
      BY DEF IInv, AddressIs, Values
    <3>2. Legal(f) = Values(Offered, f)
      BY <2>1, CheckboxLegal
    <3>3. QED
      BY <1>6, <3>1, <3>2
  <2>3. QED
    BY <2>1, <2>2
<1>12. PanelIs(p)
  <2>1. OptionsAre(p.offered)
    BY <1>1 DEF IInv
  <2>2. \A f \in DOMAIN p.chosen : p.chosen[f] \subseteq Shown(p, f)
    BY <1>1, <1>4
  <2> HIDE DEF p, chosen
  <2>3. QED
    BY <1>1, <1>9, <1>10, <1>11, <2>1, <2>2 DEF PanelIs
<1>13. QED
    BY <1>7, <1>12

\* What a tree reports when it is built is an address, if it is another one.
LEMMA RenderIInv ==
    ASSUME IInv, Render
    PROVE  IInv'
<1> DEFINE written == Deserialized(Serialized(fq), 3)
<1>1. \/ Goto(place, written, NewPanel)
      \/ due' = FALSE /\ panel' = NewPanel /\ UNCHANGED <<place, configs, fq, answer>>
    BY DEF Render
<1>2. CASE Goto(place, written, NewPanel)
  <2>1. AddressIs(written)
    BY HeldNow, DeserializedIs DEF IInv
  <2> HIDE DEF written
  <2>2. QED
    BY <1>2, <2>1, NewPanelIs, GotoIInv DEF IInv, Inv
<1>3. CASE due' = FALSE /\ panel' = NewPanel /\ UNCHANGED <<place, configs, fq, answer>>
  <2>1. Inv'
    BY <1>3 DEF IInv, Inv, setScope
  <2>2. PanelIs(panel') /\ Agrees(panel', fq', configs')
    BY <1>3, NewPanelIs
  <2>3. QED
    BY <1>3, <2>1, <2>2 DEF IInv
<1>4. QED
    BY <1>1, <1>2, <1>3

\* So is what the slider reports.
LEMMA RangeEchoIInv ==
    ASSUME IInv, RangeEcho
    PROVE  IInv'
<1> DEFINE p == [panel EXCEPT !.echo = FALSE]
<1>1. PICK f \in Typed(panel.widgets, {"range"}) :
        Navigate(IF f \in DOMAIN configs
                 THEN Replaced(f, {AtSlider(v) : v \in Values(Serialized(fq), f)})
                 ELSE Deserialized(Serialized(fq), 1), p)
    BY DEF RangeEcho
<1>2. PanelIs(p) /\ (~due => Agrees(p, fq, configs))
    BY EchoedIs DEF IInv
<1> HIDE DEF p
<1>3. CASE f \in DOMAIN configs
  <2> DEFINE values == {AtSlider(v) : v \in Values(Serialized(fq), f)}
  <2>1. f \in RangeFilters
    BY WidgetOf, EverWidens DEF IInv, RangeFilters, RangeTypes
  <2>2. Values(Serialized(fq), f) \subseteq Ends \X Ends
    BY <1>3, <2>1, HeldNow, LegalRange DEF Ranges
  <2>3. values \in SUBSET (Ends \X Ends)
    BY <2>2, SlidIs
  <2>4. Navigate(Replaced(f, values), p)
    BY <1>1, <1>3
  <2> HIDE DEF values
  <2>5. AddressIs(Replaced(f, values))
    BY <2>1, <2>3, HeldNow, ReplacedIs DEF IInv
  <2>6. QED
    BY <1>2, <2>4, <2>5, NavigateIInv DEF Writes
<1>4. CASE f \notin DOMAIN configs
  <2>1. AddressIs(Deserialized(Serialized(fq), 1))
    BY HeldNow, DeserializedIs DEF IInv
  <2>2. QED
    BY <1>1, <1>2, <1>4, <2>1, NavigateIInv DEF Writes
<1>5. QED
    BY <1>3, <1>4

\* Every step keeps the invariant.
LEMMA NextIInv == IInv /\ [Next]_vars => IInv'
<1>1. SUFFICES ASSUME IInv, [Next]_vars PROVE IInv'
    OBVIOUS
<1>2. ASSUME NEW f \in Filters, ActsOn(f) PROVE IInv'
    BY <1>1, <1>2, UserActs, NavigateIInv DEF Acts
<1>3. CASE clearAll
    BY <1>1, <1>3, NavigateIInv, EmptyAddressIs DEF clearAll, Writes, IInv
<1>4. CASE OtherParams
    BY <1>1, <1>4, GotoIInv DEF OtherParams, IInv, Inv
<1>5. CASE Leaves
    BY <1>1, <1>5, LeavesIInv
<1>6. CASE Program
    BY <1>1, <1>6, fetchFiltersIInv, RenderIInv, RangeEchoIInv DEF Program
<1>7. CASE UNCHANGED vars
  <2>1. Inv'
    BY <1>1, <1>7 DEF vars, Inv, IInv, setScope
  <2>2. QED
    BY <1>1, <1>7, <2>1 DEF vars, IInv
<1>8. QED
    BY <1>1, <1>2, <1>3, <1>4, <1>5, <1>6, <1>7 DEF Next

\* The invariant holds, always.
LEMMA PanelInvariance == Spec => []IInv
    BY InitIInv, NextIInv, PTL DEF Spec

\* The address holds only values that its filters can have, whatever the user did
\* and in whatever order the options, the panel and the report of the slider came:
\* no range without ends, no date in a list, no filter without values (serialize
\* and deserialize of filters-serializers). What is ticked and checked in the panel
\* is there to be ticked and checked.
THEOREM TypeCorrect == Spec => []TypeOK
<1>1. IInv => TypeOK
  <2> SUFFICES ASSUME IInv PROVE TypeOK
    OBVIOUS
  <2>1. \A f, v : InTree(f, v) <=> Inside(panel, f, v)
    BY OptionsShown
  <2>2. place \in [scope : {"eu", "pl"}, collection : EU_CONTEXT_COLLECTIONS, west : BOOLEAN]
    BY DEF IInv, Inv, Pages
  <2>3. QED
    BY <2>1, <2>2 DEF IInv, Inv, AddressIs, OptionsAre, PanelIs, TypeOK
<1>2. QED
    BY <1>1, PanelInvariance, PTL

\* At rest the panel tells what the address asks for (filter-multiselect, the two
\* components of checkboxes): the boxes are flipped at each navigation, whatever
\* their state, yet none is left the wrong way round once the panel is built.
THEOREM PanelTells == Spec => []PanelAgrees
<1>1. IInv => PanelAgrees
  <2> SUFFICES ASSUME IInv, Resting PROVE PanelAgrees
    BY DEF PanelAgrees
  <2>1. Agrees(panel, fq, configs)
    BY DEF IInv, Resting
  <2>2. \A f, v : Under(f, v) = Deeper(panel, f, v)
    BY OptionsShown
  <2>3. QED
    BY <2>1, <2>2 DEF Agrees, PanelAgrees
<1>2. QED
    BY <1>1, PanelInvariance, PTL

-----------------------------------------------------------------------------
(* What a rewriting keeps.                                                  *)

\* The values of a filter after one reading, and after n turns of the two.
Read(f, values) ==
    IF f \notin DOMAIN configs THEN {}
    ELSE IF configs[f] = "range" THEN {RangeSerializer(v) : v \in values} ELSE values
Turned(f, values, n) ==
    IF f \notin DOMAIN configs THEN {} ELSE deserialize(f, values, n)

\* Each filter is read by itself,
LEMMA ReadIs ==
    ASSUME NEW map, NEW f
    PROVE  Values(Serialized(map), f) = Read(f, Values(map, f))
    BY DEF Values, Serialized, Read

\* and written by itself,
LEMMA TurnedIs ==
    ASSUME NEW map, NEW f, NEW n
    PROVE  Values(Deserialized(map, n), f) = Turned(f, Values(map, f), n)
<1> DEFINE written == [g \in DOMAIN map \cap DOMAIN configs |-> deserialize(g, map[g], n)]
           filters == Deserialized(map, n)
<1>1. filters = Restrict(written, {g \in DOMAIN written : written[g] # {}})
    BY DEF Deserialized
<1>2. deserialize(f, {}, n) = {}
    BY DEF deserialize, DateDeserializer, RangeDeserializer
<1> HIDE DEF filters
<1>3. CASE f \in DOMAIN map \cap DOMAIN configs
  <2>1. f \in DOMAIN written /\ written[f] = deserialize(f, map[f], n)
    BY <1>3
  <2> HIDE DEF written
  <2>2. f \in DOMAIN filters <=> written[f] # {}
    BY <1>1, <2>1 DEF Restrict
  <2>3. f \in DOMAIN filters => filters[f] = written[f]
    BY <1>1 DEF Restrict
  <2>4. Values(filters, f) = deserialize(f, map[f], n)
    BY <2>1, <2>2, <2>3 DEF Values
  <2>5. Turned(f, Values(map, f), n) = deserialize(f, map[f], n)
    BY <1>3 DEF Turned, Values
  <2>6. QED
    BY <2>4, <2>5 DEF filters
<1>4. CASE f \notin DOMAIN map \cap DOMAIN configs
  <2>1. f \notin DOMAIN written
    BY <1>4
  <2> HIDE DEF written
  <2>2. f \notin DOMAIN filters
    BY <1>1, <2>1 DEF Restrict
  <2>3. Values(filters, f) = {}
    BY <2>2 DEF Values
  <2>4. Turned(f, Values(map, f), n) = {}
    BY <1>2, <1>4 DEF Turned, Values
  <2>5. QED
    BY <2>3, <2>4 DEF filters
<1>5. QED
    BY <1>3, <1>4

\* and the values of one filter are put beside those of the others.
LEMMA WithHas ==
    ASSUME NEW map, NEW f, NEW values, NEW g
    PROVE  Values(With(map, f, values), g) = IF g = f THEN values ELSE Values(map, g)
    BY DEF Values, With

\* What a range widget reports is written as it is, the others are read and written.
LEMMA ReplacedHas ==
    ASSUME NEW f, NEW values, NEW g
    PROVE  Values(Replaced(f, values), g) =
             IF g = f THEN values \ {NoDates} ELSE Turned(g, Values(Serialized(fq), g), 1)
<1> DEFINE others == Deserialized(Serialized(fq), 1)
           map == With(others, f, values \ {NoDates})
           filters == Replaced(f, values)
<1>1. filters = Restrict(map, {h \in DOMAIN map : map[h] # {}})
    BY DEF Replaced
<1>2. Values(map, g) = IF g = f THEN values \ {NoDates} ELSE Values(others, g)
  <2> HIDE DEF others
  <2>1. QED
    BY WithHas
<1>3. Values(others, g) = Turned(g, Values(Serialized(fq), g), 1)
    BY TurnedIs
<1> HIDE DEF map, others, filters
<1>4. Values(filters, g) = Values(map, g)
  <2>1. g \in DOMAIN filters <=> g \in DOMAIN map /\ map[g] # {}
    BY <1>1 DEF Restrict
  <2>2. g \in DOMAIN filters => filters[g] = map[g]
    BY <1>1 DEF Restrict
  <2>3. QED
    BY <2>1, <2>2 DEF Values
<1>5. QED
    BY <1>2, <1>3, <1>4 DEF filters

\* A filter whose values come back when they are written and read.
Unsteady(f) ==
    \/ place.west /\ configs[f] \in DateTypes
    \/ configs[f] = "range" /\ \E v \in Values(Serialized(fq), f) :
          RangeDeserializer({v}) = {} \/ AtSlider(v) = NoDates \/ AtSlider(v)[2] # v[2]

\* A duration that was read has a start.
LEMMA ReadRange ==
    ASSUME IInv, NEW f \in DOMAIN configs, configs[f] = "range",
           NEW v \in Values(Serialized(fq), f)
    PROVE  v \in Ranges /\ v[1] \in Nat /\ RangeSerializer(v) = v
<1>1. PICK w \in Values(fq, f) : v = RangeSerializer(w)
    BY ReadIs DEF Read
<1>2. f \in RangeFilters
    BY RangeHere DEF RangeTypes, IInv
<1>3. w \in Ranges
    BY <1>1, <1>2, LegalRange DEF IInv, AddressIs, Values
<1>4. QED
    BY <1>1, <1>3, NumbersAssumption DEF RangeSerializer, Ranges, Ends, NoDates

\* The values of a steady filter that were read stay as they are, however often
\* they are written and read.
LEMMA SteadyIs ==
    ASSUME IInv, NEW f \in DOMAIN configs, ~Unsteady(f), NEW n
    PROVE  /\ Turned(f, Values(Serialized(fq), f), n) = Values(Serialized(fq), f)
           /\ Read(f, Values(Serialized(fq), f)) = Values(Serialized(fq), f)
<1> DEFINE values == Values(Serialized(fq), f)
<1>1. CASE configs[f] = "range"
  <2>1. \A v \in values : RangeSerializer(v) = v /\ RangeDeserializer({v}) # {}
    BY <1>1, ReadRange DEF Unsteady
  <2>2. RangeDeserializer(values) = values
    BY <2>1 DEF RangeDeserializer
  <2>3. deserialize(f, values, n) = RangeDeserializer(values)
    BY <1>1 DEF deserialize, DateTypes
  <2> HIDE DEF values
  <2>4. Read(f, values) = values
    BY <1>1, <2>1 DEF Read
  <2>5. QED
    BY <2>2, <2>3, <2>4 DEF Turned, values
<1>2. CASE configs[f] # "range"
  <2>1. configs[f] \in DateTypes => ~place.west
    BY DEF Unsteady
  <2>2. deserialize(f, values, n) = values
    BY <1>2, <2>1 DEF deserialize, DateDeserializer
  <2>3. QED
    BY <1>2, <2>2 DEF Read, Turned
<1>3. QED
    BY <1>1, <1>2

\* Rewriting one filter keeps the others.
LEMMA OthersKept ==
    ASSUME IInv, NEW f, NEW filters, Rewrites(f, filters), NEW g, g # f,
           g \in DOMAIN configs => ~Unsteady(g)
    PROVE  Values(Serialized(filters), g) = Values(Serialized(fq), g)
<1> DEFINE before == Values(Serialized(fq), g)
<1>1. Values(Serialized(filters), g) = Read(g, Values(filters, g))
    BY ReadIs
<1>2. CASE g \notin DOMAIN configs
    BY <1>1, <1>2, ReadIs DEF Read
<1>3. CASE g \in DOMAIN configs
  <2>1. \A n : Turned(g, before, n) = before /\ Read(g, before) = before
    BY <1>3, SteadyIs
  <2> HIDE DEF before
  <2>2. ASSUME NEW values, NEW n, filters = Deserialized(With(Serialized(fq), f, values), n)
        PROVE  Values(filters, g) = before
    <3>1. Values(With(Serialized(fq), f, values), g) = before
      BY WithHas DEF before
    <3>2. QED
      BY <2>1, <2>2, <3>1, TurnedIs
  <2>3. ASSUME NEW values, filters = Replaced(f, values) PROVE Values(filters, g) = before
    BY <2>1, <2>3, ReplacedHas DEF before
  <2>4. CASE filters = Restrict(fq, DOMAIN fq \ {f})
    <3>1. Values(filters, g) = Values(fq, g)
      BY <2>4 DEF Values, Restrict
    <3>2. QED
      BY <1>1, <3>1, ReadIs DEF before
  <2>5. QED
    BY <1>1, <2>1, <2>2, <2>3, <2>4 DEF Rewrites, before
<1>4. QED
    BY <1>2, <1>3

\* The filters that a step moves.
Moved(after) ==
    {f \in DOMAIN Serialized(fq) \union DOMAIN after :
        Values(after, f) # Values(Serialized(fq), f) /\ ~Unsteady(f)}

\* A filter that moves is one of the page.
LEMMA MovedHere ==
    ASSUME NEW filters, NEW f \in Moved(Serialized(filters))
    PROVE  f \in DOMAIN configs
    BY DEF Moved, Serialized

\* A rewriting of one filter moves no other.
LEMMA RewriteMoves ==
    ASSUME IInv, NEW f, NEW filters, Rewrites(f, filters)
    PROVE  Moved(Serialized(filters)) \subseteq {f}
<1>1. SUFFICES ASSUME NEW g \in Moved(Serialized(filters)), g # f PROVE FALSE
    OBVIOUS
<1>2. ~Unsteady(g) /\ Values(Serialized(filters), g) # Values(Serialized(fq), g)
    BY DEF Moved
<1>3. QED
    BY <1>1, <1>2, OthersKept

\* Reading and writing alone moves nothing.
LEMMA TurnMoves ==
    ASSUME IInv, NEW n
    PROVE  Moved(Serialized(Deserialized(Serialized(fq), n))) = {}
<1>1. SUFFICES ASSUME NEW g \in Moved(Serialized(Deserialized(Serialized(fq), n))) PROVE FALSE
    OBVIOUS
<1> DEFINE before == Values(Serialized(fq), g)
           filters == Deserialized(Serialized(fq), n)
<1>2. ~Unsteady(g) /\ g \in DOMAIN configs
    BY MovedHere DEF Moved
<1>3. Values(filters, g) = before
    BY <1>2, SteadyIs, TurnedIs
<1>4. Values(Serialized(filters), g) = before
  <2> HIDE DEF filters, before
  <2>1. Read(g, before) = before
    BY <1>2, SteadyIs DEF before
  <2>2. QED
    BY <1>3, <2>1, ReadIs
<1>5. QED
    BY <1>4 DEF Moved

\* Nor does what the slider reports.
LEMMA EchoMoves ==
    ASSUME IInv, RangeEcho
    PROVE  Moved(Serialized(fq')) = {}
<1> DEFINE p == [panel EXCEPT !.echo = FALSE]
           S(f) == Values(Serialized(fq), f)
<1>1. PICK f \in Typed(panel.widgets, {"range"}) :
        fq' = IF f \in DOMAIN configs THEN Replaced(f, {AtSlider(v) : v \in S(f)})
              ELSE Deserialized(Serialized(fq), 1)
    BY NavigateWrites DEF RangeEcho
<1>2. CASE f \notin DOMAIN configs
  <2>1. fq' = Deserialized(Serialized(fq), 1)
    BY <1>1, <1>2
  <2>2. QED
    BY <2>1, TurnMoves
<1>3. CASE f \in DOMAIN configs
  <2>1. configs[f] = "range"
    <3>1. f \in Ever({"range"})
      BY WidgetOf DEF IInv
    <3>2. QED
      BY <1>3, <3>1, SameFamily DEF IInv
  <2> DEFINE filters == Replaced(f, {AtSlider(v) : v \in S(f)})
  <2>2. fq' = filters
    BY <1>1, <1>3
  <2>3. Moved(Serialized(filters)) \subseteq {f}
    <3>1. Rewrites(f, filters)
      BY DEF Rewrites
    <3> HIDE DEF filters
    <3>2. QED
      BY <3>1, RewriteMoves
  <2>4. ASSUME f \in Moved(Serialized(filters)) PROVE FALSE
    <3>1. ~Unsteady(f) /\ Values(Serialized(filters), f) # S(f)
      BY <2>4 DEF Moved
    <3>2. \A v \in S(f) : AtSlider(v) # NoDates /\ AtSlider(v)[2] = v[2]
      BY <2>1, <3>1 DEF Unsteady
    <3>3. Values(filters, f) = {AtSlider(v) : v \in S(f)}
      BY <3>2, ReplacedHas
    <3>4. ASSUME NEW v \in S(f) PROVE RangeSerializer(AtSlider(v)) = v
      <4>1. v \in Ranges /\ v[1] \in Nat
        BY <1>3, <2>1, ReadRange
      <4>2. AtSlider(v)[2] = v[2] /\ AtSlider(v)[1] = IF v[1] = 0 THEN None ELSE v[1]
        BY <3>2 DEF AtSlider
      <4>3. v = <<v[1], v[2]>>
        BY <4>1 DEF Ranges
      <4>4. QED
        BY <4>1, <4>2, <4>3, NumbersAssumption DEF RangeSerializer
    <3>5. Values(Serialized(filters), f) = {RangeSerializer(w) : w \in Values(filters, f)}
      BY <1>3, <2>1, ReadIs DEF Read
    <3> HIDE DEF filters, S
    <3>6. Values(Serialized(filters), f) = S(f)
      BY <3>3, <3>4, <3>5
    <3>7. QED
      BY <3>1, <3>6
  <2> HIDE DEF filters
  <2>5. QED
    BY <2>2, <2>3, <2>4
<1>4. QED
    BY <1>2, <1>3

\* What the widgets write by themselves moves none.
LEMMA ProgramMoves ==
    ASSUME IInv, Program, fq' # fq
    PROVE  Moved(Serialized(fq')) = {}
<1>1. CASE Render
  <2>1. fq' = Deserialized(Serialized(fq), 3)
    BY <1>1 DEF Render, Goto
  <2>2. QED
    BY <2>1, TurnMoves
<1>2. CASE RangeEcho
    BY <1>2, EchoMoves
<1>3. QED
    BY <1>1, <1>2 DEF Program, fetchFilters

\* The page changes, or the address is empty, or one filter moves at most.
LEMMA StepMoves ==
    ASSUME IInv, Next, fq' \notin {fq, <<>>}, place' = place
    PROVE  \E f : Moved(Serialized(fq')) \subseteq {f}
<1>1. ASSUME NEW f \in Filters, ActsOn(f) PROVE Moved(Serialized(fq')) \subseteq {f}
  <2>1. PICK filters, p : Navigate(filters, p) /\ Rewrites(f, filters)
    BY <1>1, UserActs DEF Acts
  <2>2. fq' = filters
    BY <2>1, NavigateWrites
  <2>3. QED
    BY <2>1, <2>2, RewriteMoves
<1>2. CASE clearAll
    BY <1>2, NavigateWrites DEF clearAll
<1>3. CASE OtherParams
    BY <1>3 DEF OtherParams, Goto
<1>4. CASE Leaves
  <2>1. ASSUME NEW v, ShowRelated(v) PROVE FALSE
    <3>1. place' = Page("pl", "all_collection") /\ place.collection \in DOMAIN fqDict
      BY <2>1 DEF ShowRelated, Goto
    <3>2. place'.collection = "all_collection"
      BY <3>1 DEF Page, IInv, Inv, Pages
    <3>3. QED
      BY <3>1, <3>2 DEF fqDict
  <2>2. QED
    BY <1>4, <2>1 DEF Leaves, setCollection, Breadcrumb, Goto
<1>5. CASE Program
    BY <1>5, ProgramMoves
<1>6. QED
    BY <1>1, <1>2, <1>3, <1>4, <1>5 DEF Next

\* Rewriting the address changes one filter, for every table and every value:
\* the badges, tags, trees, dropdowns, boxes and ranges keep the values of all the
\* other filters but those that are named unsteady, and what the widgets write by
\* themselves changes none (serializeAll and deserializeAll).
THEOREM OthersStay == Spec => OthersAreKept
<1> DEFINE
      before == Serialized(fq)
      after == Serialized(fq')
      unsteady(f) ==
          \/ place.west /\ configs[f] \in DateTypes
          \/ configs[f] = "range" /\ \E v \in Values(before, f) :
                RangeDeserializer({v}) = {} \/ AtSlider(v) = NoDates \/ AtSlider(v)[2] # v[2]
      moved == {f \in DOMAIN before \union DOMAIN after :
                   Values(after, f) # Values(before, f) /\ ~unsteady(f)}
      kept == fq' \notin {fq, <<>>} /\ place' = place =>
                 Cardinality(moved) = IF moved = {} \/ Program THEN 0 ELSE 1
<1>1. ASSUME IInv, [Next]_vars PROVE [kept]_vars
  <2>1. SUFFICES ASSUME Next, fq' \notin {fq, <<>>}, place' = place PROVE kept
    BY <1>1 DEF vars
  <2>2. moved = Moved(Serialized(fq'))
    BY DEF Moved, Unsteady
  <2>3. PICK f : moved \subseteq {f}
    BY <1>1, <2>1, <2>2, StepMoves
  <2>4. Program => moved = {}
    BY <1>1, <2>1, <2>2, ProgramMoves
  <2> HIDE DEF moved
  <2>5. Cardinality({}) = 0 /\ Cardinality({f}) = 1
    BY FS_EmptySet, FS_Singleton
  <2>6. moved = {} \/ moved = {f}
    BY <2>3
  <2>7. QED
    BY <2>4, <2>5, <2>6
<1>2. OthersAreKept <=> [][kept]_vars
    BY PTL DEF OthersAreKept
<1>3. QED
    BY <1>1, <1>2, PanelInvariance, PTL DEF Spec

\* The statuses and types in the address are among those that are offered.
LEMMA RewrittenLegal ==
    ASSUME IInv, NEW f \in Asked \cap {"project_status", "related_resources"},
           NEW c \in EU_CONTEXT_COLLECTIONS, f \in Rewritten(c)
    PROVE  fq[f] # {} /\ fq[f] \subseteq Values(Offered, f)
<1>1. fq[f] # {} /\ fq[f] \subseteq Legal(f)
    BY DEF IInv, AddressIs, Asked
<1>2. f \notin RangeFilters
    BY TablesAssumption
<1>3. f \notin LinkFilters
    BY DEF LinkFilters, fqDict
<1>4. QED
    BY <1>1, <1>2, <1>3 DEF Legal

\* What is sent can be parsed.
LEMMA SentIsParsed ==
    ASSUME IInv
    PROVE  Parsable(place.collection, Sent(fq))
<1>1. ASSUME NEW f, NEW w \in About(Sent(fq), {f}), f \in Rewritten(place.collection)
      PROVE  f \in Asked /\ w.values = fq[f]
  <2>1. f \in Asked /\ w \in Written(f, fq[f])
    BY <1>1, AboutIs
  <2>2. Written(f, fq[f]) = {Terms(f, fq[f])}
    BY <1>1, <2>1, RewrittenIsOne DEF IInv
  <2>3. QED
    BY <2>1, <2>2 DEF Terms
<1>2. place.collection \in EU_CONTEXT_COLLECTIONS
    BY DEF IInv, Inv, Pages
<1>3. ASSUME place.collection = "project", NEW w \in About(Sent(fq), {"project_status"})
      PROVE  w.values \in {{Ongoing}, {Closed}, {Ongoing, Closed}}
  <2>1. "project_status" \in Rewritten(place.collection)
    BY <1>3 DEF Rewritten
  <2>2. "project_status" \in Asked /\ w.values = fq["project_status"]
    BY <1>1, <1>3, <2>1
  <2>3. w.values # {} /\ w.values \subseteq Values(Offered, "project_status")
    BY <1>2, <2>1, <2>2, RewrittenLegal
  <2>4. \A v \in w.values : v \in {Ongoing, Closed}
    BY <2>3, OfferedAre
  <2>5. QED
    BY <2>3, <2>4
<1>4. ASSUME place.collection = "organisation", NEW w \in About(Sent(fq), {"related_resources"})
      PROVE  w.values \subseteq {<<type>> : type \in DOMAIN TYPE_TO_FIELD_MAP}
  <2>1. "related_resources" \in Rewritten(place.collection)
    BY <1>4 DEF Rewritten
  <2>2. "related_resources" \in Asked /\ w.values = fq["related_resources"]
    BY <1>1, <1>4, <2>1
  <2>3. w.values \subseteq Values(Offered, "related_resources")
    BY <1>2, <2>1, <2>2, RewrittenLegal
  <2>4. QED
    BY <2>3, OfferedAre
<1>5. QED
    BY <1>3, <1>4 DEF Parsable

\* On every page and with every address, the rewriting of the filters in
\* solr/utils.py raises no KeyError and finds the documents that satisfy the filters,
\* whatever the day, the tables and the documents are.
THEOREM RewritingKeepsMeaning == Spec => []FoundAsAsked
<1>1. IInv => FoundAsAsked
    BY SentIsParsed, FoundMeans DEF IInv
<1>2. QED
    BY <1>1, PanelInvariance, PTL

-----------------------------------------------------------------------------
(* The options that are counted for a filter.                               *)

\* One filter more makes one query more.
LEMMA EachMore ==
    ASSUME NEW filters, NEW w, NEW fields, w.field \notin fields
    PROVE  /\ About(filters \union {w}, fields) = About(filters, fields)
           /\ Each((filters \union {w}) \ About(filters, fields)) =
                Each(filters \ About(filters, fields)) \union {{w}}
           /\ Each(filters \union {w}) = Each(filters) \union {{w}}
<1> DEFINE about == About(filters, fields)
<1>1. About(filters \union {w}, fields) = about
    BY DEF About
<1>2. w \notin about
    BY DEF About
<1> HIDE DEF about
<1>3. (filters \union {w}) \ about = (filters \ about) \union {w}
    BY <1>2
<1>4. ASSUME NEW S PROVE Each(S \union {w}) = Each(S) \union {{w}}
    BY DEF Each
<1>5. QED
    BY <1>1, <1>3, <1>4 DEF about

\* One filter more that is not rewritten is one query more.
LEMMA SearchMore ==
    ASSUME NEW c, NEW filters, NEW w, w.field \notin Rewritten(c)
    PROVE  search(c, filters \union {w}) = search(c, filters) \union {{w}}
<1> DEFINE all == filters \union {w}
<1>1. CASE c = "all_collection"
  <2> DEFINE fields == {"providers", "resource_organisation"}
  <2>1. w.field \notin fields /\ w.field \notin {"providers"}
    BY <1>1 DEF Rewritten
  <2>2. About(all, {"providers"}) = About(filters, {"providers"})
    BY <2>1 DEF About
  <2>3. /\ About(all, fields) = About(filters, fields)
        /\ Each(all \ About(filters, fields)) =
             Each(filters \ About(filters, fields)) \union {{w}}
        /\ Each(all) = Each(filters) \union {{w}}
    <3> HIDE DEF fields
    <3>1. QED
      BY <2>1, EachMore
  <2>4. parse_providers_filters(all) = parse_providers_filters(filters) \union {{w}}
    BY <2>3 DEF parse_providers_filters
  <2>5. QED
    BY <1>1, <2>2, <2>3, <2>4 DEF search
<1>2. CASE c = "project"
  <2> DEFINE fields == {"project_status"}
  <2>1. w.field \notin fields
    BY <1>2 DEF Rewritten
  <2>2. /\ About(all, fields) = About(filters, fields)
        /\ Each(all \ About(filters, fields)) =
             Each(filters \ About(filters, fields)) \union {{w}}
        /\ Each(all) = Each(filters) \union {{w}}
    <3> HIDE DEF fields
    <3>1. QED
      BY <2>1, EachMore
  <2>3. parse_project_filters(all) = parse_project_filters(filters) \union {{w}}
    BY <2>2 DEF parse_project_filters
  <2>4. QED
    BY <1>2, <2>3 DEF search
<1>3. CASE c = "organisation"
  <2> DEFINE fields == {"related_resources"}
  <2>1. w.field \notin fields
    BY <1>3 DEF Rewritten
  <2>2. /\ About(all, fields) = About(filters, fields)
        /\ Each(all \ About(filters, fields)) =
             Each(filters \ About(filters, fields)) \union {{w}}
        /\ Each(all) = Each(filters) \union {{w}}
    <3> HIDE DEF fields
    <3>1. QED
      BY <2>1, EachMore
  <2>3. parse_organisation_filters(all) = parse_organisation_filters(filters) \union {{w}}
    BY <2>2 DEF parse_organisation_filters
  <2>4. QED
    BY <1>3, <2>3 DEF search
<1>4. CASE c \notin {"all_collection", "project", "organisation"}
  <2>1. w.field \notin {}
    OBVIOUS
  <2>2. Each(all) = Each(filters) \union {{w}}
    BY <2>1, EachMore
  <2>3. QED
    BY <1>4, <2>2 DEF search
<1>5. QED
    BY <1>1, <1>2, <1>3, <1>4

\* To drop all filters of some fields drops queries and adds none, if of the
\* providers' filters both are dropped.
LEMMA SearchLess ==
    ASSUME NEW c, NEW filters, NEW fields,
           c = "all_collection" => Rewritten(c) \cap fields = {}
    PROVE  search(c, About(filters, fields)) \subseteq search(c, filters)
<1> DEFINE less == About(filters, fields)
<1>1. less \subseteq filters
    BY DEF About
<1>2. ASSUME NEW S, NEW T, S \subseteq T PROVE Each(S) \subseteq Each(T)
    BY <1>2 DEF Each
<1>3. ASSUME NEW g
      PROVE  About(less, {g}) = IF g \in fields THEN About(filters, {g}) ELSE {}
    BY DEF About
<1>4. ASSUME NEW g, NEW S, g \in fields \/ S = About(filters, {g})
      PROVE  less \ About(less, {g}) \subseteq filters \ About(filters, {g})
    BY <1>1, <1>3 DEF About
<1>5. CASE c = "all_collection"
  <2> DEFINE both == About(filters, {"providers", "resource_organisation"})
  <2>1. "providers" \notin fields /\ "resource_organisation" \notin fields
    BY <1>5 DEF Rewritten
  <2>2. About(less, {"providers"}) = {}
    BY <1>3, <2>1
  <2>3. search(c, less) = Each(less)
    BY <1>5, <2>2 DEF search
  <2>4. less \subseteq filters \ both
    BY <2>1 DEF About
  <2>5. search(c, filters) \in {Each(filters), Each(filters \ both) \union {both}}
    BY <1>5 DEF search, parse_providers_filters
  <2> HIDE DEF less, both
  <2>6. Each(less) \subseteq Each(filters) /\ Each(less) \subseteq Each(filters \ both)
    BY <1>1, <1>2, <2>4
  <2>7. QED
    BY <2>3, <2>5, <2>6 DEF less
<1>6. CASE c = "project"
  <2> DEFINE g == "project_status"
  <2>1. search(c, less) = parse_project_filters(less) /\
        search(c, filters) = parse_project_filters(filters)
    BY <1>6 DEF search
  <2>2. CASE g \in fields
    <3>1. About(less, {g}) = About(filters, {g})
      BY <1>3, <2>2
    <3>2. Each(less) \subseteq Each(filters)
          /\ Each(less \ About(filters, {g})) \subseteq Each(filters \ About(filters, {g}))
      <4>1. less \ About(filters, {g}) \subseteq filters \ About(filters, {g})
        BY <1>1
      <4>2. QED
        BY <1>1, <1>2, <4>1
    <3> HIDE DEF less
    <3>3. parse_project_filters(less) \subseteq parse_project_filters(filters)
      BY <3>1, <3>2 DEF parse_project_filters
    <3>4. QED
      BY <2>1, <3>3 DEF less
  <2>3. CASE g \notin fields
    <3>1. About(less, {g}) = {}
      BY <1>3, <2>3
    <3>2. parse_project_filters(less) = Each(less)
      BY <3>1 DEF parse_project_filters
    <3>3. less \subseteq filters \ About(filters, {g})
      BY <2>3 DEF About
    <3> HIDE DEF less
    <3>4. Each(less) \subseteq Each(filters) /\
          Each(less) \subseteq Each(filters \ About(filters, {g}))
      BY <1>1, <1>2, <3>3
    <3>5. Each(less) \subseteq parse_project_filters(filters)
      BY <3>4 DEF parse_project_filters
    <3>6. QED
      BY <2>1, <3>2, <3>5 DEF less
  <2>4. QED
    BY <2>2, <2>3
<1>7. CASE c = "organisation"
  <2> DEFINE g == "related_resources"
  <2>1. search(c, less) = parse_organisation_filters(less) /\
        search(c, filters) = parse_organisation_filters(filters)
    BY <1>7 DEF search
  <2>2. CASE g \in fields
    <3>1. About(less, {g}) = About(filters, {g})
      BY <1>3, <2>2
    <3>2. Each(less) \subseteq Each(filters)
          /\ Each(less \ About(filters, {g})) \subseteq Each(filters \ About(filters, {g}))
      <4>1. less \ About(filters, {g}) \subseteq filters \ About(filters, {g})
        BY <1>1
      <4>2. QED
        BY <1>1, <1>2, <4>1
    <3> HIDE DEF less
    <3>3. parse_organisation_filters(less) \subseteq parse_organisation_filters(filters)
      BY <3>1, <3>2 DEF parse_organisation_filters
    <3>4. QED
      BY <2>1, <3>3 DEF less
  <2>3. CASE g \notin fields
    <3>1. About(less, {g}) = {}
      BY <1>3, <2>3
    <3>2. parse_organisation_filters(less) = Each(less)
      BY <3>1 DEF parse_organisation_filters
    <3>3. less \subseteq filters \ About(filters, {g})
      BY <2>3 DEF About
    <3> HIDE DEF less
    <3>4. Each(less) \subseteq Each(filters) /\
          Each(less) \subseteq Each(filters \ About(filters, {g}))
      BY <1>1, <1>2, <3>3
    <3>5. Each(less) \subseteq parse_organisation_filters(filters)
      BY <3>4 DEF parse_organisation_filters
    <3>6. QED
      BY <2>1, <3>2, <3>5 DEF less
  <2>4. QED
    BY <2>2, <2>3
<1>8. CASE c \notin {"all_collection", "project", "organisation"}
    BY <1>1, <1>2, <1>8 DEF search
<1>9. QED
    BY <1>5, <1>6, <1>7, <1>8

-----------------------------------------------------------------------------
\* What is sent of any map of filters.
LEMMA SentOf ==
    ASSUME NEW map, NEW w
    PROVE  w \in Sent(map) <=>
             \E g \in DOMAIN map \ Typed(configs, RangeTypes) : w \in Written(g, map[g])
    BY DEF Sent

\* A filter that is chosen from a list is sent with the value that is added, and
\* the others as they were, unless the collection does not have them.
LEMMA AddedIsSent ==
    ASSUME IInv, NEW f \in Typed(configs, {"multiselect", "dropdown"}), NEW v
    PROVE  Sent(addFilterValue(Serialized(fq), f, v)) =
             About(facetFilters(Sent(fq), f), DOMAIN configs)
               \union {Terms(f, Values(fq, f) \union {v})}
<1> DEFINE map == addFilterValue(Serialized(fq), f, v)
           added == Terms(f, Values(fq, f) \union {v})
           ranges == Typed(configs, RangeTypes)
<1>1. f \in DOMAIN configs \ ranges /\ f \notin Typed(configs, {"tag"})
    BY DEF Typed, RangeTypes, DateTypes
<1>2. ASSUME NEW g \in DOMAIN configs \ ranges
      PROVE  Values(map, g) = IF g = f THEN Values(fq, f) \union {v} ELSE Values(fq, g)
  <2> DEFINE values == Values(Serialized(fq), f) \union {v}
  <2>1. map = Deserialized(With(Serialized(fq), f, values), 1)
    BY DEF addFilterValue
  <2>2. configs[g] \notin RangeTypes
    BY DEF Typed
  <2>3. \A vs : Read(g, vs) = vs /\ Turned(g, vs, 1) = vs
    BY <2>2 DEF Read, Turned, deserialize, RangeTypes
  <2>4. Values(Serialized(fq), g) = Values(fq, g)
    BY <2>3, ReadIs
  <2> HIDE DEF values, map
  <2>5. Values(map, g) = Values(With(Serialized(fq), f, values), g)
    BY <2>1, <2>3, TurnedIs
  <2>6. Values(With(Serialized(fq), f, values), g) =
          IF g = f THEN values ELSE Values(Serialized(fq), g)
    BY WithHas
  <2>7. QED
    BY <2>4, <2>5, <2>6 DEF values
<1>3. DOMAIN map \subseteq DOMAIN configs /\ \A g \in DOMAIN map : map[g] # {}
  <2> DEFINE all == With(Serialized(fq), f, Values(Serialized(fq), f) \union {v})
             written == [g \in DOMAIN all \cap DOMAIN configs |-> deserialize(g, all[g], 1)]
  <2>1. map = Restrict(written, {g \in DOMAIN written : written[g] # {}})
    BY DEF addFilterValue, Deserialized
  <2>2. DOMAIN written \subseteq DOMAIN configs
    OBVIOUS
  <2> HIDE DEF written, map
  <2>3. QED
    BY <2>1, <2>2 DEF Restrict
<1> HIDE DEF map
<1>4. \A g \in DOMAIN fq : fq[g] # {}
    BY DEF IInv, AddressIs
<1>5. ASSUME NEW g \in DOMAIN configs \ ranges, g # f
      PROVE  /\ g \in DOMAIN map <=> g \in DOMAIN fq
             /\ g \in DOMAIN map => map[g] = fq[g]
    BY <1>2, <1>3, <1>4, <1>5 DEF Values
<1>6. f \in DOMAIN map /\ map[f] = Values(fq, f) \union {v}
    BY <1>1, <1>2 DEF Values
<1>7. Written(f, map[f]) = {added}
    BY <1>1, <1>6 DEF Written
<1>8. ASSUME NEW w
      PROVE  w \in Sent(map) <=>
               w = added \/ \E g \in (DOMAIN fq \cap DOMAIN configs) \ (ranges \union {f}) :
                               w \in Written(g, fq[g])
  <2>1. w \in Sent(map) <=> \E g \in DOMAIN map \ ranges : w \in Written(g, map[g])
    BY SentOf
  <2> HIDE DEF ranges, added
  <2>2. QED
    BY <1>1, <1>3, <1>5, <1>6, <1>7, <2>1
<1>9. ASSUME NEW w
      PROVE  w \in About(facetFilters(Sent(fq), f), DOMAIN configs) <=>
               \E g \in (DOMAIN fq \cap DOMAIN configs) \ (ranges \union {f}) :
                  w \in Written(g, fq[g])
  <2>1. w \in Sent(fq) <=> \E g \in DOMAIN fq \ ranges : w \in Written(g, fq[g])
    BY SentOf
  <2>2. \A g : w \in Written(g, fq[g]) => w.field = g
    BY WrittenFields
  <2> HIDE DEF ranges
  <2>3. QED
    BY <2>1, <2>2 DEF About, facetFilters
<1>10. QED
    BY <1>8, <1>9 DEF map

\* An option that is counted finds a document when it is chosen, and what finds one
\* is counted.
LEMMA OptionsMean ==
    ASSUME IInv, NEW f \in Typed(configs, {"multiselect", "dropdown"}), NEW v
    PROVE  LET finds == \E doc \in Results(Sent(addFilterValue(Serialized(fq), f, v))) :
                           v \in Field(doc, f)
           IN /\ v \in OptionsOf(f) => finds
              /\ DOMAIN fq \subseteq DOMAIN configs /\ finds => v \in OptionsOf(f)
<1> DEFINE c == place.collection
           counted == facetFilters(Sent(fq), f)
           kept == About(counted, DOMAIN configs)
           added == Terms(f, Values(fq, f) \union {v})
           sent == Sent(addFilterValue(Serialized(fq), f, v))
<1>1. sent = kept \union {added}
    BY AddedIsSent
<1>2. c \in EU_CONTEXT_COLLECTIONS /\ place.scope \in {"eu", "pl"}
      /\ configs = Configs[place.scope][c]
    BY DEF IInv, Inv, Pages, setScope
<1>3. \A g \in DOMAIN configs \cap Rewritten(c) :
        c # "all_collection" /\ configs[g] \in CheckboxTypes
    BY <1>2, TablesAssumption
<1>4. f \notin Rewritten(c)
    BY <1>3 DEF Typed, CheckboxTypes
<1>5. added.field = f
    BY DEF Terms
<1>6. search(c, sent) = search(c, kept) \union {{added}}
  <2> HIDE DEF kept, added, c, sent
  <2>1. added.field \notin Rewritten(c)
    BY <1>4, <1>5
  <2>2. search(c, kept \union {added}) = search(c, kept) \union {{added}}
    BY <2>1, SearchMore
  <2>3. QED
    BY <1>1, <2>2
<1>7. search(c, kept) \subseteq search(c, counted)
  <2>1. c = "all_collection" => Rewritten(c) \cap DOMAIN configs = {}
    BY <1>3
  <2> HIDE DEF counted, c
  <2>2. QED
    BY <2>1, SearchLess
<1>8. ASSUME NEW doc, v \in Field(doc, f) PROVE MatchesOne(doc, {added})
  <2>1. Matches(doc, added)
    BY <1>8, TermsMean
  <2>2. QED
    BY <2>1 DEF MatchesOne
<1>9. ASSUME NEW doc
      PROVE  /\ doc \in Results(counted) <=>
                  doc \in Documents[c] /\ Hits(doc, search(c, counted))
             /\ doc \in Results(sent) <=> doc \in Documents[c] /\ Hits(doc, search(c, sent))
    BY FoundIs
<1>10. DOMAIN fq \subseteq DOMAIN configs => kept = counted
  <2>1. SUFFICES ASSUME DOMAIN fq \subseteq DOMAIN configs, NEW w \in counted
                 PROVE  w.field \in DOMAIN configs
    BY DEF About
  <2>2. PICK g \in Asked : w \in Written(g, fq[g])
    BY SentIs DEF facetFilters
  <2>3. QED
    BY <2>1, <2>2, WrittenFields DEF Asked
<1>11. v \in OptionsOf(f) <=> \E doc \in Results(counted) : v \in Field(doc, f)
    BY DEF OptionsOf
<1> HIDE DEF counted, kept, added, sent, c
<1>12. ASSUME NEW doc, v \in Field(doc, f)
       PROVE  /\ doc \in Results(counted) => doc \in Results(sent)
              /\ kept = counted /\ doc \in Results(sent) => doc \in Results(counted)
    BY <1>6, <1>7, <1>8, <1>9, <1>12 DEF Hits
<1>13. QED
    BY <1>10, <1>11, <1>12 DEF sent

\* Every option that _search of search_filters.py counts for a list finds a document
\* when it is chosen, and whatever finds one is counted, on every page, for every
\* address and all documents: the filter's own values are left out of the count
\* and come back with the choice, which is rewritten by nothing.
THEOREM OptionsCount == Spec => []OptionsFindResults
<1>1. IInv => OptionsFindResults
  <2> SUFFICES ASSUME IInv PROVE OptionsFindResults
    OBVIOUS
  <2>1. QED
    BY OptionsMean DEF OptionsFindResults
<1>2. QED
    BY <1>1, PanelInvariance, PTL
=============================================================================
