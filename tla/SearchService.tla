--------------------------- MODULE SearchService ---------------------------
(***************************************************************************)
(* The routes of the backend that answer from Solr: results, advanced      *)
(* results, suggestions, filters and recommendations.                      *)
(*                                                                         *)
(* A call is a coroutine.  It asks Solr once or many times (for the        *)
(* documents, for the offers and services of the bundles among them, for   *)
(* the services related to guidelines, for recommended documents), and     *)
(* between two of its requests documents come and go, and other calls run. *)
(* The calls share one thing, the cache of get_fixed_recommendations.      *)
(* Some routes ask with timeout=None: a request of theirs that Solr or the *)
(* recommender never answers keeps the call for ever.                      *)
(*                                                                         *)
(* A document is an id; its collection and the ids it refers to are        *)
(* constants.  Any documents of a collection may match a query, so queries *)
(* and filters are not modelled.  The ranking of results is left out too:  *)
(* answers are sets.  So is what a full cache evicts: any entry may be the *)
(* one that was used least recently.                                       *)
(***************************************************************************)
EXTENDS Naturals, FiniteSets

CONSTANTS
    Call,           \* calls of the routes
    Requests,       \* the requests that the calls can be made for, one a call,
                    \* each with a bound on what may change meanwhile
    Publication, Service, Guideline, Bundle, Offer, Organisation, \* documents
    OffersOf,       \* OffersOf[b]: main_offer_id and offer_ids of a bundle
    ServiceOf,      \* ServiceOf[o]: service_id of an offer
    Scope,          \* values of the parameter scope that read the same Solr
                    \* collections: none, any name that _get_solr_collection
                    \* does not know, and one of those that it knows
    Facet,          \* the facets of a call of /search-filters
    Count,          \* number of documents recommended (3)
    ShowRandom,     \* SHOW_RANDOM_RECOMMENDATIONS
    CacheSize,      \* maxsize of the cache of get_fixed_recommendations (512)
    None

All == Publication \cup Service \cup Guideline \cup Bundle

Doc == All \cup Offer \cup Organisation

\* The documents of each collection.  all_collection holds no offers.
Index ==
    [all_collection |-> All, publication |-> Publication, service |-> Service,
     guideline |-> Guideline, bundle |-> Bundle, organisation |-> Organisation]

Collection == DOMAIN Index

Operations == {"results", "advanced", "suggestions", "filters", "recommendations"}

\* Only results can be sorted by relevance (sort_ui = "r").
Request ==
    {q \in [op: Operations, coll: Collection, scope: Scope, byRelevance: BOOLEAN] :
        q.byRelevance => q.op \in {"results", "advanced"}}

ASSUME SearchServiceAssumption ==
    /\ Requests \subseteq [of: [Call -> Request], maxChanges: Nat]
    /\ OffersOf \in [Bundle -> SUBSET Offer]
    /\ ServiceOf \in [Offer -> Service]
    /\ Count \in Nat
    /\ ShowRandom \in BOOLEAN
    /\ CacheSize \in Nat \ {0}
    /\ None \notin Doc \cup Call

\* The UI asks for the facets of all filters of a collection, and every
\* collection has some that /search-filters does not leave out.
ASSUME FacetsAssumption == Facet # {}

\* Bundles and offers have ids that no other document has.
ASSUME DocumentsAssumption ==
    /\ Bundle \cap (Publication \cup Service \cup Guideline \cup Organisation) = {}
    /\ Offer \cap Service = {}

VARIABLES
    solr,      \* the documents in Solr
    changes,   \* number of changes still to come
    call,      \* call[c]: the state of the coroutine
    silent,    \* the calls that wait for an answer that will never come
    entry,     \* the cache: entry[k], the draw of key k, or None
    drawing,   \* the draws under way, each named by the call that began it
    drawn,     \* the draws that have ended with ids
    fixed,     \* fixed[d]: the ids that draw d ended with
    dropped,   \* history: the draws evicted from the cache or removed by an error
    seen,      \* history: seen[c], the documents in Solr at some time of the call
    gap        \* history: gap[c], those missing at some time of the call

cache == <<entry, drawing, drawn, fixed, dropped>>

vars == <<solr, changes, call, silent, cache, seen, gap>>

-----------------------------------------------------------------------------
\* ALL_COLLECTION_LIST
AllCollectionList == {"publication", "service", "guideline", "bundle"}

\* COLLECTION_TO_PANEL_ID_MAP
WithPanel == {"all_collection", "publication", "service", "bundle"}

\* The collection that stands in for another in get_fixed_recommendations.
FixedOf(k) == IF k = "all_collection" THEN "publication" ELSE k

Phases ==
    {"idle", "search", "offers", "services", "guidelines", "lookup",
     "relevance", "recommender", "items", "drawing", "fixed", "done"}

\* "refused" is an error of Solr or a timeout passed on, "empty" and "gone" the
\* 404 of an empty collection (500 from /search-filters) and of a missing
\* document, "crash" an exception that nothing handles.
Statuses == {"none", "ok", "refused", "empty", "gone", "crash"}

CallState ==
    [op: Operations, coll: Collection, scope: Scope, byRelevance: BOOLEAN,
     phase: Phases,
     asked: SUBSET (Collection \cup Facet),   \* searches under way
     sanity: SUBSET (Collection \cup Facet),  \* those at _check_collection_sanity
     found: SUBSET Doc,       \* what they found
     need: SUBSET Doc,        \* documents still to get, or guidelines to extend
     got: SUBSET Doc,         \* documents got one by one
     guideline: Guideline \cup {None},        \* the one being extended
     pids: SUBSET Service,                    \* its services still to look up
     related: SUBSET (Guideline \X Service),
     draw: Call \cup {None},  \* the draw it waits for or was given
     results: SUBSET Doc, isRand: BOOLEAN, status: Statuses]

Idle(q) ==
    [op |-> q.op, coll |-> q.coll, scope |-> q.scope, byRelevance |-> q.byRelevance,
     phase |-> "idle", asked |-> {}, sanity |-> {}, found |-> {}, need |-> {},
     got |-> {}, guideline |-> None, pids |-> {}, related |-> {}, draw |-> None,
     results |-> {}, isRand |-> FALSE, status |-> "none"]

\* The arguments by which the cache tells calls of get_fixed_recommendations
\* apart.
Key == Collection \X Scope

KeyOf(r) == <<r.coll, r.scope>>

Held == {k \in Key : entry[k] # None}

TypeOK ==
    /\ solr \subseteq Doc
    /\ changes \in Nat
    /\ call \in [Call -> CallState]
    /\ silent \subseteq Call
    /\ entry \in [Key -> Call \cup {None}]
    /\ Cardinality(Held) <= CacheSize
    /\ drawn \subseteq Call
    /\ drawing \subseteq Call \ drawn
    /\ fixed \in [Call -> SUBSET Doc]
    /\ dropped \subseteq Call
    /\ seen \in [Call -> SUBSET Doc]
    /\ gap \in [Call -> SUBSET Doc]

Init ==
    /\ solr \in {{}, Doc}
    /\ \E q \in Requests :
          /\ call = [c \in Call |-> Idle(q.of[c])]
          /\ changes = q.maxChanges
    /\ silent = {}
    /\ entry = [k \in Key |-> None]
    /\ drawing = {}
    /\ drawn = {}
    /\ fixed = [d \in Call |-> {}]
    /\ dropped = {}
    /\ seen = [c \in Call |-> {}]
    /\ gap = [c \in Call |-> {}]

Running(c) == call[c].phase \notin {"idle", "done"}

\* Documents are loaded and dropped by the jobs that fill Solr.
Change(d) ==
    /\ changes > 0
    /\ changes' = changes - 1
    /\ solr' = IF d \in solr THEN solr \ {d} ELSE solr \cup {d}
    /\ seen' = [c \in Call |-> IF Running(c) THEN seen[c] \cup solr' ELSE seen[c]]
    /\ gap' = [c \in Call |-> IF Running(c) THEN gap[c] \cup (Doc \ solr') ELSE gap[c]]
    /\ UNCHANGED <<call, silent, cache>>

\* The clients of these routes are made with timeout=None; the one that draws
\* fixed recommendations, and those of the other routes, give up in time.
NoTimeLimit == {"results", "advanced", "recommendations"}

\* Solr or the recommender never answers a request of the call.
NeverAnswered(c) ==
    /\ changes > 0
    /\ changes' = changes - 1
    /\ Running(c)
    /\ c \notin silent
    /\ call[c].op \in NoTimeLimit
    /\ call[c].phase # "drawing"
    /\ silent' = silent \cup {c}
    /\ UNCHANGED <<solr, call, cache, seen, gap>>

-----------------------------------------------------------------------------
(* How a call ends, and how it goes on when a part of it is complete.      *)

Ended(r, status, results) ==
    [r EXCEPT !.phase = "done", !.status = status, !.results = results,
              !.asked = {}, !.sanity = {}, !.need = {}, !.guideline = None, !.pids = {}]

Failed(r, status) == Ended(r, status, {})

\* create_output.  parse_single_organisation is not a coroutine function:
\* awaiting what it returns raises a TypeError.  A collection without a panel
\* raises a KeyError when its results are sorted by relevance.
Output(r) ==
    IF r.coll = "organisation" /\ r.found # {} THEN Failed(r, "crash")
    ELSE IF ~r.byRelevance THEN Ended(r, "ok", r.found)
    ELSE IF r.coll \in WithPanel THEN [r EXCEPT !.phase = "relevance"]
    ELSE Failed(r, "crash")

\* Only /search-results asks for the services related to guidelines.
ToGuidelines(r) ==
    IF r.op = "results" /\ r.coll \in {"all_collection", "guideline"}
       /\ r.found \cap Guideline # {}
      THEN [r EXCEPT !.phase = "guidelines", !.need = r.found \cap Guideline]
      ELSE Output(r)

ToServices(r) ==
    IF r.got \cap Offer = {} THEN ToGuidelines(r)
    ELSE [r EXCEPT !.phase = "services", !.need = {ServiceOf[o] : o \in r.got \cap Offer}]

\* extend_results_with_bundles
ToOffers(r) ==
    LET offers == UNION {OffersOf[b] : b \in r.found \cap Bundle}
    IN  IF r.coll \in {"all_collection", "bundle"} /\ offers # {}
          THEN [r EXCEPT !.phase = "offers", !.need = offers]
          ELSE ToGuidelines(r)

\* A call waits for all its branches.  What a call for filters found is not
\* part of its answer.
Gathered(r) ==
    IF r.asked \cup r.sanity # {} THEN r
    ELSE IF r.op \in {"results", "advanced"} THEN ToOffers(r)
    ELSE Ended(r, "ok", IF r.op = "filters" THEN {} ELSE r.found)

\* A search that found nothing is tried again.
SearchedAgain(r, b, docs) ==
    IF docs = {} THEN [r EXCEPT !.asked = @ \cup {b}, !.sanity = @ \ {b}]
    ELSE Gathered([r EXCEPT !.asked = @ \ {b}, !.found = @ \cup docs])

\* The search for branch b has been answered.
Searched(r, b, docs) ==
    Gathered([r EXCEPT !.asked = @ \ {b}, !.sanity = @ \ {b}, !.found = @ \cup docs])

-----------------------------------------------------------------------------
\* The searches that a call starts with, all gathered at once: one per
\* collection for suggestions, one per facet for filters.
Branches(op, coll) ==
    CASE op = "suggestions" -> IF coll = "all_collection" THEN AllCollectionList ELSE {coll}
      [] op = "filters" -> Facet
      [] op \in {"results", "advanced"} -> {coll}
      [] op = "recommendations" -> {}

\* A request arrives.  Recommendations of a collection without a panel raise a
\* KeyError before the recommender is asked.
Begin(c) ==
    /\ call[c].phase = "idle"
    /\ LET r == [call[c] EXCEPT !.asked = Branches(call[c].op, call[c].coll)]
       IN  call' = [call EXCEPT ![c] =
             IF r.op # "recommendations" THEN [r EXCEPT !.phase = "search"]
             ELSE IF r.coll \in WithPanel THEN [r EXCEPT !.phase = "recommender"]
             ELSE Failed(r, "crash")]
    /\ seen' = [seen EXCEPT ![c] = solr]
    /\ gap' = [gap EXCEPT ![c] = Doc \ solr]
    /\ UNCHANGED <<solr, changes, silent, cache>>

\* A step of call c that leads to state r and leaves the rest alone.
Step(c, r) ==
    /\ call' = [call EXCEPT ![c] = r]
    /\ UNCHANGED <<solr, changes, silent, cache, seen, gap>>

Target(r, b) == IF r.op = "filters" THEN r.coll ELSE b

ToSanityNever(r, b) == Searched(r, b, {})

\* When nothing matched, the collection is asked whether it holds anything.
ToSanity(r, b) == [r EXCEPT !.asked = @ \ {b}, !.sanity = @ \cup {b}]

\* search and search_advanced of solr/operations.py; the latter checks the
\* collection only when the call has facets.
Search(c, b) ==
    LET r == call[c]
    IN  /\ r.phase = "search"
        /\ b \in r.asked
        /\ \/ Step(c, Failed(r, "refused"))
           \/ \E docs \in SUBSET (solr \cap Index[Target(r, b)]) :
                 docs # {} /\ Step(c, Searched(r, b, docs))
           \/ Step(c, ToSanity(r, b))
           \/ r.op = "advanced" /\ Step(c, Searched(r, b, {}))

\* SolrCollectionEmptyError: only the suggestions catch it.
EmptyCollection(r, b) ==
    IF r.op = "suggestions" THEN Searched(r, b, {}) ELSE Failed(r, "empty")

\* _check_collection_sanity
CheckCollectionSanity(c, b) ==
    LET r == call[c]
    IN  /\ r.phase = "search"
        /\ b \in r.sanity
        /\ \/ Step(c, Failed(r, "refused"))
           \/ /\ solr \cap Index[Target(r, b)] = {}
              /\ Step(c, EmptyCollection(r, b))
           \/ /\ solr \cap Index[Target(r, b)] # {}
              /\ Step(c, Searched(r, b, {}))

-----------------------------------------------------------------------------
(* Bundles and guidelines among the results.                               *)

\* The offers come before the services, and these before the guidelines.
Onward(r) ==
    IF r.need # {} THEN r
    ELSE IF r.phase = "offers" THEN ToServices(r)
    ELSE ToGuidelines(r)

\* SolrDocumentNotFoundError not suppressed.
PartFails(r, d) ==
    IF d \in solr THEN Onward([r EXCEPT !.need = @ \ {d}, !.got = @ \cup {d}])
    ELSE Failed(r, "gone")

\* A null document is taken for one.
PartUnchecked(r, d) == Onward([r EXCEPT !.need = @ \ {d}, !.got = @ \cup {d}])

\* SolrDocumentNotFoundError is suppressed.
Part(r, d) ==
    Onward([r EXCEPT !.need = @ \ {d}, !.got = IF d \in solr THEN @ \cup {d} ELSE @])

\* Offers, then their services, one after the other (extend_results_with_bundles).
GetPart(c, d) ==
    LET r == call[c]
    IN  /\ r.phase \in {"offers", "services"}
        /\ d \in r.need
        /\ \/ Step(c, Failed(r, "refused"))
           \/ Step(c, Part(r, d))

\* The services of guideline g are known; the next guideline follows.
Extended(r, g) ==
    LET s == [r EXCEPT !.need = @ \ {g}, !.guideline = None, !.phase = "guidelines"]
    IN  IF s.need # {} THEN s ELSE Output(s)

\* _get_related_records_pids: without pids, and after any error of the provider
\* component, the guideline has no related services.
GetRelated(c, g) ==
    LET r == call[c]
    IN  /\ r.phase = "guidelines"
        /\ g \in r.need
        /\ \/ Step(c, Extended(r, g))
           \/ \E pids \in SUBSET Service :
                 /\ pids # {}
                 /\ Step(c, [r EXCEPT !.phase = "lookup", !.guideline = g, !.pids = pids])

LookedUp(r, g, s) ==
    LET n == [r EXCEPT !.pids = @ \ {s}, !.related = IF s \in solr THEN @ \cup {<<g, s>>} ELSE @]
    IN  IF n.pids # {} THEN n ELSE Extended(n, g)

\* search_post catches whatever a lookup raises.  The guideline at hand and
\* those after it stay as they are; those before it have been extended in place.
LookUpRaises(r, g) ==
    Output([r EXCEPT !.pids = {}, !.guideline = None, !.related = @ \ ({g} \X Service)])

\* _get_related_service, gathered over the pids of a guideline.
LookUp(c, s) ==
    LET r == call[c]
    IN  /\ r.phase = "lookup"
        /\ s \in r.pids
        /\ \/ Step(c, LookedUp(r, r.guideline, s))
           \/ Step(c, LookUpRaises(r, r.guideline))

-----------------------------------------------------------------------------
(* The recommender.                                                        *)

\* Only these types are candidates; the others are left out of the answer.
Candidates == Publication \cup Service

\* sort_by_relevance: the ids the recommender returns select the results.  An
\* answer that is not 200, no connection and an id that is not a number give
\* no results; any other exception is not handled.
SortByRelevance(c) ==
    LET r == call[c]
    IN  /\ r.phase = "relevance"
        /\ \/ \E ids \in SUBSET (r.found \cap Candidates) : Step(c, Ended(r, "ok", ids))
           \/ Step(c, Failed(r, "crash"))

\* Cached ids, or freshly drawn ones: the documents are got one by one.
Fixed(r, ids) ==
    IF ids = {} THEN Ended(r, "ok", {})
    ELSE [r EXCEPT !.phase = "fixed", !.need = ids, !.got = {}, !.isRand = TRUE]

\* An entry is there only when its draw has ended.
EntryWhenDone(k) == IF entry[k] \in drawing THEN None ELSE entry[k]

\* The entry of key k of the cache, be it still computed.
Entry(k) == entry[k]

\* Call c begins to draw the entry of k.  The entry takes its place at once, and
\* in a full cache another one, which may itself be still computed, is evicted.
Compute(c, k) ==
    LET others == Held \ {k}
    IN  /\ drawing' = drawing \cup {c}
        /\ \/ /\ Cardinality(others) < CacheSize
              /\ entry' = [entry EXCEPT ![k] = c]
              /\ UNCHANGED dropped
           \/ /\ Cardinality(others) >= CacheSize
              /\ \E j \in others :
                    /\ entry' = [entry EXCEPT ![k] = c, ![j] = None]
                    /\ dropped' = dropped \cup {entry[j]}
        /\ UNCHANGED <<drawn, fixed>>

\* The call waits for draw d.
WaitFor(r, d) == [r EXCEPT !.phase = "drawing", !.need = {}, !.got = {}, !.draw = d]

\* get_fixed_recommendations, behind alru_cache: an entry is used, a call that
\* finds none computes it, and the calls that come meanwhile wait for it.
Fallback(c) ==
    LET r == call[c]
        d == Entry(KeyOf(r))
    IN  IF ~ShowRandom THEN Step(c, Ended(r, "ok", {}))
        ELSE \/ d \in drawn /\ Step(c, Fixed([r EXCEPT !.draw = d], fixed[d]))
             \/ d \in drawing /\ Step(c, WaitFor(r, d))
             \/ /\ d = None
                /\ Compute(c, KeyOf(r))
                /\ call' = [call EXCEPT ![c] = WaitFor(r, c)]
                /\ UNCHANGED <<solr, changes, silent, seen, gap>>

\* get_recommended_uuids: the first ids of the answer; no answer, an error or
\* too few ids raise a RecommenderError.
GetRecommendedUuids(c) ==
    LET r == call[c]
    IN  /\ r.phase = "recommender"
        /\ \/ \E ids \in SUBSET All :
                 /\ Cardinality(ids) = Count
                 /\ Step(c, IF ids = {} THEN Ended(r, "ok", {})
                            ELSE [r EXCEPT !.phase = "items", !.need = ids])
           \/ Fallback(c)
           \/ Step(c, Failed(r, "crash"))

Got(r, d) ==
    LET s == [r EXCEPT !.need = @ \ {d}, !.got = @ \cup {d}]
    IN  IF s.need # {} THEN s ELSE Ended(s, "ok", s.got)

\* get_recommended_items, for the ids of the recommender: a missing document
\* makes the call fall back.
GetRecommendedItem(c, d) ==
    LET r == call[c]
    IN  /\ r.phase = "items"
        /\ d \in r.need
        /\ \/ Step(c, Failed(r, "refused"))
           \/ d \in solr /\ Step(c, Got(r, d))
           \/ d \notin solr /\ Fallback(c)

\* get_recommended_items, for the cached ids: a missing document raises a
\* SolrDocumentNotFoundError inside the except clause, and the call fails.
GetFixedItem(c, d) ==
    LET r == call[c]
    IN  /\ r.phase = "fixed"
        /\ d \in r.need
        /\ \/ Step(c, Failed(r, "refused"))
           \/ d \in solr /\ Step(c, Got(r, d))
           \/ d \notin solr /\ Step(c, Failed(r, "gone"))

\* The calls that wait for draw d.
Waiting(d) == {c \in Call : call[c].phase = "drawing" /\ call[c].draw = d}

\* Those calls go on with the ids of the draw, or with the error of its search.
Resumed(d, ids) ==
    [c \in Call |-> IF c \in Waiting(d) THEN Fixed(call[c], ids) ELSE call[c]]

Raised(d, status) ==
    [c \in Call |-> IF c \in Waiting(d) THEN Failed(call[c], status) ELSE call[c]]

\* The key of a draw that failed is removed, also when another draw has taken
\* its place meanwhile.
Forget(k) ==
    /\ entry' = [entry EXCEPT ![k] = None]
    /\ dropped' = dropped \cup ({entry[k]} \ {None})

\* The draw has ended and is still taken for one that is under way.
DrawPending(d) ==
    /\ d \in drawing
    /\ \E ids \in SUBSET (solr \cap Index[FixedOf(call[d].coll)]) :
          /\ Cardinality(ids) <= Count
          /\ drawn' = drawn \cup {d}
          /\ fixed' = [fixed EXCEPT ![d] = ids]
          /\ call' = Resumed(d, ids)
    /\ UNCHANGED <<solr, changes, silent, entry, drawing, dropped, seen, gap>>

\* The search of get_fixed_recommendations ends: a random choice of what it
\* found (nothing, if the collection holds other documents only) is cached; an
\* error is raised in all who wait, and is not cached.
Draw(d) ==
    LET found == solr \cap Index[FixedOf(call[d].coll)]
        Raise(status) ==
            /\ call' = Raised(d, status)
            /\ Forget(KeyOf(call[d]))
            /\ UNCHANGED <<drawn, fixed>>
    IN  /\ d \in drawing
        /\ drawing' = drawing \ {d}
        /\ \/ \E ids \in SUBSET found :
                 /\ Cardinality(ids) <= Count
                 /\ solr \cap All # {}
                 /\ drawn' = drawn \cup {d}
                 /\ fixed' = [fixed EXCEPT ![d] = ids]
                 /\ call' = Resumed(d, ids)
                 /\ UNCHANGED <<entry, dropped>>
           \/ solr \cap All = {} /\ Raise("empty")
           \/ Raise("refused")
        /\ UNCHANGED <<solr, changes, silent, seen, gap>>

-----------------------------------------------------------------------------
Coroutine(c) ==
    /\ Running(c)
    /\ c \notin silent
    /\ \/ \E b \in Collection \cup Facet : Search(c, b) \/ CheckCollectionSanity(c, b)
       \/ \E d \in Doc :
             \/ GetPart(c, d)
             \/ GetRelated(c, d)
             \/ LookUp(c, d)
             \/ GetRecommendedItem(c, d)
             \/ GetFixedItem(c, d)
       \/ SortByRelevance(c)
       \/ GetRecommendedUuids(c)

Next ==
    \/ \E d \in Doc : Change(d)
    \/ \E c \in Call :
          \/ Begin(c)
          \/ Coroutine(c)
          \/ NeverAnswered(c)
          \/ Draw(c)

Spec == Init /\ [][Next]_vars

\* A request is answered, fails, or the call is one of the silent; httpx raises
\* where the client has a time limit, as that of a draw has; and the event loop
\* resumes what it waited for.  (A call that draws waits for its own draw.)
Fairness == \A c \in Call : WF_vars(Coroutine(c) \/ Draw(c))

FairSpec == Spec /\ Fairness

-----------------------------------------------------------------------------
(* Properties.                                                             *)

Answered(c) == call[c].phase = "done" /\ call[c].status = "ok"

\* What an answer is put together from was in Solr during the call, and what
\* is left out of it was missing during the call: each bundle has its offers
\* and they have their services (extend_results_with_bundles), guidelines have
\* related services that exist, recommendations can be opened.
PartsAreCurrent ==
    \A c \in Call : Answered(c) =>
        LET r == call[c]
            bundles == IF r.op \in {"results", "advanced"} THEN r.results \cap Bundle ELSE {}
            offers == UNION {OffersOf[b] : b \in bundles}
        IN  /\ r.results \cup r.got \subseteq seen[c]
            /\ \A o \in offers : o \in r.got \/ o \in gap[c]
            /\ \A o \in offers \cap r.got : ServiceOf[o] \in r.got \cup gap[c]
            /\ \A p \in r.related : p[1] \in r.found /\ p[2] \in seen[c]

\* A document that is missing, or leaves Solr meanwhile, fails no call, but for
\* one that the cache of get_fixed_recommendations still names; and an empty
\* collection fails no suggestions and no call that could have seen a document.
MissingIsLocal ==
    \A c \in Call :
        /\ call[c].status = "gone" =>
              /\ call[c].op = "recommendations"
              /\ call[c].draw \in drawn
              /\ fixed[call[c].draw] \cap gap[c] # {}
        /\ call[c].status = "empty" =>
              /\ call[c].op # "suggestions"
              /\ (IF call[c].op = "recommendations" THEN All ELSE Index[call[c].coll])
                    \subseteq gap[c]

\* "No results" is answered only for a collection that holds something
\* (_check_collection_sanity).
EmptyIsReported ==
    \A c \in Call :
        Answered(c) /\ call[c].op \in {"results", "filters"} =>
            Index[call[c].coll] \cap seen[c] # {}

\* Calls for the same collection and scope that fall back get the same
\* documents, in whatever order they come and their draws end, unless their
\* draws were two because one of them was evicted from the cache, or removed
\* from it when a draw failed; and none is given what was drawn for another
\* collection or scope.
Served(c) == Answered(c) /\ call[c].isRand

SameForEveryone ==
    \A c1, c2 \in Call : Served(c1) /\ Served(c2) =>
        LET d1 == call[c1].draw
            d2 == call[c2].draw
            same == call[c1].coll = call[c2].coll /\ call[c1].scope = call[c2].scope
        IN  IF d1 = d2 THEN same /\ call[c1].results = call[c2].results
            ELSE same => d1 \in dropped \/ d2 \in dropped

\* Every call ends, unless it asks without a time limit and is never answered.
\* The calls that wait for a draw which such a call began are not kept by it.
CallEnds == \A c \in Call : Running(c) ~> (~Running(c) \/ c \in silent)
=============================================================================
