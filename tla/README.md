# SAGE discovery hub (EOSC Search Service): TLA+ specifications

Specifications, model-checking instances and proofs for the discovery portal in
this repository: a FastAPI backend (`src/backend`), an Angular UI
(`src/ui/apps/ui`), and the services they call — Solr, the recommender, the STOMP
databus, the iSHARE Participant Registry and the identity providers — which are
modelled only as far as the code uses them. Paths below are relative to the root
of the repository; `B/` stands for `src/backend/app/` and `U/` for
`src/ui/apps/ui/src/app/` when a path would be long.

Contents: 1 the system, 2 what is hard in it, 3 the modules, 4 the runs,
5 fairness, 6 the proofs, 7 findings and notes, 8 what is only model-checked and
what is not modelled, 9 the plan.

## 1. The system

The backend is **one asyncio process** without a database in the request path. A
handler runs alone between two `await`s that really suspend, so interleaving
happens exactly at the calls to other services and at threads of the pool. All
shared state is in its memory and is lost with it.

| Component | State | Operations | Talks to | What makes it correct |
|---|---|---|---|---|
| Session store (`B/utils/cookie_validators.py`, `B/schemas/session_data.py`) | `backend.data`: id → SessionData | create, read, update, delete | every web route, through a signed cookie | a session is used by one browser; a cookie may outlive it |
| Navigation (`B/routes/web/user_actions.py`) | `pending_dataset_*` of the session | `GET /navigate` | session store, databus | a dataset opens in the dashboard of the connector chosen, or the user is asked for one |
| Connector choice (`B/routes/web/auth.py`, idps page) | `selected_connector_*` of the session | `POST /connectors/select`, `GET /connectors/selection` | session store, registry | a choice is kept, and the dataset that asked for it is resumed |
| Connector login (`B/routes/web/auth.py`) | `connector_login_cache`: TTL 600 s, 100 entries | `/connectors/login`, `/connectors/return` | identity provider, registry, session store | a state is redeemed once, by the attempt it was made for |
| OIDC login (`B/routes/web/auth.py`, `B/utils/rp_handler.py`) | sessions; a cached RP handler with its JWKS | `/request`, `/checkin`, `/logout`, `/userinfo` | AAI | a session of its own for every sign-in |
| Registry client (`B/utils/ishare_pr_client.py`) | none between calls | tokens, parties, party records, capabilities, code exchange | Participant Registry, connectors | the list is current and complete whatever single endpoints do |
| User actions (`B/dependencies/user_actions.py`) | one STOMP connection a request | connect, send, disconnect in threads | databus | reports say what the browser was told; connections are closed; only a broker that is silent for good keeps the browser waiting |
| Search (`B/routes/web/search_*.py`, `B/solr/operations.py`) | none | results, advanced results, suggestions, filters, bundles, related services | Solr, provider component | answers hold what Solr held; a missing part does not fail the whole |
| Recommendations (`B/routes/web/recommendation.py`, `B/recommender/`) | `alru_cache` of fixed recommendations: 512 entries, by collection and scope | recommend, sort by relevance | recommender, Solr | calls of one collection and scope that fall back get the same documents while their draw is cached |
| Bibliography, research products, presentable items (`B/routes/web/`) | none | one to three requests each | doi.org, Solr | each part is answered as it came |
| Query rewriting (`B/solr/utils.py`, `B/schemas/search_request.py`) | none | pure functions | — | the rewritten filter means what the given one means |
| Dumps and database (`B/db`, `B/models.py`, `B/manager.py`) | one table | a command line tool | PostgreSQL | read by nobody in this repository |
| Result pages (`U/components/results-with-pagination`, `U/pages/search-page`, `U/collections/services`) | the address, the pagination store | search, filter, open a page, back, reload | `/search-results` | what is shown is what the address names, page by page |
| Search bar (`U/components/search-input`) | a form, its copies of the tags, switches and kind of search; the stream of suggestions | type, submit, tag, clear, reset | address, route store, `/search-suggestions` | suggestions follow the form; what it writes back fits the page; Back leads out |
| Tags of the advanced search (`U/pages/search-page/utils.ts`, `U/collections/services/custom-route.utils.ts`, `search-input.service.ts`) | none | three translations into filters | search bar, search page | results, facets and suggestions are narrowed alike |
| Filters (`U/components/filters`, `U/collections/filters-serializers`) | widgets, trees of values, options loaded | select, unselect, load options, report | address, `/search-filters` | the boxes show what the address holds; a click touches one filter |
| Collection data (`U/collections/data`, `U/collections/pl-data`, `U/collections/repositories`) | tables of the two scopes | read at the start, by scope | filters, cards, search bar | the tables of a collection fit together |
| Header, text pages (UI) | none of interest | layout, one request at most | — | — |

Interactions that carry the program's logic:

* **dataset → connector → dashboard.** A title on the search page links to
  `/navigate`; without a chosen connector the answer redirects to the idps page,
  which lists connectors (registry client), posts the choice and follows the
  returned URL back to `/navigate`. The session is the only memory of the trip, and
  the browser names it by a cookie that all its tabs share.
* **connector login.** `/connectors/login` stores a context under a fresh state and
  sends the browser to the provider; `/connectors/return` takes it out, exchanges the
  code and makes a session.
* **search.** The address is the only input of a search in the UI; every change of it
  fetches a chunk of results, and chunks are numbered as pages in the order of arrival.
  The bar, the filters, the badges and the tags of the cards all rewrite the address,
  each after reading it in a way of its own, and some of them rewrite it by themselves.
  On the backend a call is a fan-out of requests to Solr with an error path at each.

## 2. What is hard

`PROJECT.json` lists the hazards, each at its line with the properties that would
catch it. In groups:

* *Two tabs, one cookie jar*: two first requests make two sessions, and the
  `Set-Cookie` that arrives last wins; what the other session remembers is lost.
* *Cookies that outlive sessions*: after a log-out or a restart; `InMemoryBackend.read`
  answers `None` for them, which one handler takes for a session.
* *Reads before an await*: the selection of a connector waits for the registry; only
  because it reads the session afterwards does it not write an old copy back.
* *Gathers in which one of many fails*: parties of the registry, parts of bundles,
  related services, suggestions of several collections.
* *Fallbacks over endpoints*, where the last error can be taken for an answer.
* *Caches*: login states with a time limit and a size; recommendations with a size (512)
  and no time limit, with entries that are shared while they are still computed.
* *Waits without a time limit*: the connect to the databus, and every request of the routes
  for results and recommendations.
* *Answers that arrive after the browser has moved on*, in the UI, and state of a
  component that outlives the search it belonged to.
* *Copies of the address*: the bar holds the tags of the address it was made for; trees
  and sliders report what they were built with and so write the address; a fetch of
  options empties the panel under the user's hand.
* *Navigations that answer navigations*: a special collection resets the bar, which
  searches anew; a widget that is built writes the address, which builds it anew.
* *Background work after the answer*: a report to the databus, sent by a thread, of
  a session that may have changed since.

## 3. The modules

Every module has one action per handler or per stretch of a handler between two
suspensions, `TypeOK`, and its properties at the end. History variables are marked
"history" where they are declared; no guard reads them.

### ConnectorFlow, DatasetAccess, ConnectorAccess

`store`/`live` are `backend.data`; `jar[b]` is the cookie of browser `b`; `tab[t]` is
the page of tab `t`; `net[t]` is its one request or answer under way. Requests and
answers travel separately from the steps of the server, so that answers of two tabs
reach the jar in any order. `HandleNavigate` is all of `navigate` (the session is found
or made, the pending dataset set or cleared, the redirect chosen); `AskRegistry`,
`RegistryRefuses` and `SaveSelection` are `select_connector` before and after its
`await`; `HandleSignIn` is the tail that `/checkin` and `/connectors/return` share;
`HandleLogout` is `/logout`, with the cookie deletion that never leaves the server.
`Restart`, `LoseAnswer` and `CookieExpires` are switched on per instance by `Disturbance`.

The session's data is reduced to the connector and the pending dataset: the three
`selected_connector_*` are always written together, and so are the three
`pending_dataset_*`. An id is free again once no jar and no message holds it, because
a session that nobody can name is never read; `InUse` says when.

`DatasetAccess` is the promise of README.md ("iSHARE AAI Connector Discovery") without
cookies, sessions or messages: at most one connector is chosen per browser, a dataset
opens in the dashboard of the one chosen at that moment, and the user is asked only
while there is none. `ConnectorAccess` holds the refinement mapping: the session in
effect is that of the request under way, else the one an answer is about to set, else
the jar's.

### RegistryClient

One call of `get_connector_list` or `get_connector_details`: token, list of parties,
then per party (`item[p]`) a token, the record and the capabilities. The two
`asyncio.gather`s are barriers (`Refreshed`, `Answer`) around steps that interleave. Each
answer of an endpoint is one of `Outcomes`; `at[p]` says which endpoint is being tried,
and `TokenResult`, `PartiesResult`, `RecordResult` and `CapabilitiesResult` say for each
request which answers go on to the next endpoint, which raise, and which are taken for a
result. The registry changes between any two steps (`Change`, `Publish`). A record is
reduced to whether `_to_party_list_item` accepts it. `seen`, `steady`, `exhausted` and
`readRecord` are history: what was valid at some time, what was valid all the time, whose
record no endpoint gave, whose record was read.

### ConnectorLogin

Attempts (`login`), the TTL cache (`cache`, with `born` for the order of insertion),
the provider's codes, and calls of `/connectors/return` (`back`). The steps of
`connector_login` are its awaits; `SendForm` stores the state and evicts as cachetools
does. `Expire` may end any entry's time at any moment. The way back may be walked late,
never, twice, or with the code of another attempt. `TakeContext` has three outcomes: no
entry, taken, or expired between the test and the `pop` (a `KeyError`).

### UserActions

`/navigate` as the databus sees it: `UserActionsClient` connects in a thread of the pool
before the handler runs, `Navigate` answers and queues the report, `StartReport`/`Send`
run in a thread later and disconnect. Threads are limited. The broker limits connections,
may stop and start, and may fall silent: it then accepts connections, keeps those it has, and
answers nothing. `connect(wait=True)` has no time limit, so a call that connects to a silent
broker holds its thread until the broker answers or goes down. A message sent to a silent
broker is read or lost (no receipt is asked for). `lost` is history: the calls whose connection
or message the broker lost. Sessions are a person and whether a connector is chosen.

### ResultPages

`url` is the address (a query and a cursor), `past` the history of the browser,
`inflight` the fetch, `pages` the pagination store, `current` the page shown, `prev` the
parameters the component compared last. `Server` is a chunk that arrives (with the
setter of the results component, which resets, appends or reports an error); the moves
are searching, searching for the same, filtering, clicking a page link, Back, leaving,
returning and reloading. `patient` is fixed at the start: such a user moves only while
nothing is being fetched.

### SearchService

Calls of the routes that answer from Solr, as coroutines: `Begin`, one `Search` and
`CheckCollectionSanity` per branch of the gather, `GetPart` for the offers and services of
bundles, `GetRelated`/`LookUp` for guidelines, `SortByRelevance`, and the recommender with
the cached fallback (`Fallback`, `Draw`, `GetFixedItem`). `Solr` changes between any two
steps, and a request of a route whose client has `timeout=None` may never be answered
(`NeverAnswered`; `silent` names the calls it happened to).

The cache of `get_fixed_recommendations` has an entry per key, the collection and the scope as
they were given. A draw is named by the call that began it: `entry[k]` is the draw that the
cache has for key `k`, `drawing` and `drawn` are the draws under way and those that ended with
ids, `fixed[d]` the ids. As in `async_lru`, an entry is made when its draw begins
(`Compute`), later calls of the key wait for it (`WaitFor`), a full cache evicts another
entry, be it still computed, and a draw that fails removes its key (`Forget`), even if the entry
is that of a newer draw by then. Those who wait for a draw get its end, whatever became of the
entry. `dropped` is history: the draws that were evicted or removed. Which entry is evicted is
left open: any other one may be the one used least recently. `Scope` holds values that read the
same documents; there are such, since `_get_solr_collection` gives no scope, and any name that it
does not know, the default prefix, which may be that of a name it knows.

Queries are abstracted to "any documents of the collection may match". An
operator per continuation (`ToOffers`, `ToServices`, `ToGuidelines`, `Output`) keeps the
order of the code; `Failed` says how each error ends a call. `seen[c]` and `gap[c]` are
history: what Solr held, and what it lacked, at some time of call `c`.

### CollectionFilters, CollectionCards

The tables of the UI, one operator per file: the filters of each collection and scope,
the excluded filters, the adapters (what a card names, its tags and its links, as a
function of which fields a document has), navigation, search metadata and the validators
that run when the tables are loaded. `FILTERS`/`PL_FILTERS` and their like are the maps of
`data/index.ts`; `Types` is what `FiltersConfigsRepository` hands out, where the first
entry of a name decides how its values are written. Texts, icons and the layout of cards
are left out.

### SearchFilters

`fq` is the map of filters in the address, `configs` the configurations of the collection,
`answer` the options of the last fetch, `due` says that the panel is to be built anew, and
`panel` is what is on the screen: the widgets, the options they were built with, the
chosen ones, the ticks of the trees, the boxes, and whether the slider is still to report.
Reading and writing the address is done by what `serializeAll` and `deserializeAll` do to
values: filters that the collection does not have are dropped, an open start of a duration
becomes 0, hours of three digits vanish, a date moves to the day before where the clock is
west of UTC. `Navigate` is `router.navigate`: the same address is no navigation, any other
one empties the options, flips the checkboxes and makes the panel due.

The user clicks a tag of a card (`ClickTag`), an option of a tree (`Tick`), an entry of a
dropdown, a date, a year, the slider, a checkbox, a label, a badge, "clear all"; types in
the search box of a tree or asks for more (`Rebuild`); changes other parameters; goes to
another collection. The program fetches options (`fetchFilters`), builds the panel 250 ms
after a change (`Render`, whose trees report every chosen option and so write the address)
and lets the slider report a second later (`RangeEcho`).

Abstractions: a value is the sequence of its levels; the order of values, lists longer
than the ten roots shown at first, and what a search text in a tree leaves visible (it
matches every chosen option) are left out. In a longer list scrolling hands the same
nodes to the tree again (`show-all.component.ts:82-85`), which then unticks the chosen ones
(`checkboxes-tree.component.ts:115-137`); in the model only flat lists keep their nodes (`Rebuild`), and what the
address becomes is the same as after a click on each (`Tick`). Further: `resetAllActiveEntities` drops one filter,
though a filter whose name begins with the label's would go too; the fetch of options
does not fail; tags are clicked when options have arrived; the greatest duration that
is offered is not the default one of the slider.

The backend's answer closes the circle: `Sent` is what the address sends to it, `Results`
and `OptionsOf` are what `QueryFilters` makes of that and what Solr then finds among
`Documents`. `FoundAsAsked` compares the documents found with what the address asks for,
written down without any rewriting (`Satisfies`); `OptionsFindResults` compares the options
that are counted with what choosing them would find.

### QueryFilters

`B/solr/utils.py` and the condition under which `search` calls it. A filter is a field, an
operation and values, so that `project_status:("ongoing")` is `Terms` and
`{!field f=date_range op=Contains}[today TO today]` is `DateRange("Contains", ...)`; queries
joined by OR are one set, the set of these sets is joined by AND. `Parsable` names the
statuses and types for which the tables have an entry. `Matches` and `Found` are Solr's side:
terms, presence and the three relations of ranges of days. Days are numbers; 0 is before all
of them. The condition `"providers" in fq[0]` reads the first filter of the request; here it
is "there is a filter of providers", which is the same for every address the pages write
(`fqDict` of the link writes that filter first, and nothing puts another before it).

### TagFilters, SearchBar

`TagFilters` is what tags become. A filter text is the set of its literals, joined by OR;
`AdvancedFilters`, `getFiltersFromTags` and `SuggestionFilters` are the three translations.
`Heeded` drops the empty filter that a switch on Or makes of no tags: Solr ignores it.

`SearchBar`: `url` is the address (place, text, kind of search, exact, tags, switches),
`past` the history of the browser, `route` the store that outlives every component (the
last collection and text), `bar` the form and its copies, `hints` the stream of
suggestions with the list shown. `Kept` is a change of the address while the search page
stays: the form takes the text, a special collection resets the bar, which searches anew,
and another collection asks for suggestions. `Made` is the search page and its bar made
anew: the store is followed before the address is read (`Snapshot`). `Landed` is the landing
page, on which a store that still holds a special collection sends the user to a search of
all. Every handler of the bar is an action (`Type`, `SearchNow`, `add`, `remove`, …), most
of which end in `Search`; `SeeAll`, `GoToAll` and `clearInput` are links and buttons beside
it. `Debounced` and `Suggested` are the stream: 150 ms without a new text, and an answer.

Abstractions: addresses that the code reads alike are one (`standard=true` and no
`standard`, say); tags are a set, for repeating a filter changes nothing; the value of a tag
is its text up to a second colon; focus is left out; `setCollection` is called by no
template; the navigation of bars that are gone comes before, and is replaced by, that of
the present one. Filters, sorting and cursors of the address belong to `SearchFilters` and
`ResultPages`.

### MC and proof modules

`MC<Module>` gives the constants values for TLC; `<Module>Proofs` holds lemmas and
theorems. No module replaces a definition of another one in a `.cfg`. The operators
defined just before the one they resemble (`VisitedForgets`, `PartFails`, …) are wrong
variants: putting one in the place of the definition after it makes the run that
`PROJECT.json` names find the named property violated, which shows that the property
depends on that code.

## 4. The runs

`tlc -config ConnectorFlow_tabs.cfg MCConnectorFlow` checks the first of them; the others
are named alike. `tlapm ConnectorFlowProofs.tla` checks the proofs of a module.

| Run | Instance | What it checks |
|---|---|---|
| `flow_tabs` | one browser, two tabs, four ids, one dataset, one restart, lost answers, expiring cookie; 1.4 M states | `SelectionIsKept` and `PendingIsKept`: no step loses a choice or a remembered dataset of a session in use |
| `flow_browsers` | two browsers, sign-ins and log-outs; 2.5 M states | `NoSharedSession`, `SessionIsOwn`, `DashboardIsWanted`: nothing crosses from one browser to the other |
| `flow_access` | one tab, two datasets, two connectors, restart, sign-in, log-out | `ImplementsAccess` (refinement of DatasetAccess), `SelectionResumes` |
| `flow_race` | two tabs, nothing else | `SelectionResumes` is violated: see findings |
| `registry_list` | two parties, two endpoints, every outcome, two changes | `TypeOK`, `ListedIsCurrent`, `NoneIsLost`, `OneFailureIsLocal`, `CallEnds` |
| `registry_outage` | the same | `DroppedByRecord` is violated: see findings |
| `pages_all` | queries of 12 and 2 pages, chunks of 5, six moves of every kind | `TypeOK`, `ResultsMatchAddress`, `PagesAreInOrder`, `NoResultsMeansNone`, `SearchIsShown` |
| `actions` | two calls, one thread, one connection, two events (sign-in, log-out, the broker stops or falls silent); 73 k states | `ReportedAsVisited`, `VisitsAreAnswered`, `VisitsAreReported` |
| `login` | three attempts, a cache of two, two ways back, two people, one restart | `TypeOK`, `RedeemedOnce`, `LoginSurvives`, `SessionOfThePerson` |
| `search` | every request beside two that fail at once; two or three calls for recommendations, of one key or of several, with a cache of one entry; a bundle of two offers of one service; one change of Solr or one request that is never answered; 365 k states | `TypeOK`, `PartsAreCurrent`, `MissingIsLocal`, `EmptyIsReported`, `SameForEveryone`, `CallEnds` |
| `filters` | seven pages of both scopes, one of them west of UTC, one to three options a filter, two to four documents a page; any number of clicks and navigations | `TypeOK`; `FoundAsAsked`: the rewritten filters find the documents asked for; `OptionsFindResults`: the options counted are those that find something; `PanelAgrees`: at rest the panel tells what the address asks for; `TagNarrows`: a tag narrows to its value; `OthersAreKept`: a rewriting touches one filter; `Settles`: the panel comes to rest |
| `bar` | four collections, a special one among them; three texts, one of them cleaned to another; two tags, four moves, two links to begin with; 391 k states | `FacetsMatchResults`, `SuggestionsFollow`, `BackLeadsOut` |

Why the bounds are enough to meet the cases:

* *Flow.* Two tabs are the least with which two answers race for one jar. Four ids are
  one for the jar, one for each message and one for a new session; a fifth would never
  be in use. One dataset suffices where nothing compares two; `flow_access` has two
  datasets and two connectors because `DatasetAccess` tells them apart, and one tab
  because with two the refinement does not hold (that is `flow_race`). One restart
  suffices: after it nothing remembers that there was one but stale cookies.
* *Registry.* Two parties are one that fails beside one that does not; one has a
  configured dashboard, the other publishes its own. Two endpoints are what the
  settings allow. Two changes: a party leaves and comes back.
* *Pages.* 12 pages are three chunks of 5, the last one short; 2 pages are less than a
  chunk. 5 is the default (50 results a fetch, ten a page). Six moves reach a page of
  the third chunk, go back and search anew.
* *User actions.* One thread and one connection make the two calls compete for both, and a
  silent broker that holds the one thread keeps the other call too; there are as many
  sessions as calls and sign-ins can make. Two events let the broker fall silent and then
  stop, or a person sign in while it is silent; answering again and starting are not counted.
* *Login.* Three attempts overfill a cache of two; two ways back with the same state,
  or with exchanged codes, are the cases the code guards against.
* *Search.* Calls share nothing but the recommendation cache, so a second call matters only
  there: two calls of one key share a draw, two of different keys evict each other's
  entry from a cache of one, and of three the third comes back to a key that was evicted, so that an
  older draw that fails meets a newer entry. While three run nothing changes in Solr. Two offers of one service show a part that is missing beside one
  that is not. `solr` starts full or empty; a document goes or comes once. `Count` is 1
  instead of 3.

* *Filters.* The seven pages have every kind of widget between them: trees and a dropdown
  with entries of one name, every kind of date, a slider with a tree, checkboxes, and a
  flat list of which one value is a part of another. A tree of one root and two children has every case of the
  removal; a fetch may leave a child out. Of the four projects one has ended, one ends today,
  one starts today and one is to start: with `Today` = 2 each of the three ranges tells them
  apart. On the page of all collections there is a document for each of a provider's two
  fields, and among the organisations one for each of two types and one with neither. Nothing bounds the number of moves: the address
  ranges over a finite set.
* *Search bar.* Four collections are one of each way the code tells them apart: all, one
  with authors and DOIs, a special one, one whose keywords are kept under another name.
  Two tags are the least that a switch joins; the second value is the first with its words
  in another order. Four moves reach a special collection, leave it by the landing page
  and come back, with one move to spare; the Back presses after them are not counted.

`CHECK_DEADLOCK FALSE` is set where the instance has a last step: the moves, the calls
or the attempts of an instance are used up and everything has been answered.

`TypeOK` of each module also carries the facts a type can carry in this code: a fallback
never goes past the last endpoint, a pending resource is always a dataset, page links lie
in the window, a draw is never both ended and under way, and no cache holds more than its size.

## 5. Fairness

* ConnectorFlow: weak fairness of each tab's server steps and of the arrival of its
  answer. The event loop serves every task, and the `httpx` requests of these routes have
  timeouts (`B/utils/ishare_pr_client.py:162`, `:210`, `:250`, `:505`, `:545`, with 15 seconds by
  default). `/navigate` itself waits for the databus before it runs; that wait is in
  `UserActions`. The user, the restart, the loss and the expiry are not fair.
* RegistryClient: weak fairness of the client as a whole, by the same timeouts.
* ResultPages: weak fairness of the answer to a fetch (success or failure); none of the
  user.
* UserActions: weak fairness of steps that hold a thread, strong fairness of getting one
  — the pool is a queue, and a waiting task is overtaken only finitely often. A connect is
  fair only while the broker answers or refuses: `UserActionsClient` is not enabled while it is
  silent. Nothing is assumed of the broker, which may stay silent or down for good; the two
  liveness properties name `SilentForGood` as what can keep a visit, and without it TLC finds a
  visit that connects for ever.
* SearchService: weak fairness of each coroutine together with the draw it began (while a
  call draws it does nothing else). A coroutine is not enabled once a request of it is one that is
  never answered, which `timeout=None` allows for results and recommendations
  (`B/routes/web/search_results.py:76`, `:149`, `B/routes/web/recommendation.py:52`, `:97`);
  `CallEnds` names those calls. The draw of fixed recommendations and the suggestions have
  httpx's default timeout, the filters 15 seconds (`B/utils/http_client.py`): they are always
  answered, or fail.
* SearchFilters: weak fairness of the program as a whole (the fetch of options, the panel
  built after its 250 ms, the report of the slider): requests have an answer and timers
  fire. `Settles` speaks of a user who has stopped.
* SearchBar: weak fairness of `BackHome` alone, a user who has decided to press nothing but
  Back and keeps pressing. Nothing of the program is fair in it: `BackLeadsOut` must not
  need an answer to arrive.
* ConnectorLogin states no fairness, and no liveness: nothing obliges a person to return.

## 6. The proofs

All theorems hold for every value of the constants under the assumptions of the module
(`ConstantsAssumption` and its like), which only say how the constants fit together:
`BrowserOf` maps tabs to browsers, `None` is no member of the sets (of `SearchService`: no document and no call), connectors with a
dashboard are connectors, datasets are not also of another type, there is at least one
endpoint, each cache has room for one entry, attempts are finitely many, a collection is
one kind only (`DocumentsAssumption`: no bundle is also a publication, say), some query
has the most results, and the tags of a card have a configuration that is no range
(`TablesAssumption`, true of the tables of `CollectionCards`, as the run `filters` checks),
the filters that the backend rewrites are ranges nowhere, and checkboxes where it rewrites
them (the same assumption), no project ends before it starts (`DocumentsAssumption` of `SearchFilters`), and
today is not day 0 (`TodayAssumption`). `TypeOK` of `ConnectorFlow` and of `UserActions` is
proved and left out of the runs.

Each proof has one lemma per action, `IInv /\ Action => IInv'`, whose steps are the
conjuncts of `IInv` that the action can disturb, one lemma that combines them for `[Next]_vars`,
and one temporal step.

Liveness is out of the prover's reach, but what it rests on besides fairness is not. Five
theorems prove that part: `CallsDoNotCircle` (twice), `CallsAreServed`, `VisitsGoForward` and
`SearchesDoNotLoop`. A property such as `CallEnds` could fail because a call waits for
something that nobody will bring, or because it goes round in a circle while everybody is
served; with these excluded for every value of the constants, what TLC adds on the
instances is that each wait keeps an action of the fair ones enabled.

**ConnectorFlowProofs.** `FlowTypeCorrect`, `SessionsStayApart`, `SessionsAreOwn`,
`DashboardsAreWanted`, `SelectionsAreKept`. `DashboardIsWanted` alone is not inductive: a
dashboard comes from an answer, which came from a session or a request, which came from a
page. `PagesAreOwn` and `MessagesAreOwn` say the same of pages and messages, and
`SessionIsOwn` of sessions; for the sessions, in turn, it must be known that the id in a
message was made for the message's browser, which is `NoSharedSession`. That needs
`Create` to take an id nobody holds: uuid4 does not repeat. `SelectionsAreKept` follows
from the invariant and a case split over the actions that write `store`, and so does
`DatasetsAreRemembered`, which says what else a handler does when it drops the pending
dataset.

`FlowImplementsAccess` is the refinement of `DatasetAccess` for any number of browsers, under
two hypotheses: `OneTabEach` (with two tabs it is false, see `flow_race`) and `NothingLost`
(a lost answer loses the session that it carried). Its own invariant, `Follows`, says that
the cookie of a request is still that of the jar, and that whoever is shown the list of
connectors because of a dataset has not chosen one. `Local` is what a step of one tab may
do: leave the sessions in effect in the other tabs alone, and move its own choice and
page in one of five ways, each of which is an action of `DatasetAccess` or a stutter
(`LocalIsSimulated`); every action but `Restart` is shown to be `Local`, and `Restart` is
`Forget` of all browsers.

**RegistryClientProofs.** `ClientTypeCorrect`, `ListsAreCurrent`, `NoneAreLost`,
`OverridesAlwaysSurvive`, `FailuresAreLocal`. The properties speak of an answered call;
`ItemsAreCurrent`, `SteadyIsKept` and `ItemsHaveOverrides` say the same of every item on its
way, `ItemsFollowPhase` that items and phase fit (so that the barrier of a gather means
what it says), and `HistoryFits` that what is steady is valid and listed now.
`CallsDoNotCircle`: during a call every step is the registry's own (`Aside`) or goes up in
the order of phase, then endpoint, then, coroutine by coroutine, state of the item and
endpoint (`Nearer`). The order has finitely many values for finitely many parties, so no
series of 404s, however they fall, keeps a call going.

**ConnectorLoginProofs.** `LoginTypeCorrect`, `StatesAreRedeemedOnce`, `CacheStaysBounded`,
`LoginsSurvive`, `SessionsAreOfThePerson`. `CacheFits` numbers the entries by insertion,
all different and at most `stored`; `WayBackFits` says that a context in hand belongs to
a state that is out of the cache and was in it. With them, eviction of the entry with the
least number is eviction of the oldest, and an entry is evicted only after `CacheSize`
later ones: `RoomIsMade` and `EvictedIsBehind` count the entries with the cardinality
lemmas of the library.

**SearchBarProofs.** `FacetsOfTheResults`, `SuggestionsOfTheText`, `TypeCorrect`, and two
facts of the translations, `ResultsAsFacets` and `SuggestionsAsFacets`. The facets are made
from the tags whatever kind of search it is, the results only in an advanced search; they
agree because no address has tags beside a standard search. An address comes from the bar,
from the history or from a link, so `IInv` says it of all three (`Tidy`); that links do not
break it is `BookmarksAssumption`, true of every address the program writes. `SInv` is the
chain from the form to the list: what the stream let through last is the text of the form,
what it holds back is that, what it passed on is that once nothing is held back, what was
asked is what it passed on, and the list is of what was asked. A text breaks the chain at
its beginning only, and a collection (`AskFollows`) at the request.

**UserActionsProofs.** `TypeCorrect`, `Reported`. `ReportedAsVisited` speaks of messages at
the broker; `MessagesAgree` says that each agrees with the answer its browser got,
`TasksOfRedirects` says the same of reports that still wait for a thread, and
`OneMessageEach` that a call whose message is out has no report left. `OnlyPromptsLeak`
says which connections the broker keeps: those of calls under way, and those of calls that
ended in the prompt to choose a connector, which the code never closes. All of it holds
whatever the broker does. `VisitsGoForward`:
each step of a call raises the rank of its phase and no other step changes it, and the answer is
final from the redirect on.

**ResultPagesProofs.** `TypeCorrect`, `ResultsOfTheAddress`, `PatientPagesInOrder`,
`PatientNoneIsNone`. The store may hold results of an older query while a chunk is being
fetched; what makes it right at rest is that a fetch is always of the present address
(`FetchesTheAddress`), that the parameters compared last are those of the store
(`StoreOfPrev`) and that they are the address's once nothing is fetched
(`RemembersAddress`). The other two are about patient users and have a hypothesis,
`PatientUser`: such a user searches, opens pages and reloads, and a chunk has at least as
many pages as the bar offers at first. That is so with the default of
`MAX_RESULTS_BY_PAGE` and would not be with a value below 50. `PInv` says where the store
stands: it holds the first pages of the query and the cursor behind them (`Filled`), or
the fetch under way asks for the first chunk (`AsksFirst`) or for the next one (`AsksNext`).
It is an induction over steps that each add one chunk; none over sequences is needed.
`SearchesDoNotLoop`: an answer empties what is being fetched, or replaces a stale cursor by
`*`, with which that cannot happen again (`ReceiveShows`, from `FetchesTheAddress`).

**SearchServiceProofs.** `TypeCorrect`, `AnswersAreCurrent`, `FailuresAreLocal`,
`NoneIsChecked`, `FallbackIsShared`. `Good` says of one call in any phase what the
properties say of an answered one: what it holds was in Solr meanwhile (`Sound`), its
branches are where the phase says (`Shape`), the parts of bundles are of the bundles at hand
(`Parts`), a branch is past the sanity check only if the collection held something
(`NonEmpty`), an error has a cause that still stands (`Failure`), and what comes from the
cache is what its draw ended with (`FromCache`). `Shared` says what the cache is: an entry is a
draw of its key (`Keyed`), a draw that has not failed is the one its own call was given (`Own`),
and a draw is given to calls of its key only and is in the cache or was dropped from it (`Given`).
`FallbackIsShared` follows from `Given`: two draws of one key cannot both be the entry. That
only a fallback and the end of a draw touch any of this is a lemma per continuation
(`Kept`). The history only grows, so a change of Solr keeps
`Good` (one lemma), and a step of one call leaves the others alone.

`CallsAreServed` is the invariant `NoneWaitsForNothing`: a call in search has a branch not yet
answered, one that gets documents has one to get, one that waits for the cache has a draw
under way that will resume it, be its entry evicted or not. It needs a fact about `lookup` that no property asks for: the
guideline at hand is still among those to extend. `CallsDoNotCircle` needs it too: were it
not so, a call could look up the same guideline for ever. Its order is phase, then what the
phase has left (branches, documents, guidelines and the services of the one at hand);
the lemmas `...Goes` go along the actions, on one lemma each for what may follow a phase
(`...Later`). `FacetsAssumption` came out of this proof: a call of `/search-filters` without
facets has no branch to wait for, and in the model would not end. The UI never makes one: it asks for the
facets of all filters of a collection, and each collection has one that the route keeps.

**SearchFiltersProofs.** `TagsNarrow`, `TypeCorrect`, `PanelTells`, `OthersStay`,
`RewritingKeepsMeaning`, `OptionsCount`: every safety property of the run `filters`.

`PanelAgrees` is not inductive. A click rewrites the address *and* ticks a node or flips a
box; if the rewriting leaves the address as it is there is no navigation, the panel is not
built anew, and the tick stays. `IInv` therefore says of a panel that is not due that it
agrees with the address (`Agrees`), of any panel that its ticks, chosen options and widgets
are those of its options and of some page (`PanelIs`), and of the address that its values
are legal (`AddressIs`). Then a click on a box always changes the address (`BoxActs`: what
the box shows is what the address has), and a tick that leaves it alone is of an option that
it has already, or of one with options below it (`TreeActs`, `BelowParents`). `Acts` is what
any click comes to: a navigation to a legal address in which one filter was rewritten
(`UserActs`, one lemma per widget). `OthersStay` uses the same shape: what is read and
written `n` times keeps its values (`SteadyIs`), so that a rewriting moves its own filter
only (`RewriteMoves`), and the report of the slider none (`EchoMoves`).

A tree takes options out one at a time, in a recursive function. That the function is
defined at every step (`StepsExist`) and only takes out (`LeftIs`) is an induction over the
number of steps. The library's rule for induction has an operator as its parameter; here the
induction is over a *set* of numbers, from the least element of what is left (`NatSteps`,
by `WFMin`).

`RewritingKeepsMeaning`: there is a lemma for each rewriting (`ProvidersMean`, `ProjectMeans`,
`OrganisationMeans`) over lemmas about queries joined by AND and OR: the filters left alone
match what they matched (`RestSatisfied`), the one query put beside them matches what the
filters it replaces ask for (`StatusMeans`, an argument about days). A filter of the kind
"tag" would be written once for each value, and a rewriting reads only the first
(`RewrittenIsOne`). That no address raises a `KeyError` follows from `AddressIs`: the statuses
and types in it are those of the options (`SentIsParsed`). `OptionsCount` is about the requests
alone: a filter that is not rewritten adds its own query and nothing else (`SearchMore`), and
filters that the collection does not have only take queries away (`SearchLess`).

The assumptions of the module, besides those above, are about the data it is given.
`FamiliesAssumption`: a filter of dates, years or durations is one on every page that has it,
a duration is a duration and a checkbox a checkbox, which holds of the tables of
`CollectionCards` (TLC evaluates it on them). `NumbersAssumption`: `None` is no number and there is a day. `AnswersAssumption`: a fetch brings
finitely many options, each of one level or more, for each collection there is; ranges have
an end; statuses and types are those of the fixed lists in the two components of checkboxes.
`LinkedAssumption`: an address that someone followed is one that the pages write, and the
filters of links are neither ranges nor checkboxes (as the tables have it). The last is a
restriction: an address typed by hand may name any status, and the backend then raises the
`KeyError`.

## 7. Findings and notes

Two runs show the code do what a text of the repository says it does not:

* `flow_race` — the answer of a second tab replaces the cookie under which a connector was
  chosen, and the resumed navigation asks for a connector again.
* `registry_outage` — when all endpoints answer 404 or 500 for a record, the last error's
  body is decoded as the record and a valid connector is dropped from the list.

Read in the code while modelling, and kept in the models where they change state:

* After `/logout` or a restart the browser still sends the cookie of a session that is
  gone; `select_connector` sets attributes on the `None` that is read for it: status 500.
* A filter chosen on a later page keeps the cursor of the old query, and the view says
  there are no results for a query that has some; `NoResultsMeansNone` is checked for the
  moves that set the cursor anew.
* A failed fetch of the JWKS gives an empty key jar, and the handler made of it is cached
  for 18 hours (`B/utils/rp_handler.py:63`).
* Results of the organisation collection end in an exception: the function that parses
  one is not a coroutine function and is awaited (`Output`).
* Results of a collection without a panel cannot be sorted by relevance (`KeyError`).
* A document that leaves Solr after it was drawn makes every fallback of its collection and
  scope fail until the entry is evicted or the process restarts (`MissingIsLocal` names it
  as the only such cause).
* Scopes that read the same Solr collections (none, and any name that
  `B/solr/operations.py:340` does not list) have entries of their own in the cache, so
  fixed recommendations differ between them, and each takes a place. A draw that fails removes the entry
  of its key even if a newer draw has made it. `SameForEveryone` allows for both.
* A broker that accepts connections and stays silent keeps every visit that connects, and,
  once it holds the threads of the pool, everything else that needs one
  (`B/dependencies/user_actions.py:39`).
* A request to Solr or the recommender that is never answered keeps a call for results or
  recommendations for ever (`timeout=None`); the recommendations' `except ReadTimeout`
  (`B/routes/web/recommendation.py:64`) is then reached by no request of that client.
* `B/recommender/operations.py` calls `search` without its argument `exact`.
* Filters: unticking one of two children of a root does nothing; unticking an option with
  only plain ones left empties the filter; unticking a root with children drops other
  plain roots; a root that is displayed as checked needs two clicks
  (`removeFilterValueTree`, `Tick`). Typing in the search box of the publishers or the
  organisations removes a chosen value (`Rebuild`). A checkbox is inverted until it is made
  anew. The dropdown drops the other data sources of a name.
* Filters that rewrite the address for ever: a duration with an open start beside a tree
  with a chosen option, and any date west of UTC beside one, which also moves a day back
  each time. Durations of 100 hours and more are dropped when read.
* The links of related resources set filters that the collection of all does not have.
  The catalogue "eosc" makes `U/components/active-filters/utils.ts:27` throw. The
  recommendations' `_addFilter` tests `fqMap[value]` instead of the filter's. The breadcrumb
  loses the scope "eu". Tags of the scope "pl" without a configuration do nothing, which
  its validator only warns of (`U/collections/data/validators.ts:131`).
* The two filters of a provider are joined by OR only in `search`; `search_advanced`, to
  which a bar in advanced mode sends the same address, joins them by AND (`B/solr/operations.py:77`).
* The bar keeps its copies of tags, exact match and kind of search after Back and after
  links, and the next search writes them back (`U/components/search-input/search-input.component.ts:310`).
  "Clear all" leaves the bar in advanced mode beside a standard address. A bar keeps its
  old text when the address says `*`.
* The landing page after a special collection leads to a search of all, at the first Back
  already. A special collection opened with tags clears them in the address, but the bar
  reads the old ones afterwards and `exact` is lost from the address.
* Enter within 150 ms, or a text that comes with the address, opens suggestions over the
  results. They are not asked for again when only tags, the exact match or the kind of search
  change, nor on the landing page before any collection was visited, and they set the loading
  flag of the results (`U/collections/services/fetch-data.service.ts:124`).
* "see all" writes the text as it stands, uncleaned; a switch on Or without tags makes an
  empty filter; a tag "tagged" becomes no filter at all; suggestions join DOIs by the
  switch of the titles.
* For `other_rp` (the list of collections with DOIs has "other") and for providers the
  facets are narrowed by other filters than the results; `FacetsMatchResults` is about the
  collections of that list.
* README.md:152 gives `COLLECTIONS_PREFIX` the default ""; `B/settings.py:38` has "sage_".
* README.md:156 gives `SHOW_RECOMMENDATIONS` the default True; `B/settings.py:46` has False.

## 8. Limits

Only model-checked: every liveness property (fairness and `ENABLED` are out of the
prover's reach; for five of the eight what they rest on besides is proved, see section 6), and that the two tables of a scope load (`TablesAreValid`, evaluated by TLC
at the start of the run `filters`: a statement about fixed tables, not about all).

Left out, and why:

* *Text and layout*: parsing and rendering of documents, highlighting, cards, exports,
  e-mails and logs change no state that a property is about.
* *Cryptography*: keys, assertions and signatures of the registry client are the outcome
  "unreadable".
* *Libraries*: oidcrp, fastapi_sessions, cachetools, async_lru and httpx are modelled by
  how the code uses them.
* *Time*: timeouts and expiry may happen at any moment, or not; nothing measures it. So the
  order of use in the cache of recommendations is left out (any entry may be evicted).
* *More than one process*: the application is started with one worker, and its sessions
  would not survive a second one.
* *The components marked `not_modelled`* in `PROJECT.json`, each with its reason; those
  with logic of their own are in the plan.

## 9. Plan

Done: the flow and its abstract specification, the registry client, connector login,
user actions, result pages, the search service, the tables of the collections, the
filters of the search page, their rewriting for Solr, the tags and the search bar; proofs about each module with
actions.

Next modules, in this order:

1. `Address`: an abstract address that `ResultPages`, `SearchFilters` and `SearchBar` read
   and write, to compose the three; now each leaves the others' parameters alone.
2. `PartyRecords` (`_to_party_list_item` and its predicates): to replace "accepts" of
   `RegistryClient` by what the predicates test.
3. `OidcHandler` (`B/utils/rp_handler.py`): the cached handler with an empty key jar.
4. `Bibliography`: the fan-out to doi.org with its single retry.

Runs: `flow_tabs` and `flow_browsers` become one by choosing `BrowserOf` in the initial
state; the pure modules share one run.

Proofs: every safety property of a run is a theorem. What `Settles` and `SelectionResumes`
rest on besides fairness could be proved as it is for the calls, the visits and the search.
