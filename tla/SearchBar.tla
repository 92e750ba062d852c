----------------------------- MODULE SearchBar -----------------------------
(***************************************************************************)
(* The search bar (SearchInputComponent), the address and the Back button. *)
(*                                                                         *)
(* The address says what is searched; the bar copies the tags, the four    *)
(* switches, the exact match and the kind of search from it once, when the *)
(* component is made, and writes its copies back at every search.  The     *)
(* component is made anew on the way between the landing page and the      *)
(* search page; from one collection to another it is kept.  Only the text  *)
(* and the collection are followed, by streams of the route's store that   *)
(* outlives every component.  A special collection has no advanced search: *)
(* when the store comes to one the bar resets itself and searches anew.    *)
(* (The streams of bars that are gone still do so; the navigation of the   *)
(* present bar comes later and replaces theirs.)                           *)
(*                                                                         *)
(* Two addresses that the code reads alike are one here.  Filters, sorting *)
(* and cursors of the address are those of SearchFilters and ResultPages.  *)
(***************************************************************************)
EXTENDS TagFilters, Naturals, Sequences, FiniteSets

CONSTANTS
    Collection,  \* the collections of this instance
    Text,        \* what can stand in the form, "" if nothing
    Clean,       \* sanitizeQuery(q) ?? '*'
    Bookmarks,   \* addresses of earlier visits, at which a visit may begin
    MaxTags,     \* bound on the tags of the bar
    MaxMoves,    \* bound on the number of moves
    None

All == "all_collection"
Star == "*"
Query == Text \cup {Star}

ASSUME ConstantsAssumption ==
    /\ All \in Collection
    /\ None \notin Collection \cup Query
    /\ "" \in Text /\ Star \notin Text
    /\ Clean \in [Text -> Query] /\ Clean[""] = Star
    /\ \A t \in Text : Clean[t] \in Text => Clean[Clean[t]] = Clean[t]
    /\ MaxTags \in Nat /\ MaxMoves \in Nat

VARIABLES
    url,    \* the address; at is None on the landing page
    past,   \* the addresses that the Back button leads to
    route,  \* the route's store: the last collection and text searched
    bar,    \* the form's text, and the copies of the address
    hints,  \* the stream of suggestions and the list shown
    homing, \* the user presses nothing but Back from now on
    moves

vars == <<url, past, route, bar, hints, homing, moves>>

SPECIAL_COLLECTIONS == {"organisation", "provider", "project", "catalogue"}

hasKeyword == {All, "publication", "dataset", "software", "other_rp", "training",
               "service", "data_source"}
hasAuthor == {All, "publication", "dataset", "software", "other_rp", "training"}
hasDOI == {All, "publication", "dataset", "software", "other_rp"}

-----------------------------------------------------------------------------
(* Shapes.                                                                 *)
AllAnd == [s \in Switch |-> And]

Place == Collection \cup {None}

Address == [at : Place, q : Query, standard : BOOLEAN, exact : BOOLEAN,
            tags : SUBSET Tag, radios : Radios]

Bar == [text : Text, standard : BOOLEAN, exact : BOOLEAN,
        tags : SUBSET Tag, radios : Radios]

\* What is asked of the server for suggestions.
Request == [q : Query, at : Collection, exact : BOOLEAN, fq : SUBSET SUBSET Literal]

ASSUME NoneAssumption == None \notin Request

\* seen: the text that distinctUntilChanged let through; due: the one that
\* debounceTime holds back; latest: the one that went on; asked: the request
\* under way; shown: the one whose answers are listed.
Hints == [seen : Query \cup {None}, due : Query \cup {None}, latest : Query \cup {None},
          asked : Request \cup {None}, shown : Request \cup {None}]

TypeOK ==
    /\ url \in Address
    /\ past \in Seq(Address)
    /\ route \in [at : Place, q : Query]
    /\ bar \in Bar
    /\ hints \in Hints
    /\ homing \in BOOLEAN
    /\ moves \in 0..MaxMoves

\* A special collection resets what a bookmark of it says: see Reload.
ASSUME BookmarksAssumption ==
    \A u \in Bookmarks :
        /\ u \in Address /\ u.at \in Collection \ SPECIAL_COLLECTIONS
        /\ u.standard => u.tags = {}

\* An address that names nothing but a place and a text.
Plain(at, q) ==
    [at |-> at, q |-> q, standard |-> TRUE, exact |-> FALSE, tags |-> {}, radios |-> AllAnd]

NewBar == [text |-> "", standard |-> TRUE, exact |-> FALSE, tags |-> {}, radios |-> AllAnd]

NewHints == [seen |-> None, due |-> None, latest |-> None, asked |-> None, shown |-> None]

-----------------------------------------------------------------------------
(* What the bar does when the store changes.                               *)

\* The form takes the text of the store, but keeps its own for '*'.
Heard(b, q) == IF q = Star THEN b ELSE [b EXCEPT !.text = q]

\* What the bar reads when it is made; the text it has by then.
Snapshot(b, u) ==
    [b EXCEPT !.standard = u.standard, !.exact = u.exact, !.tags = u.tags, !.radios = u.radios]

\* What a search from the bar writes into the address (updateQueryParams).
Searched(b, at) ==
    [at |-> at, q |-> Clean[b.text], standard |-> b.standard, exact |-> b.exact,
     tags |-> b.tags, radios |-> b.radios]

ResetKeepsTags(b) == [b EXCEPT !.standard = TRUE, !.radios = AllAnd]

\* backToStandard, up to its search.
Reset(b) == [b EXCEPT !.standard = TRUE, !.tags = {}, !.radios = AllAnd]

-----------------------------------------------------------------------------
(* Suggestions.                                                            *)

\* The form has a new text.
Emit(h, text) ==
    IF Clean[text] = h.seen THEN h ELSE [h EXCEPT !.seen = Clean[text], !.due = Clean[text]]

EmittedSilently(h, before, after) == h

Emitted(h, before, after) == IF after.text = before.text THEN h ELSE Emit(h, after.text)

\* switchMap: the request under way is dropped, and its list with nothing asked.
Ask(h, b, at) ==
    IF h.latest = None \/ at = None THEN h
    ELSE IF h.latest = Star /\ (b.standard \/ b.tags = {})
      THEN [h EXCEPT !.asked = None, !.shown = None]
      ELSE [h EXCEPT !.asked =
               [q |-> h.latest, at |-> at, exact |-> b.exact,
                fq |-> IF b.standard THEN {} ELSE SuggestionFilters(b.tags, b.radios)]]

\* A click anywhere in the document.
clicked(h) == [h EXCEPT !.shown = None]

-----------------------------------------------------------------------------
(* The address changes.                                                    *)

TurnsAlways(u) == TRUE

\* select() passes on a collection only when it is another one.
Turns(u) == u.at # route.at

\* The search page is kept: the text, the special collection, the suggestions.
Kept(u, b, h, p) ==
    LET heard == Heard(b, u.q)
        special == Turns(u) /\ u.at \in SPECIAL_COLLECTIONS
        reset == IF special THEN Reset(heard) ELSE heard
        there == IF special THEN Searched(reset, u.at) ELSE u
        after == Heard(reset, there.q)
        texts == Emitted(h, b, heard)
    IN  /\ url' = there
        /\ past' = IF there = u THEN p ELSE Append(p, u)
        /\ route' = [at |-> u.at, q |-> there.q]
        /\ bar' = after
        /\ hints' = Emitted(IF Turns(u) THEN Ask(texts, reset, u.at) ELSE texts, reset, after)

\* The search page and its bar are made; the special collection is met
\* before the address is read.
Made(u, p) ==
    LET heard == Heard(NewBar, u.q)
        there == IF u.at \in SPECIAL_COLLECTIONS THEN Searched(heard, u.at) ELSE u
        read == Snapshot(heard, u)
        after == Heard(read, there.q)
    IN  /\ url' = there
        /\ past' = IF there = u THEN p ELSE Append(p, u)
        /\ route' = [at |-> u.at, q |-> there.q]
        /\ bar' = after
        /\ hints' = Emitted(NewHints, read, after)

\* The landing page and its bar are made: the store still holds what was
\* searched last, and a special collection sends the user to a search of all.
Landed(u, p) ==
    LET heard == Heard(NewBar, route.q)
    IN  IF route.at \in SPECIAL_COLLECTIONS
          THEN Made(Searched(heard, All), Append(p, u))
          ELSE /\ url' = u /\ past' = p /\ bar' = heard /\ hints' = NewHints
               /\ UNCHANGED route

Arrive(u, b, h, p) ==
    IF u.at = None THEN Landed(u, p)
    ELSE IF url.at = None THEN Made(u, p) ELSE Kept(u, b, h, p)

\* router.navigate; the router ignores a navigation to the present address.
GoTo(u, b, h) ==
    IF u = url
      THEN /\ bar' = b /\ hints' = h
           /\ UNCHANGED <<url, past, route>>
      ELSE Arrive(u, b, h, Append(past, url))

-----------------------------------------------------------------------------
(* The user.                                                               *)

\* The collection chosen in the bar: that of the store, All before any.
collectionFc == IF route.at = None THEN All ELSE route.at

Search(b, h) == GoTo(Searched(b, IF url.at = None THEN collectionFc ELSE url.at), b, h)

Move == ~homing /\ moves < MaxMoves /\ moves' = moves + 1 /\ UNCHANGED homing

Type(t) ==
    /\ Move /\ t # bar.text
    /\ bar' = [bar EXCEPT !.text = t] /\ hints' = Emit(hints, t)
    /\ UNCHANGED <<url, past, route>>

\* Enter leaves the list where it is, the button does not.
SearchNow == Move /\ \E h \in {hints, clicked(hints)} : Search(bar, h)

clearQuery ==
    /\ Move
    /\ bar.text # "" \/ route.q # Star
    /\ Search([bar EXCEPT !.text = ""], clicked(Emit(hints, "")))

onCheckboxChange == Move /\ Search([bar EXCEPT !.exact = ~@], clicked(hints))

Advanced ==
    /\ Move /\ url.at # None /\ bar.standard
    /\ bar' = [bar EXCEPT !.standard = FALSE] /\ hints' = clicked(hints)
    /\ UNCHANGED <<url, past, route>>

Basic == Move /\ ~bar.standard /\ Search(Reset(bar), clicked(hints))

\* The kinds that the list beside the form offers; adjustOptionsDropdown
\* keeps the chosen one among them.
Displayed(c) ==
    {"exact", "in title", "none of"}
        \cup (IF c \in hasAuthor THEN {"author"} ELSE {})
        \cup (IF c \in hasKeyword THEN {"keyword"} ELSE {})
        \cup (IF c \in hasDOI THEN {"doi"} ELSE {})

\* A keyword of a service or a data source is kept under another name.
Written(kind, c) == IF kind = "keyword" /\ c \in {"service", "data_source"} THEN "tagged" ELSE kind

\* The tag is kept in the bar even where the address cannot change.
add(kind, v, h) ==
    LET tag == [kind |-> Written(kind, collectionFc), value |-> v]
    IN  /\ Cardinality(bar.tags \cup {tag}) <= MaxTags
        /\ Search([bar EXCEPT !.tags = @ \cup {tag}], h)

\* "Clear" beside the second form, while something is written in it: the
\* switches of the bar are reset too, and nothing is searched.
clearQueryAdv ==
    /\ Move /\ ~bar.standard
    /\ bar' = [bar EXCEPT !.radios = AllAnd] /\ hints' = clicked(hints)
    /\ UNCHANGED <<url, past, route>>

\* By Enter in the second form, or by "Narrow down"; with nothing written
\* there it is SearchNow.
NarrowDown(kind, v) ==
    /\ Move /\ ~bar.standard /\ kind \in Displayed(collectionFc)
    /\ \E h \in {hints, clicked(hints)} : add(kind, v, h)

remove(tag) ==
    Move /\ ~bar.standard /\ tag \in bar.tags
         /\ Search([bar EXCEPT !.tags = @ \ {tag}], clicked(hints))

removeAll ==
    Move /\ ~bar.standard /\ bar.tags # {}
         /\ Search([bar EXCEPT !.tags = {}], clicked(hints))

\* The tags beside a switch; it is shown when there are two of them.
Beside(s) == {t \in bar.tags : t.kind = s \/ (s = "keyword" /\ t.kind = "tagged")}

onValueChange(s) ==
    /\ Move /\ ~bar.standard
    /\ \E t, u \in Beside(s) : t # u
    /\ Search([bar EXCEPT !.radios[s] = IF @ = And THEN Or ELSE And], clicked(hints))

\* "see all" beside a group of suggestions, with the text as it is written;
\* the guard of the route puts '*' for none, when the collection is another.
SeeAll(c) ==
    /\ Move /\ hints.shown # None
    /\ c \in IF hints.shown.at = All THEN Collection \ {All} ELSE {hints.shown.at}
    /\ LET q == IF bar.text = "" /\ c # url.at THEN Star ELSE bar.text
       IN  GoTo(Plain(c, q), bar, clicked(hints))

\* The links to all collections: the breadcrumb, "Discover more", "Homepage".
GoToAll == Move /\ GoTo(Plain(All, Star), bar, clicked(hints))

\* "Clear all" where there are no results (requestClearAll): clearInput's own
\* search is replaced by the navigation that follows it.
clearInput ==
    /\ Move /\ url.at # None
    /\ LET empty == [bar EXCEPT !.text = "", !.tags = IF bar.standard THEN @ ELSE {}]
       IN  GoTo(Plain(url.at, Star), empty, clicked(Emit(hints, "")))

GoBack ==
    /\ past # <<>>
    /\ Arrive(past[Len(past)], bar, hints, SubSeq(past, 1, Len(past) - 1))

Back == Move /\ GoBack

\* The browser makes the application anew.
Reload ==
    /\ Move
    /\ IF url.at = None
         THEN /\ route' = [at |-> None, q |-> Star]
              /\ bar' = NewBar /\ hints' = NewHints
              /\ UNCHANGED <<url, past>>
         ELSE Made(url, past)

\* Someone who wants to leave presses nothing but Back.
GoHome == ~homing /\ homing' = TRUE /\ UNCHANGED <<url, past, route, bar, hints, moves>>

BackHome == homing /\ GoBack /\ UNCHANGED <<homing, moves>>

-----------------------------------------------------------------------------
(* The program.                                                            *)

\* 150 ms without a new text.
Debounced ==
    /\ hints.due # None
    /\ hints' = Ask([hints EXCEPT !.latest = hints.due, !.due = None], bar, route.at)
    /\ UNCHANGED <<url, past, route, bar, homing, moves>>

\* The answer lists something, or nothing (as a failed request does).
Suggested ==
    /\ hints.asked # None
    /\ \E shown \in {hints.asked, None} :
         hints' = [hints EXCEPT !.asked = None, !.shown = shown]
    /\ UNCHANGED <<url, past, route, bar, homing, moves>>

-----------------------------------------------------------------------------
Init ==
    /\ url \in {Plain(None, Star)} \cup Bookmarks
    /\ past = <<>>
    /\ route = [at |-> url.at, q |-> url.q]
    /\ bar = Snapshot(Heard(NewBar, url.q), url)
    /\ hints = NewHints
    /\ homing = FALSE
    /\ moves = 0

UserMoves ==
    \/ \E t \in Text : Type(t)
    \/ SearchNow \/ clearQuery \/ onCheckboxChange
    \/ Advanced \/ Basic \/ clearQueryAdv
    \/ \E kind \in Kind, v \in Value : NarrowDown(kind, v)
    \/ \E tag \in Tag : remove(tag)
    \/ removeAll
    \/ \E s \in Switch : onValueChange(s)
    \/ \E c \in Collection : SeeAll(c)
    \/ GoToAll \/ clearInput \/ Back \/ Reload \/ GoHome

Next == UserMoves \/ BackHome \/ Debounced \/ Suggested

Spec == Init /\ [][Next]_vars

\* Only for the one who keeps pressing Back.
FairSpec == Spec /\ WF_vars(BackHome)

-----------------------------------------------------------------------------
(* Properties.                                                             *)

\* What the results of the present address are narrowed by.
ResultsFq ==
    IF url.standard THEN {} ELSE AdvancedFilters(url.at, url.tags, url.radios)

\* fetchFilters$ uses the tags whatever kind of search it is.
FacetsFq == getFiltersFromTags(url.tags, url.radios)

\* The facets count exactly the results that the page shows: in a collection
\* whose documents have a DOI both requests are narrowed by the same filters,
\* although one of them ignores the tags of a standard search and the other
\* does not look at the kind of search (search-page.component.ts,
\* custom-route.service.ts).
FacetsMatchResults ==
    url.at \in doiCollections => Heeded(ResultsFq) = Heeded(FacetsFq)

\* Once nothing is awaited, a list of suggestions is of the text in the form
\* and of the collection in the store, whatever was typed, clicked or
\* navigated while requests were under way (debounce, combineLatest and
\* switchMap in search-input.component.ts).
SuggestionsFollow ==
    (hints.shown # None /\ hints.due = None /\ hints.asked = None)
        => hints.shown.q = Clean[bar.text] /\ hints.shown.at = route.at

\* A user who presses nothing but Back comes to the first page of the visit,
\* although a bar that comes to a special collection, or to the landing page
\* after one, adds an address of its own to the history.
BackLeadsOut == homing ~> (past = <<>>)
=============================================================================
