--------------------------- MODULE SearchBarProofs -------------------------
(***************************************************************************)
(* What TLAPS proves of SearchBar, for every set of collections, texts,    *)
(* tags and bookmarks: the types, that the facets are narrowed as the      *)
(* results are, and that the suggestions follow the form.                  *)
(*                                                                         *)
(* The facets need that an address never has tags beside a standard search.*)
(* Every address was in the bar, in the history or in a link before, so the*)
(* inductive invariant IInv says it of all of these.  The suggestions need *)
(* SInv: it ties what the stream let through, what it holds back, what it  *)
(* asked last and the list, each to the one before it, and the first to the*)
(* text in the form; every handler keeps the chain, typing breaks it at its*)
(* beginning and the stream carries the new text along it.                 *)
(***************************************************************************)
EXTENDS SearchBar, TLAPS, SequenceTheorems

\* No tags without an advanced search.
Tidy(S) == {x \in S : x.standard => x.tags = {}}

Route == [at : Place, q : Query]

IInv ==
    /\ url \in Tidy(Address)
    /\ past \in Seq(Tidy(Address))
    /\ route \in Route
    /\ bar \in Tidy(Bar)
    /\ hints \in Hints
    /\ homing \in BOOLEAN
    /\ moves \in 0..MaxMoves

-----------------------------------------------------------------------------
(* The filters.                                                            *)

\* The results and the facets are narrowed by the same filters in the
\* collections whose documents have a DOI (constructAdvancedSearchMetadata,
\* getFiltersFromTags).
THEOREM ResultsAsFacets ==
    ASSUME NEW c \in doiCollections, NEW tags, NEW radios
    PROVE  AdvancedFilters(c, tags, radios) = getFiltersFromTags(tags, radios)
BY DEF AdvancedFilters, getFiltersFromTags, ResultFields, doiCollections

\* Without a tag for a DOI the suggestions are narrowed as the facets are
\* (_suggestedResultsByAdv$, getFiltersFromTags).
THEOREM SuggestionsAsFacets ==
    ASSUME NEW tags, NEW radios, \A t \in tags : t.kind # "doi"
    PROVE  SuggestionFilters(tags, radios) = getFiltersFromTags(tags, radios)
<1>1. Dois(tags) = {}
  BY DEF Dois, Values
<1> QED
  BY <1>1 DEF SuggestionFilters, getFiltersFromTags, Merged

\* Without tags nothing is narrowed, however the switches stand.
LEMMA NoTagsNoFilters ==
    ASSUME NEW radios
    PROVE  Heeded(getFiltersFromTags({}, radios)) = {}
<1>1. \A k : Values({}, k) = {}
  BY DEF Values
<1>2. /\ Authors({}) = {} /\ Exacts({}, Field) = {} /\ NoneOf({}, Field) = {}
      /\ Titles({}) = {} /\ Dois({}) = {} /\ Keywords({}) = {}
  BY <1>1 DEF Authors, Exacts, NoneOf, Titles, Dois, Keywords
<1>3. \A r : Joined({}, r) \subseteq {{}}
  <2>1. UNION {} = {}
    OBVIOUS
  <2> QED
    BY <2>1 DEF Joined
<1>4. Merged({}) = {}
  BY DEF Merged
<1>5. getFiltersFromTags({}, radios) \subseteq {{}}
  BY <1>2, <1>3, <1>4 DEF getFiltersFromTags
<1> QED
  BY <1>5 DEF Heeded

LEMMA LiteralType ==
    ASSUME NEW f \in Field, NEW v \in Value
    PROVE  Has(f, v) \in Literal /\ Lacks(f, v) \in Literal
BY DEF Has, Lacks, Literal

\* Filters are sets of literals.
LEMMA FiltersType ==
    ASSUME NEW tags \in SUBSET Tag, NEW radios
    PROVE  SuggestionFilters(tags, radios) \in SUBSET SUBSET Literal
<1> DEFINE Fq == SUBSET SUBSET Literal
<1>1. \A k : Values(tags, k) \subseteq Value
  BY DEF Values, Tag
<1>2. /\ "title" \in Field /\ "author_names_tg" \in Field
      /\ "keywords_tg" \in Field /\ "doi" \in Field
  BY DEF Field
<1>3. Authors(tags) \in Fq
  <2>1. \A v \in Value : \A o \in Orders[v] : o \in Value
    BY OrdersAssumption
  <2>2. \A v \in Value : AuthorFilter(v) \subseteq Literal
    BY <1>2, <2>1, LiteralType DEF AuthorFilter
  <2> QED
    BY <1>1, <2>2 DEF Authors
<1>4. Exacts(tags, Field) \in Fq
  <2>1. \A v \in Value : ExactFilter(v, Field) \subseteq Literal
    BY LiteralType DEF ExactFilter
  <2> QED
    BY <1>1, <2>1 DEF Exacts
<1>5. NoneOf(tags, Field) \in Fq
  <2>1. \A v \in Value : NoneOfFilters(v, Field) \subseteq SUBSET Literal
    BY LiteralType DEF NoneOfFilters
  <2>2. ASSUME NEW filter \in NoneOf(tags, Field)
        PROVE  filter \in SUBSET Literal
    <3>1. PICK v \in Values(tags, "none of") : filter \in NoneOfFilters(v, Field)
      BY DEF NoneOf
    <3> QED
      BY <1>1, <2>1, <3>1
  <2> QED
    BY <2>2
<1>6. /\ Titles(tags) \cup Dois(tags) \in Fq
      /\ Keywords(tags) \in Fq
  <2>1. \A f \in Field, v \in Value : OneFilter(f, v) \subseteq Literal
    BY LiteralType DEF OneFilter
  <2>2. /\ \A v \in Value : OneFilter("title", v) \subseteq Literal
        /\ \A v \in Value : OneFilter("doi", v) \subseteq Literal
        /\ \A v \in Value : OneFilter("keywords_tg", v) \subseteq Literal
    BY <1>2, <2>1
  <2>3. Titles(tags) \in Fq
    BY <1>1, <2>2 DEF Titles
  <2>4. Dois(tags) \in Fq
    BY <1>1, <2>2 DEF Dois
  <2>5. Keywords(tags) \in Fq
    BY <1>1, <2>2 DEF Keywords
  <2> QED
    BY <2>3, <2>4, <2>5
<1>7. \A fs \in Fq : \A r : Joined(fs, r) \in Fq
  BY DEF Joined
<1> HIDE DEF Fq
<1>8. /\ Joined(Authors(tags), radios["author"]) \in Fq
      /\ Joined(Exacts(tags, Field), radios["exact"]) \in Fq
      /\ Joined(Titles(tags) \cup Dois(tags), radios["in title"]) \in Fq
      /\ Joined(Keywords(tags), radios["keyword"]) \in Fq
  BY <1>3, <1>4, <1>6, <1>7
<1> QED
  BY <1>5, <1>8 DEF SuggestionFilters, Fq

-----------------------------------------------------------------------------
(* The steps of the bar.                                                   *)

LEMMA TextType == \A t \in Text : Clean[t] \in Query
BY ConstantsAssumption

LEMMA NewType ==
    /\ NewBar \in Tidy(Bar)
    /\ NewHints \in Hints
    /\ \A at \in Place, q \in Query : Plain(at, q) \in Tidy(Address)
<1>1. AllAnd \in Radios
  BY DEF AllAnd, Radios
<1> QED
  BY <1>1, ConstantsAssumption DEF NewBar, NewHints, Plain, Tidy, Bar, Hints, Address

LEMMA BarType ==
    ASSUME NEW b \in Tidy(Bar), NEW q \in Query, NEW u \in Tidy(Address), NEW at \in Place
    PROVE  /\ Heard(b, q) \in Tidy(Bar)
           /\ Snapshot(b, u) \in Tidy(Bar)
           /\ Reset(b) \in Tidy(Bar)
           /\ Searched(b, at) \in Tidy(Address)
<1>1. AllAnd \in Radios
  BY DEF AllAnd, Radios
<1>2. Heard(b, q) \in Tidy(Bar)
  BY DEF Heard, Tidy, Bar, Query
<1>3. Snapshot(b, u) \in Tidy(Bar)
  BY DEF Snapshot, Tidy, Bar, Address
<1>4. Reset(b) \in Tidy(Bar)
  BY <1>1 DEF Reset, Tidy, Bar
<1>5. Searched(b, at) \in Tidy(Address)
  BY TextType DEF Searched, Tidy, Bar, Address
<1> QED
  BY <1>2, <1>3, <1>4, <1>5

LEMMA HintsType ==
    ASSUME NEW h \in Hints, NEW b \in Tidy(Bar), NEW a \in Tidy(Bar), NEW t \in Text
    PROVE  /\ Emit(h, t) \in Hints
           /\ Emitted(h, b, a) \in Hints
           /\ clicked(h) \in Hints
           /\ \A at \in Place : Ask(h, b, at) \in Hints
<1>1. \A s \in Text : Emit(h, s) \in Hints
  BY TextType DEF Emit, Hints
<1>2. Emitted(h, b, a) \in Hints
  BY <1>1 DEF Emitted, Tidy, Bar
<1>3. clicked(h) \in Hints
  BY DEF clicked, Hints
<1>4. ASSUME NEW at \in Place
      PROVE  Ask(h, b, at) \in Hints
  <2>1. CASE h.latest = None \/ at = None
    BY <2>1 DEF Ask
  <2>2. CASE h.latest = Star /\ (b.standard \/ b.tags = {})
    BY <2>2 DEF Ask, Hints
  <2>3. CASE /\ ~(h.latest = None \/ at = None)
             /\ ~(h.latest = Star /\ (b.standard \/ b.tags = {}))
    <3> DEFINE fq == IF b.standard THEN {} ELSE SuggestionFilters(b.tags, b.radios)
               request == [q |-> h.latest, at |-> at, exact |-> b.exact, fq |-> fq]
    <3>1. b.tags \in SUBSET Tag /\ b.exact \in BOOLEAN
      BY DEF Tidy, Bar
    <3>2. fq \in SUBSET SUBSET Literal
      BY <3>1, FiltersType
    <3>3. h.latest \in Query /\ at \in Collection
      BY <2>3 DEF Hints, Place
    <3>4. request \in Request
      BY <3>1, <3>2, <3>3 DEF Request
    <3>5. Ask(h, b, at) = [h EXCEPT !.asked = request]
      BY <2>3 DEF Ask
    <3> HIDE DEF request
    <3> QED
      BY <3>4, <3>5 DEF Hints
  <2> QED
    BY <2>1, <2>2, <2>3
<1> QED
  BY <1>1, <1>2, <1>3, <1>4

-----------------------------------------------------------------------------
(* The steps of the address.                                               *)

\* What every change of the address leaves behind.
Arrived ==
    /\ url' \in Tidy(Address)
    /\ past' \in Seq(Tidy(Address))
    /\ route' \in Route
    /\ bar' \in Tidy(Bar)
    /\ hints' \in Hints

\* An address that is pushed in between, or not.
LEMMA PushType ==
    ASSUME NEW S, NEW p \in Seq(S), NEW u \in S
    PROVE  Append(p, u) \in Seq(S)
OBVIOUS

LEMMA KeptType ==
    ASSUME NEW u \in Tidy(Address), u.at \in Collection, NEW b \in Tidy(Bar), NEW h \in Hints,
           NEW p \in Seq(Tidy(Address)), Kept(u, b, h, p)
    PROVE  Arrived
<1> DEFINE heard == Heard(b, u.q)
           special == Turns(u) /\ u.at \in SPECIAL_COLLECTIONS
           reset == IF special THEN Reset(heard) ELSE heard
           there == IF special THEN Searched(reset, u.at) ELSE u
           after == Heard(reset, there.q)
           texts == Emitted(h, b, heard)
           asked == IF Turns(u) THEN Ask(texts, reset, u.at) ELSE texts
<1>1. u.q \in Query /\ u.at \in Place
  BY DEF Tidy, Address, Place
<1>2. heard \in Tidy(Bar)
  BY <1>1, BarType
<1>3. reset \in Tidy(Bar)
  BY <1>1, <1>2, BarType
<1>4. there \in Tidy(Address)
  BY <1>1, <1>3, BarType
<1>5. there.q \in Query
  BY <1>4 DEF Tidy, Address
<1>6. after \in Tidy(Bar)
  BY <1>1, <1>3, <1>5, BarType
<1>7. "" \in Text
  BY ConstantsAssumption
<1>8. texts \in Hints
  BY <1>2, <1>7, HintsType
<1>9. asked \in Hints
  BY <1>1, <1>3, <1>7, <1>8, HintsType
<1>10. Emitted(asked, reset, after) \in Hints
  BY <1>3, <1>6, <1>7, <1>9, HintsType
<1>11. /\ url' = there
       /\ past' = IF there = u THEN p ELSE Append(p, u)
       /\ route' = [at |-> u.at, q |-> there.q]
       /\ bar' = after
       /\ hints' = Emitted(asked, reset, after)
  BY DEF Kept
<1>12. past' \in Seq(Tidy(Address))
  BY <1>11, PushType
<1>13. route' \in Route
  BY <1>1, <1>5, <1>11 DEF Route
<1> QED
  BY <1>4, <1>6, <1>10, <1>11, <1>12, <1>13 DEF Arrived

LEMMA MadeType ==
    ASSUME NEW u \in Tidy(Address), u.at \in Collection,
           NEW p \in Seq(Tidy(Address)), Made(u, p)
    PROVE  Arrived
<1> DEFINE heard == Heard(NewBar, u.q)
           there == IF u.at \in SPECIAL_COLLECTIONS THEN Searched(heard, u.at) ELSE u
           read == Snapshot(heard, u)
           after == Heard(read, there.q)
<1>1. u.q \in Query /\ u.at \in Place
  BY DEF Tidy, Address, Place
<1>2. heard \in Tidy(Bar)
  BY <1>1, NewType, BarType
<1>3. there \in Tidy(Address)
  BY <1>1, <1>2, BarType
<1>4. there.q \in Query
  BY <1>3 DEF Tidy, Address
<1>5. read \in Tidy(Bar)
  BY <1>1, <1>2, BarType
<1>6. after \in Tidy(Bar)
  BY <1>1, <1>4, <1>5, BarType
<1>7. "" \in Text
  BY ConstantsAssumption
<1>8. Emitted(NewHints, read, after) \in Hints
  BY <1>5, <1>6, <1>7, NewType, HintsType
<1>9. /\ url' = there
      /\ past' = IF there = u THEN p ELSE Append(p, u)
      /\ route' = [at |-> u.at, q |-> there.q]
      /\ bar' = after
      /\ hints' = Emitted(NewHints, read, after)
  BY DEF Made
<1>10. past' \in Seq(Tidy(Address))
  BY <1>9, PushType
<1>11. route' \in Route
  BY <1>1, <1>4, <1>9 DEF Route
<1> QED
  BY <1>3, <1>6, <1>8, <1>9, <1>10, <1>11 DEF Arrived

LEMMA LandedType ==
    ASSUME NEW u \in Tidy(Address), NEW p \in Seq(Tidy(Address)),
           route \in Route, Landed(u, p)
    PROVE  Arrived
<1> DEFINE heard == Heard(NewBar, route.q)
<1>1. route.q \in Query /\ All \in Collection /\ All \in Place
  BY ConstantsAssumption DEF Route, Place
<1>2. heard \in Tidy(Bar)
  BY <1>1, NewType, BarType
<1>3. CASE route.at \in SPECIAL_COLLECTIONS
  <2>1. Made(Searched(heard, All), Append(p, u))
    BY <1>3 DEF Landed
  <2>2. Searched(heard, All) \in Tidy(Address) /\ Searched(heard, All).at \in Collection
    BY <1>1, <1>2, BarType DEF Searched
  <2>3. Append(p, u) \in Seq(Tidy(Address))
    BY PushType
  <2> QED
    BY <2>1, <2>2, <2>3, MadeType
<1>4. CASE route.at \notin SPECIAL_COLLECTIONS
  <2>1. /\ url' = u /\ past' = p /\ bar' = heard /\ hints' = NewHints /\ route' = route
    BY <1>4 DEF Landed
  <2> QED
    BY <1>2, <2>1, NewType DEF Arrived
<1> QED
  BY <1>3, <1>4

LEMMA ArriveType ==
    ASSUME NEW u \in Tidy(Address), NEW b \in Tidy(Bar), NEW h \in Hints,
           NEW p \in Seq(Tidy(Address)), route \in Route, Arrive(u, b, h, p)
    PROVE  Arrived
<1>1. CASE u.at = None
  BY <1>1, LandedType DEF Arrive
<1>2. CASE u.at # None
  <2>1. u.at \in Collection
    BY <1>2 DEF Tidy, Address, Place
  <2>2. Made(u, p) \/ Kept(u, b, h, p)
    BY <1>2 DEF Arrive
  <2> QED
    BY <2>1, <2>2, MadeType, KeptType
<1> QED
  BY <1>1, <1>2

LEMMA GoToType ==
    ASSUME IInv, NEW u \in Tidy(Address), NEW b \in Tidy(Bar), NEW h \in Hints,
           GoTo(u, b, h)
    PROVE  Arrived
<1>1. CASE u = url
  BY <1>1 DEF GoTo, IInv, Arrived
<1>2. CASE u # url
  <2>1. Append(past, url) \in Seq(Tidy(Address))
    BY PushType DEF IInv
  <2> QED
    BY <1>2, <2>1, ArriveType DEF GoTo, IInv
<1> QED
  BY <1>1, <1>2

LEMMA SearchType ==
    ASSUME IInv, NEW b \in Tidy(Bar), NEW h \in Hints, Search(b, h)
    PROVE  Arrived
<1> DEFINE at == IF url.at = None THEN collectionFc ELSE url.at
<1>1. at \in Place
  BY ConstantsAssumption DEF IInv, Tidy, Address, Place, Route, collectionFc
<1>2. Searched(b, at) \in Tidy(Address)
  <2> HIDE DEF at
  <2> QED
    BY <1>1, ConstantsAssumption, BarType, NewType
<1> QED
  BY <1>2, GoToType DEF Search

LEMMA GoBackType ==
    ASSUME IInv, GoBack
    PROVE  Arrived
<1> DEFINE u == past[Len(past)]
           rest == SubSeq(past, 1, Len(past) - 1)
<1>1. past \in Seq(Tidy(Address)) /\ past # <<>>
  BY DEF IInv, GoBack
<1>2. Len(past) \in 1..Len(past)
  BY <1>1
<1>3. u \in Tidy(Address)
  BY <1>1, <1>2
<1>4. rest \in Seq(Tidy(Address))
  BY <1>1, <1>2
<1>5. Arrive(u, bar, hints, rest)
  BY DEF GoBack
<1> HIDE DEF u, rest
<1> QED
  BY <1>3, <1>4, <1>5, ArriveType DEF IInv

-----------------------------------------------------------------------------
(* The invariant.                                                          *)

LEMMA MoveType ==
    ASSUME IInv, Move, Arrived
    PROVE  IInv'
<1>1. moves' \in 0..MaxMoves
  <2>1. moves \in 0..MaxMoves
    BY DEF IInv
  <2>2. moves < MaxMoves /\ moves' = moves + 1
    BY DEF Move
  <2>3. MaxMoves \in Nat
    BY ConstantsAssumption
  <2> QED
    BY <2>1, <2>2, <2>3
<1>2. homing' \in BOOLEAN
  BY DEF IInv, Move
<1> QED
  BY <1>1, <1>2 DEF IInv, Arrived

\* Changes of the bar that its handlers make before they search.
LEMMA ChangedType ==
    ASSUME IInv
    PROVE  /\ \A t \in Text : [bar EXCEPT !.text = t] \in Tidy(Bar)
           /\ [bar EXCEPT !.exact = ~@] \in Tidy(Bar)
           /\ [bar EXCEPT !.standard = FALSE] \in Tidy(Bar)
           /\ Reset(bar) \in Tidy(Bar)
           /\ \A h \in {hints, clicked(hints)} : h \in Hints
           /\ \A t \in Text : clicked(Emit(hints, t)) \in Hints
<1> USE DEF IInv
<1>1. Reset(bar) \in Tidy(Bar)
  <2>1. AllAnd \in Radios
    BY DEF AllAnd, Radios
  <2> QED
    BY <2>1 DEF Reset, Tidy, Bar
<1>2. \A t \in Text : Emit(hints, t) \in Hints /\ clicked(hints) \in Hints
  BY HintsType
<1>3. clicked(hints) \in Hints
  BY <1>2, ConstantsAssumption
<1>4. \A t \in Text : clicked(Emit(hints, t)) \in Hints
  BY <1>2, HintsType
<1> QED
  BY <1>1, <1>3, <1>4 DEF Tidy, Bar

LEMMA ChangedTags ==
    ASSUME IInv, NEW S \in SUBSET Tag, S \subseteq bar.tags \/ ~bar.standard
    PROVE  [bar EXCEPT !.tags = S] \in Tidy(Bar)
BY DEF IInv, Tidy, Bar

LEMMA UserStep ==
    ASSUME IInv, UserMoves
    PROVE  IInv'
<1>1. ASSUME NEW t \in Text, Type(t)
      PROVE  IInv'
  <2>1. Emit(hints, t) \in Hints
    BY HintsType DEF IInv
  <2> QED
    BY <1>1, <2>1, ChangedType, MoveType DEF Type, Arrived, IInv
<1>2. CASE SearchNow
  BY <1>2, ChangedType, SearchType, MoveType DEF SearchNow, IInv
<1>3. CASE clearQuery
  <2>1. "" \in Text
    BY ConstantsAssumption
  <2> QED
    BY <1>3, <2>1, ChangedType, SearchType, MoveType DEF clearQuery
<1>4. CASE onCheckboxChange
  BY <1>4, ChangedType, SearchType, MoveType DEF onCheckboxChange
<1>5. CASE Advanced
  BY <1>5, ChangedType, MoveType DEF Advanced, Arrived, IInv
<1>6. CASE Basic
  BY <1>6, ChangedType, SearchType, MoveType DEF Basic
<1>7. ASSUME NEW kind \in Kind, NEW v \in Value, NarrowDown(kind, v)
      PROVE  IInv'
  <2> DEFINE tag == [kind |-> Written(kind, collectionFc), value |-> v]
  <2>1. tag \in Tag
    BY DEF Tag, Written, Kind
  <2>2. [bar EXCEPT !.tags = @ \cup {tag}] \in Tidy(Bar)
    <3>1. bar.tags \cup {tag} \in SUBSET Tag
      BY <2>1 DEF IInv, Tidy, Bar
    <3>2. [bar EXCEPT !.tags = bar.tags \cup {tag}] \in Tidy(Bar)
      BY <1>7, <3>1, ChangedTags DEF NarrowDown
    <3> QED
      BY <3>2
  <2> HIDE DEF tag
  <2>3. PICK h \in {hints, clicked(hints)} : Search([bar EXCEPT !.tags = @ \cup {tag}], h)
    BY <1>7 DEF NarrowDown, add, tag
  <2> QED
    BY <1>7, <2>2, <2>3, ChangedType, SearchType, MoveType DEF NarrowDown
<1>8. ASSUME NEW tag \in Tag, remove(tag)
      PROVE  IInv'
  <2>1. [bar EXCEPT !.tags = bar.tags \ {tag}] \in Tidy(Bar)
    <3>1. bar.tags \ {tag} \in SUBSET Tag
      BY DEF IInv, Tidy, Bar
    <3> QED
      BY <3>1, ChangedTags
  <2> QED
    BY <1>8, <2>1, ChangedType, SearchType, MoveType DEF remove
<1>9. CASE removeAll
  <2>1. [bar EXCEPT !.tags = {}] \in Tidy(Bar)
    BY ChangedTags
  <2> QED
    BY <1>9, <2>1, ChangedType, SearchType, MoveType DEF removeAll
<1>10. ASSUME NEW s \in Switch, onValueChange(s)
       PROVE  IInv'
  <2> DEFINE turned == [bar EXCEPT !.radios[s] = IF @ = And THEN Or ELSE And]
  <2>1. turned \in Tidy(Bar)
    BY DEF IInv, Tidy, Bar, Radios
  <2>2. Search(turned, clicked(hints))
    BY <1>10 DEF onValueChange
  <2> HIDE DEF turned
  <2> QED
    BY <1>10, <2>1, <2>2, ChangedType, SearchType, MoveType DEF onValueChange
<1>11. ASSUME NEW c \in Collection, SeeAll(c)
       PROVE  IInv'
  <2> DEFINE q == IF bar.text = "" /\ c # url.at THEN Star ELSE bar.text
  <2>1. q \in Query /\ c \in Place
    BY DEF IInv, Tidy, Bar, Query, Place
  <2>2. GoTo(Plain(c, q), bar, clicked(hints))
    BY <1>11 DEF SeeAll
  <2> HIDE DEF q
  <2>3. Plain(c, q) \in Tidy(Address)
    BY <2>1, NewType
  <2>4. bar \in Tidy(Bar) /\ clicked(hints) \in Hints
    BY ChangedType DEF IInv
  <2> QED
    BY <1>11, <2>2, <2>3, <2>4, GoToType, MoveType DEF SeeAll
<1>12. CASE GoToAll
  <2>1. Plain(All, Star) \in Tidy(Address)
    BY NewType, ConstantsAssumption DEF Place, Query
  <2>2. bar \in Tidy(Bar) /\ clicked(hints) \in Hints
    BY ChangedType DEF IInv
  <2> QED
    BY <1>12, <2>1, <2>2, GoToType, MoveType DEF GoToAll
<1>13. CASE clearInput
  <2> DEFINE empty == [bar EXCEPT !.text = "", !.tags = IF bar.standard THEN @ ELSE {}]
  <2>1. empty \in Tidy(Bar)
    BY ConstantsAssumption DEF IInv, Tidy, Bar
  <2>2. GoTo(Plain(url.at, Star), empty, clicked(Emit(hints, "")))
    BY <1>13 DEF clearInput
  <2> HIDE DEF empty
  <2>3. Plain(url.at, Star) \in Tidy(Address)
    <3>1. url.at \in Place /\ Star \in Query
      BY DEF IInv, Tidy, Address, Query
    <3> QED
      BY <3>1, NewType
  <2>4. clicked(Emit(hints, "")) \in Hints
    BY ChangedType, ConstantsAssumption
  <2> QED
    BY <1>13, <2>1, <2>2, <2>3, <2>4, GoToType, MoveType DEF clearInput
<1>14. CASE Back
  <2>1. Arrived
    BY <1>14, GoBackType DEF Back
  <2> QED
    BY <1>14, <2>1, MoveType DEF Back
<1>15. CASE Reload
  <2>1. CASE url.at = None
    <3>1. [at |-> None, q |-> Star] \in Route
      BY DEF Route, Place, Query
    <3> QED
      BY <1>15, <2>1, <3>1, NewType, MoveType DEF Reload, Arrived, IInv
  <2>2. CASE url.at # None
    <3>1. url.at \in Collection
      BY <2>2 DEF IInv, Tidy, Address, Place
    <3>2. Made(url, past)
      BY <1>15, <2>2 DEF Reload
    <3> QED
      BY <1>15, <3>1, <3>2, MadeType, MoveType DEF Reload, IInv
  <2> QED
    BY <2>1, <2>2
<1>16. CASE GoHome
  BY <1>16 DEF GoHome, IInv
<1>17. CASE clearQueryAdv
  <2>1. AllAnd \in Radios
    BY DEF AllAnd, Radios
  <2>2. [bar EXCEPT !.radios = AllAnd] \in Tidy(Bar)
    BY <2>1 DEF IInv, Tidy, Bar
  <2> QED
    BY <1>17, <2>2, ChangedType, MoveType DEF clearQueryAdv, Arrived, IInv
<1> QED
  BY <1>1, <1>2, <1>3, <1>4, <1>5, <1>6, <1>7, <1>8, <1>9, <1>10, <1>11, <1>12, <1>13,
     <1>14, <1>15, <1>16, <1>17 DEF UserMoves

LEMMA ProgramStep ==
    ASSUME IInv, BackHome \/ Debounced \/ Suggested
    PROVE  IInv'
<1>1. CASE BackHome
  BY <1>1, GoBackType DEF BackHome, Arrived, IInv
<1>2. CASE Debounced
  <2> DEFINE h == [hints EXCEPT !.latest = hints.due, !.due = None]
  <2>1. h \in Hints
    BY DEF IInv, Hints
  <2>2. route.at \in Place /\ "" \in Text /\ bar \in Tidy(Bar)
    BY ConstantsAssumption DEF IInv, Route
  <2>3. hints' = Ask(h, bar, route.at)
    BY <1>2 DEF Debounced
  <2> HIDE DEF h
  <2>4. hints' \in Hints
    BY <2>1, <2>2, <2>3, HintsType
  <2> QED
    BY <1>2, <2>4 DEF Debounced, IInv
<1>3. CASE Suggested
  <2>1. hints' \in Hints
    BY <1>3 DEF Suggested, IInv, Hints
  <2> QED
    BY <1>3, <2>1 DEF Suggested, IInv
<1> QED
  BY <1>1, <1>2, <1>3

LEMMA InitStep == Init => IInv
<1> SUFFICES ASSUME Init PROVE IInv
  OBVIOUS
<1>1. None \in Place /\ Star \in Query
  BY DEF Place, Query
<1>2. url \in Tidy(Address)
  BY <1>1, NewType, BookmarksAssumption DEF Init, Tidy
<1>3. url.q \in Query /\ url.at \in Place
  BY <1>2 DEF Tidy, Address
<1>4. Heard(NewBar, url.q) \in Tidy(Bar)
  BY <1>2, <1>3, NewType, BarType
<1>5. bar \in Tidy(Bar)
  BY <1>2, <1>3, <1>4, BarType DEF Init
<1>6. route \in Route
  BY <1>3 DEF Init, Route
<1>7. past \in Seq(Tidy(Address))
  BY DEF Init
<1>8. hints \in Hints
  BY NewType DEF Init
<1>9. moves \in 0..MaxMoves
  <2>1. MaxMoves \in Nat
    BY ConstantsAssumption
  <2>2. moves = 0
    BY DEF Init
  <2> QED
    BY <2>1, <2>2
<1>10. homing \in BOOLEAN
  BY DEF Init
<1> QED
  BY <1>2, <1>5, <1>6, <1>7, <1>8, <1>9, <1>10 DEF IInv

LEMMA Invariance == Spec => []IInv
<1>1. Init => IInv
  BY InitStep
<1>2. IInv /\ [Next]_vars => IInv'
  <2> SUFFICES ASSUME IInv, [Next]_vars PROVE IInv'
    OBVIOUS
  <2>1. CASE Next
    BY <2>1, UserStep, ProgramStep DEF Next
  <2>2. CASE UNCHANGED vars
    BY <2>2 DEF vars, IInv
  <2> QED
    BY <2>1, <2>2
<1> QED
  BY <1>1, <1>2, PTL DEF Spec

-----------------------------------------------------------------------------
(* The suggestions.                                                        *)

\* The stream of suggestions and the list, beside the text in the form and
\* the collection in the store.
Follows(h, text, at) ==
    /\ h.seen = None \/ h.seen = Clean[text]
    /\ IF h.due = None THEN h.latest = h.seen ELSE h.due = h.seen
    /\ h.latest = None => h.asked = None /\ h.shown = None
    /\ h.asked # None => h.asked.q = h.latest /\ h.asked.at = at
    /\ (h.asked = None /\ h.shown # None) => h.shown.q = h.latest /\ h.shown.at = at

SInv == Follows(hints, bar.text, route.at)

LEMMA NotNone ==
    /\ \A t \in Text : Clean[t] # None
    /\ \A r \in Request : r # None /\ r.at # None
<1>1. \A t \in Text : Clean[t] # None
  BY TextType, ConstantsAssumption
<1>2. \A r \in Request : r # None
  BY NoneAssumption
<1>3. \A r \in Request : r.at # None
  BY ConstantsAssumption DEF Request
<1> QED
  BY <1>1, <1>2, <1>3

LEMMA NewFollows == \A text, at : Follows(NewHints, text, at)
BY DEF Follows, NewHints

LEMMA EmitFollows ==
    ASSUME NEW h \in Hints, NEW text, NEW at, Follows(h, text, at), NEW t \in Text
    PROVE  Follows(Emit(h, t), t, at)
<1>1. CASE Clean[t] = h.seen
  BY <1>1 DEF Emit, Follows
<1>2. CASE Clean[t] # h.seen
  <2> DEFINE e == [h EXCEPT !.seen = Clean[t], !.due = Clean[t]]
  <2>1. /\ e.seen = Clean[t] /\ e.due = Clean[t] /\ e.latest = h.latest
        /\ e.asked = h.asked /\ e.shown = h.shown
    BY DEF Hints
  <2>2. Emit(h, t) = e
    BY <1>2 DEF Emit
  <2>3. e.due # None
    BY <2>1, NotNone
  <2> HIDE DEF e
  <2> QED
    BY <2>1, <2>2, <2>3 DEF Follows
<1> QED
  BY <1>1, <1>2

LEMMA EmittedFollows ==
    ASSUME NEW h \in Hints, NEW b \in Tidy(Bar), NEW a \in Tidy(Bar), NEW at,
           Follows(h, b.text, at)
    PROVE  Follows(Emitted(h, b, a), a.text, at)
<1>1. a.text \in Text
  BY DEF Tidy, Bar
<1> QED
  BY <1>1, EmitFollows DEF Emitted

LEMMA ClickedFollows ==
    ASSUME NEW h \in Hints, NEW text, NEW at, Follows(h, text, at)
    PROVE  Follows(clicked(h), text, at)
<1> DEFINE c == [h EXCEPT !.shown = None]
<1>1. /\ c.seen = h.seen /\ c.due = h.due /\ c.latest = h.latest
      /\ c.asked = h.asked /\ c.shown = None
  BY DEF Hints
<1>2. clicked(h) = c
  BY DEF clicked
<1> HIDE DEF c
<1> QED
  BY <1>1, <1>2 DEF Follows

\* A new text or another collection: what was asked before is dropped.
LEMMA AskFollows ==
    ASSUME NEW h \in Hints, NEW b \in Tidy(Bar), NEW text, NEW at \in Place,
           h.seen = None \/ h.seen = Clean[text],
           IF h.due = None THEN h.latest = h.seen ELSE h.due = h.seen,
           (h.latest = None \/ at = None) => h.asked = None /\ h.shown = None
    PROVE  Follows(Ask(h, b, at), text, at)
<1>1. CASE h.latest = None \/ at = None
  BY <1>1 DEF Ask, Follows
<1>2. CASE h.latest = Star /\ (b.standard \/ b.tags = {})
  <2>1. CASE h.latest = None \/ at = None
    BY <1>1, <2>1
  <2>2. CASE ~(h.latest = None \/ at = None)
    <3> DEFINE e == [h EXCEPT !.asked = None, !.shown = None]
    <3>1. /\ e.seen = h.seen /\ e.due = h.due /\ e.latest = h.latest
          /\ e.asked = None /\ e.shown = None
      BY DEF Hints
    <3>2. Ask(h, b, at) = e
      BY <1>2, <2>2 DEF Ask
    <3> HIDE DEF e
    <3> QED
      BY <3>1, <3>2 DEF Follows
  <2> QED
    BY <2>1, <2>2
<1>3. CASE /\ ~(h.latest = None \/ at = None)
           /\ ~(h.latest = Star /\ (b.standard \/ b.tags = {}))
  <2> DEFINE fq == IF b.standard THEN {} ELSE SuggestionFilters(b.tags, b.radios)
             request == [q |-> h.latest, at |-> at, exact |-> b.exact, fq |-> fq]
             e == [h EXCEPT !.asked = request]
  <2>1. request.q = h.latest /\ request.at = at
    OBVIOUS
  <2>4. request # None
    <3>1. b.tags \in SUBSET Tag /\ b.exact \in BOOLEAN
      BY DEF Tidy, Bar
    <3>2. fq \in SUBSET SUBSET Literal
      BY <3>1, FiltersType
    <3>3. h.latest \in Query /\ at \in Collection
      BY <1>3 DEF Hints, Place
    <3>4. request \in Request
      BY <3>1, <3>2, <3>3 DEF Request
    <3> QED
      BY <3>4, NotNone
  <2>2. Ask(h, b, at) = e
    BY <1>3 DEF Ask
  <2> HIDE DEF request
  <2>3. /\ e.seen = h.seen /\ e.due = h.due /\ e.latest = h.latest
        /\ e.asked = request /\ e.shown = h.shown
    BY DEF Hints
  <2> HIDE DEF e
  <2> QED
    BY <1>3, <2>1, <2>2, <2>3, <2>4 DEF Follows
<1> QED
  BY <1>1, <1>2, <1>3

LEMMA KeptFollows ==
    ASSUME NEW u \in Tidy(Address), u.at \in Collection, NEW b \in Tidy(Bar), NEW h \in Hints,
           NEW p, Follows(h, b.text, route.at), Kept(u, b, h, p)
    PROVE  SInv'
<1> DEFINE heard == Heard(b, u.q)
           special == Turns(u) /\ u.at \in SPECIAL_COLLECTIONS
           reset == IF special THEN Reset(heard) ELSE heard
           there == IF special THEN Searched(reset, u.at) ELSE u
           after == Heard(reset, there.q)
           texts == Emitted(h, b, heard)
           asked == IF Turns(u) THEN Ask(texts, reset, u.at) ELSE texts
<1>1. u.q \in Query /\ u.at \in Place /\ u.at # None
  BY ConstantsAssumption DEF Tidy, Address, Place
<1>2. heard \in Tidy(Bar)
  BY <1>1, BarType
<1>3. reset \in Tidy(Bar) /\ reset.text = heard.text
  <2>1. Reset(heard).text = heard.text
    BY <1>2 DEF Reset, Tidy, Bar
  <2> QED
    BY <1>1, <1>2, <2>1, BarType
<1>4. there \in Tidy(Address)
  BY <1>1, <1>3, BarType
<1>5. there.q \in Query
  BY <1>4 DEF Tidy, Address
<1>6. after \in Tidy(Bar)
  BY <1>1, <1>3, <1>5, BarType
<1>7. "" \in Text
  BY ConstantsAssumption
<1>8. texts \in Hints
  BY <1>2, <1>7, HintsType
<1>9. asked \in Hints
  BY <1>1, <1>3, <1>7, <1>8, HintsType
<1>10. Follows(texts, heard.text, route.at)
  BY <1>2, EmittedFollows
<1>11. Follows(asked, reset.text, u.at)
  <2>1. CASE Turns(u)
    <3> HIDE DEF texts, reset, heard
    <3>1. /\ texts.seen = None \/ texts.seen = Clean[reset.text]
          /\ IF texts.due = None THEN texts.latest = texts.seen ELSE texts.due = texts.seen
          /\ texts.latest = None => texts.asked = None /\ texts.shown = None
      BY <1>3, <1>10 DEF Follows
    <3>2. Follows(Ask(texts, reset, u.at), reset.text, u.at)
      BY <1>1, <1>3, <1>8, <3>1, AskFollows
    <3> QED
      BY <2>1, <3>2
  <2>2. CASE ~Turns(u)
    <3>1. u.at = route.at
      BY <2>2 DEF Turns
    <3> QED
      BY <1>3, <1>10, <2>2, <3>1
  <2> QED
    BY <2>1, <2>2
<1>12. Follows(Emitted(asked, reset, after), after.text, u.at)
  <2> HIDE DEF asked, after, reset
  <2> QED
    BY <1>3, <1>6, <1>9, <1>11, EmittedFollows
<1>13. /\ route'.at = u.at
       /\ bar' = after
       /\ hints' = Emitted(asked, reset, after)
  BY DEF Kept
<1> HIDE DEF asked, after, reset
<1> QED
  BY <1>12, <1>13 DEF SInv

LEMMA MadeFollows ==
    ASSUME NEW u \in Tidy(Address), u.at \in Collection, NEW p, Made(u, p)
    PROVE  SInv'
<1> DEFINE heard == Heard(NewBar, u.q)
           there == IF u.at \in SPECIAL_COLLECTIONS THEN Searched(heard, u.at) ELSE u
           read == Snapshot(heard, u)
           after == Heard(read, there.q)
<1>1. u.q \in Query /\ u.at \in Place
  BY DEF Tidy, Address, Place
<1>2. heard \in Tidy(Bar)
  BY <1>1, NewType, BarType
<1>3. there \in Tidy(Address)
  BY <1>1, <1>2, BarType
<1>4. there.q \in Query
  BY <1>3 DEF Tidy, Address
<1>5. read \in Tidy(Bar)
  BY <1>1, <1>2, BarType
<1>6. after \in Tidy(Bar)
  BY <1>1, <1>4, <1>5, BarType
<1>7. /\ bar' = after
      /\ hints' = Emitted(NewHints, read, after)
  BY DEF Made
<1> HIDE DEF after, read
<1>8. Follows(NewHints, read.text, route'.at) /\ NewHints \in Hints
  BY NewFollows, NewType
<1>9. \A at : Follows(NewHints, read.text, at) => Follows(hints', bar'.text, at)
  BY <1>5, <1>6, <1>7, <1>8, EmittedFollows
<1> QED
  BY <1>8, <1>9 DEF SInv

LEMMA ArriveFollows ==
    ASSUME NEW u \in Tidy(Address), NEW b \in Tidy(Bar), NEW h \in Hints,
           NEW p, route \in Route, Follows(h, b.text, route.at), Arrive(u, b, h, p)
    PROVE  SInv'
<1>1. CASE u.at = None
  <2> DEFINE heard == Heard(NewBar, route.q)
  <2>1. route.q \in Query /\ All \in Collection /\ All \in Place
    BY ConstantsAssumption DEF Route, Place
  <2>2. heard \in Tidy(Bar)
    BY <2>1, NewType, BarType
  <2>3. CASE route.at \in SPECIAL_COLLECTIONS
    <3>1. Made(Searched(heard, All), Append(p, u))
      BY <1>1, <2>3 DEF Arrive, Landed
    <3>2. Searched(heard, All) \in Tidy(Address) /\ Searched(heard, All).at \in Collection
      BY <2>1, <2>2, BarType DEF Searched
    <3> QED
      BY <3>1, <3>2, MadeFollows
  <2>4. CASE route.at \notin SPECIAL_COLLECTIONS
    BY <1>1, <2>4, NewFollows DEF Arrive, Landed, SInv
  <2> QED
    BY <2>3, <2>4
<1>2. CASE u.at # None
  <2>1. u.at \in Collection
    BY <1>2 DEF Tidy, Address, Place
  <2>2. Made(u, p) \/ Kept(u, b, h, p)
    BY <1>2 DEF Arrive
  <2> QED
    BY <2>1, <2>2, MadeFollows, KeptFollows
<1> QED
  BY <1>1, <1>2

LEMMA GoToFollows ==
    ASSUME IInv, NEW u \in Tidy(Address), NEW b \in Tidy(Bar), NEW h \in Hints,
           Follows(h, b.text, route.at), GoTo(u, b, h)
    PROVE  SInv'
<1>1. CASE u = url
  BY <1>1 DEF GoTo, SInv
<1>2. CASE u # url
  BY <1>2, ArriveFollows DEF GoTo, IInv
<1> QED
  BY <1>1, <1>2

LEMMA SearchFollows ==
    ASSUME IInv, NEW b \in Tidy(Bar), NEW h \in Hints,
           Follows(h, b.text, route.at), Search(b, h)
    PROVE  SInv'
<1> DEFINE at == IF url.at = None THEN collectionFc ELSE url.at
<1>1. at \in Place
  BY ConstantsAssumption DEF IInv, Tidy, Address, Place, Route, collectionFc
<1>2. Searched(b, at) \in Tidy(Address)
  <2> HIDE DEF at
  <2> QED
    BY <1>1, ConstantsAssumption, BarType, NewType
<1> QED
  BY <1>2, GoToFollows DEF Search

LEMMA GoBackFollows ==
    ASSUME IInv, SInv, GoBack
    PROVE  SInv'
<1> DEFINE u == past[Len(past)]
<1>1. past \in Seq(Tidy(Address)) /\ past # <<>>
  BY DEF IInv, GoBack
<1>2. u \in Tidy(Address)
  BY <1>1
<1>3. Arrive(u, bar, hints, SubSeq(past, 1, Len(past) - 1))
  BY DEF GoBack
<1> HIDE DEF u
<1> QED
  BY <1>2, <1>3, ArriveFollows DEF IInv, SInv

\* The list that the handlers take along, closed or as it is.
LEMMA TakenFollows ==
    ASSUME IInv, SInv
    PROVE  /\ \A h \in {hints, clicked(hints)} : h \in Hints /\ Follows(h, bar.text, route.at)
           /\ \A t \in Text : /\ Emit(hints, t) \in Hints
                              /\ Follows(Emit(hints, t), t, route.at)
                              /\ clicked(Emit(hints, t)) \in Hints
                              /\ Follows(clicked(Emit(hints, t)), t, route.at)
<1>1. hints \in Hints /\ Follows(hints, bar.text, route.at)
  BY DEF IInv, SInv
<1>2. clicked(hints) \in Hints /\ Follows(clicked(hints), bar.text, route.at)
  BY <1>1, ChangedType, ClickedFollows
<1>3. ASSUME NEW t \in Text
      PROVE  /\ Emit(hints, t) \in Hints
             /\ Follows(Emit(hints, t), t, route.at)
             /\ clicked(Emit(hints, t)) \in Hints
             /\ Follows(clicked(Emit(hints, t)), t, route.at)
  <2>1. Emit(hints, t) \in Hints
    BY HintsType DEF IInv
  <2>2. Follows(Emit(hints, t), t, route.at)
    BY <1>1, EmitFollows
  <2> QED
    BY <2>1, <2>2, ChangedType, ClickedFollows
<1> QED
  BY <1>1, <1>2, <1>3

\* A search from a bar whose text stays.
LEMMA SameTextFollows ==
    ASSUME IInv, SInv, NEW b \in Tidy(Bar), b.text = bar.text,
           NEW h \in {hints, clicked(hints)}, Search(b, h)
    PROVE  SInv'
BY TakenFollows, SearchFollows

LEMMA UserFollows ==
    ASSUME IInv, SInv, UserMoves
    PROVE  SInv'
<1>t. bar.text \in Text
  BY DEF IInv, Tidy, Bar
<1>h. hints \in {hints, clicked(hints)} /\ clicked(hints) \in {hints, clicked(hints)}
  OBVIOUS
<1>1. ASSUME NEW t \in Text, Type(t)
      PROVE  SInv'
  <2>1. bar'.text = t /\ hints' = Emit(hints, t) /\ route' = route
    BY <1>1 DEF Type, IInv, Tidy, Bar
  <2> QED
    BY <2>1, TakenFollows DEF SInv
<1>2. CASE SearchNow
  BY <1>2, SameTextFollows DEF SearchNow, IInv
<1>3. CASE clearQuery
  <2>1. "" \in Text
    BY ConstantsAssumption
  <2>2. [bar EXCEPT !.text = ""] \in Tidy(Bar) /\ [bar EXCEPT !.text = ""].text = ""
    BY <2>1, ChangedType DEF IInv, Tidy, Bar
  <2>3. Search([bar EXCEPT !.text = ""], clicked(Emit(hints, "")))
    BY <1>3 DEF clearQuery
  <2> QED
    BY <2>1, <2>2, <2>3, TakenFollows, SearchFollows
<1>4. CASE onCheckboxChange
  <2>1. [bar EXCEPT !.exact = ~@].text = bar.text
    BY DEF IInv, Tidy, Bar
  <2>2. Search([bar EXCEPT !.exact = ~@], clicked(hints))
    BY <1>4 DEF onCheckboxChange
  <2> QED
    BY <1>h, <2>1, <2>2, ChangedType, SameTextFollows
<1>5. CASE Advanced
  <2>1. bar'.text = bar.text /\ hints' = clicked(hints) /\ route' = route
    BY <1>5 DEF Advanced, IInv, Tidy, Bar
  <2> QED
    BY <2>1, TakenFollows DEF SInv
<1>6. CASE Basic
  <2>1. Reset(bar).text = bar.text
    BY DEF Reset, IInv, Tidy, Bar
  <2>2. Search(Reset(bar), clicked(hints))
    BY <1>6 DEF Basic
  <2> QED
    BY <1>h, <2>1, <2>2, ChangedType, SameTextFollows
<1>7. ASSUME NEW kind \in Kind, NEW v \in Value, NarrowDown(kind, v)
      PROVE  SInv'
  <2> DEFINE tag == [kind |-> Written(kind, collectionFc), value |-> v]
  <2>1. tag \in Tag
    BY DEF Tag, Written, Kind
  <2>2. [bar EXCEPT !.tags = @ \cup {tag}] \in Tidy(Bar)
    <3>1. bar.tags \cup {tag} \in SUBSET Tag
      BY <2>1 DEF IInv, Tidy, Bar
    <3>2. [bar EXCEPT !.tags = bar.tags \cup {tag}] \in Tidy(Bar)
      BY <1>7, <3>1, ChangedTags DEF NarrowDown
    <3> QED
      BY <3>2
  <2> HIDE DEF tag
  <2>3. PICK h \in {hints, clicked(hints)} : Search([bar EXCEPT !.tags = @ \cup {tag}], h)
    BY <1>7 DEF NarrowDown, add, tag
  <2>4. [bar EXCEPT !.tags = @ \cup {tag}].text = bar.text
    BY DEF IInv, Tidy, Bar
  <2> QED
    BY <2>2, <2>3, <2>4, SameTextFollows
<1>8. ASSUME NEW tag \in Tag, remove(tag)
      PROVE  SInv'
  <2>1. [bar EXCEPT !.tags = bar.tags \ {tag}] \in Tidy(Bar)
    <3>1. bar.tags \ {tag} \in SUBSET Tag
      BY DEF IInv, Tidy, Bar
    <3> QED
      BY <3>1, ChangedTags
  <2>2. Search([bar EXCEPT !.tags = bar.tags \ {tag}], clicked(hints))
    BY <1>8 DEF remove
  <2>3. [bar EXCEPT !.tags = bar.tags \ {tag}].text = bar.text
    BY DEF IInv, Tidy, Bar
  <2> QED
    BY <1>h, <2>1, <2>2, <2>3, SameTextFollows
<1>9. CASE removeAll
  <2>1. [bar EXCEPT !.tags = {}] \in Tidy(Bar)
    BY ChangedTags
  <2>2. [bar EXCEPT !.tags = {}].text = bar.text
    BY DEF IInv, Tidy, Bar
  <2>3. Search([bar EXCEPT !.tags = {}], clicked(hints))
    BY <1>9 DEF removeAll
  <2> QED
    BY <1>h, <2>1, <2>2, <2>3, SameTextFollows
<1>10. ASSUME NEW s \in Switch, onValueChange(s)
       PROVE  SInv'
  <2> DEFINE turned == [bar EXCEPT !.radios[s] = IF @ = And THEN Or ELSE And]
  <2>1. turned \in Tidy(Bar)
    BY DEF IInv, Tidy, Bar, Radios
  <2>2. Search(turned, clicked(hints))
    BY <1>10 DEF onValueChange
  <2>3. turned.text = bar.text
    BY DEF IInv, Tidy, Bar
  <2> HIDE DEF turned
  <2> QED
    BY <1>h, <2>1, <2>2, <2>3, SameTextFollows
<1>11. ASSUME NEW c \in Collection, SeeAll(c)
       PROVE  SInv'
  <2> DEFINE q == IF bar.text = "" /\ c # url.at THEN Star ELSE bar.text
  <2>1. q \in Query /\ c \in Place
    BY DEF IInv, Tidy, Bar, Query, Place
  <2>2. GoTo(Plain(c, q), bar, clicked(hints))
    BY <1>11 DEF SeeAll
  <2> HIDE DEF q
  <2>3. Plain(c, q) \in Tidy(Address)
    BY <2>1, NewType
  <2>4. bar \in Tidy(Bar)
    BY DEF IInv
  <2> QED
    BY <1>h, <2>2, <2>3, <2>4, TakenFollows, GoToFollows
<1>12. CASE GoToAll
  <2>1. Plain(All, Star) \in Tidy(Address)
    BY NewType, ConstantsAssumption DEF Place, Query
  <2>2. bar \in Tidy(Bar)
    BY DEF IInv
  <2>3. GoTo(Plain(All, Star), bar, clicked(hints))
    BY <1>12 DEF GoToAll
  <2> QED
    BY <1>h, <2>1, <2>2, <2>3, TakenFollows, GoToFollows
<1>13. CASE clearInput
  <2> DEFINE empty == [bar EXCEPT !.text = "", !.tags = IF bar.standard THEN @ ELSE {}]
  <2>1. empty \in Tidy(Bar) /\ empty.text = ""
    BY ConstantsAssumption DEF IInv, Tidy, Bar
  <2>2. GoTo(Plain(url.at, Star), empty, clicked(Emit(hints, "")))
    BY <1>13 DEF clearInput
  <2> HIDE DEF empty
  <2>3. Plain(url.at, Star) \in Tidy(Address)
    <3>1. url.at \in Place /\ Star \in Query
      BY DEF IInv, Tidy, Address, Query
    <3> QED
      BY <3>1, NewType
  <2>4. "" \in Text
    BY ConstantsAssumption
  <2> QED
    BY <2>1, <2>2, <2>3, <2>4, TakenFollows, GoToFollows
<1>14. CASE Back
  BY <1>14, GoBackFollows DEF Back
<1>15. CASE Reload
  <2>1. CASE url.at = None
    BY <1>15, <2>1, NewFollows DEF Reload, SInv
  <2>2. CASE url.at # None
    <3>1. url.at \in Collection
      BY <2>2 DEF IInv, Tidy, Address, Place
    <3>2. Made(url, past)
      BY <1>15, <2>2 DEF Reload
    <3> QED
      BY <3>1, <3>2, MadeFollows DEF IInv
  <2> QED
    BY <2>1, <2>2
<1>16. CASE GoHome
  BY <1>16 DEF GoHome, SInv
<1>17. CASE clearQueryAdv
  <2>1. bar'.text = bar.text /\ hints' = clicked(hints) /\ route' = route
    BY <1>17 DEF clearQueryAdv, IInv, Tidy, Bar
  <2> QED
    BY <2>1, TakenFollows DEF SInv
<1> QED
  BY <1>1, <1>2, <1>3, <1>4, <1>5, <1>6, <1>7, <1>8, <1>9, <1>10, <1>11, <1>12, <1>13,
     <1>14, <1>15, <1>16, <1>17 DEF UserMoves

LEMMA ProgramFollows ==
    ASSUME IInv, SInv, BackHome \/ Debounced \/ Suggested
    PROVE  SInv'
<1>1. CASE BackHome
  BY <1>1, GoBackFollows DEF BackHome
<1>2. CASE Debounced
  <2> DEFINE h == [hints EXCEPT !.latest = hints.due, !.due = None]
  <2>1. h \in Hints
    BY DEF IInv, Hints
  <2>2. /\ h.seen = hints.seen /\ h.due = None /\ h.latest = hints.due
        /\ h.asked = hints.asked /\ h.shown = hints.shown
    BY DEF IInv, Hints
  <2>3. route.at \in Place /\ bar \in Tidy(Bar)
    BY DEF IInv, Route
  <2>4. /\ hints' = Ask(h, bar, route.at) /\ hints.due # None
        /\ bar' = bar /\ route' = route
    BY <1>2 DEF Debounced
  <2> HIDE DEF h
  <2>5. h.latest = h.seen /\ h.latest # None /\ (h.seen = None \/ h.seen = Clean[bar.text])
    BY <2>2, <2>4 DEF SInv, Follows
  <2>6. route.at = None => h.asked = None /\ h.shown = None
    <3>1. /\ hints.asked \in Request \cup {None}
          /\ hints.shown \in Request \cup {None}
      BY DEF IInv, Hints
    <3>2. \A r \in Request : r.at # None
      BY NotNone
    <3>3. route.at = None => hints.asked = None
      BY <3>1, <3>2 DEF SInv, Follows
    <3>4. route.at = None => hints.shown = None
      BY <3>1, <3>2, <3>3 DEF SInv, Follows
    <3> QED
      BY <2>2, <3>3, <3>4
  <2>7. Follows(Ask(h, bar, route.at), bar.text, route.at)
    BY <2>1, <2>2, <2>3, <2>5, <2>6, AskFollows
  <2> QED
    BY <2>4, <2>7 DEF SInv
<1>3. CASE Suggested
  <2>1. PICK shown \in {hints.asked, None} :
          hints' = [hints EXCEPT !.asked = None, !.shown = shown]
    BY <1>3 DEF Suggested
  <2>2. /\ hints'.seen = hints.seen /\ hints'.due = hints.due /\ hints'.latest = hints.latest
        /\ hints'.asked = None /\ hints'.shown = shown
    BY <2>1 DEF IInv, Hints
  <2>3. bar' = bar /\ route' = route
    BY <1>3 DEF Suggested
  <2> QED
    BY <2>1, <2>2, <2>3 DEF SInv, Follows
<1> QED
  BY <1>1, <1>2, <1>3

LEMMA SInvariance == Spec => []SInv
<1>1. Init => SInv
  BY NewFollows DEF Init, SInv
<1>2. IInv /\ SInv /\ [Next]_vars => SInv'
  <2> SUFFICES ASSUME IInv, SInv, [Next]_vars PROVE SInv'
    OBVIOUS
  <2>1. CASE Next
    BY <2>1, UserFollows, ProgramFollows DEF Next
  <2>2. CASE UNCHANGED vars
    BY <2>2 DEF vars, SInv
  <2> QED
    BY <2>1, <2>2
<1> QED
  BY <1>1, <1>2, Invariance, PTL DEF Spec

-----------------------------------------------------------------------------
(* The theorems.                                                           *)

\* Every variable keeps its type (search-input.component.ts,
\* custom-route.service.ts).
THEOREM TypeCorrect == Spec => []TypeOK
<1>1. IInv => TypeOK
  <2>1. Tidy(Address) \subseteq Address /\ Tidy(Bar) \subseteq Bar
    BY DEF Tidy
  <2>2. Seq(Tidy(Address)) \subseteq Seq(Address)
    BY <2>1
  <2> QED
    BY <2>1, <2>2 DEF IInv, TypeOK, Route
<1> QED
  BY <1>1, Invariance, PTL

\* The facets count the results that the page shows, in the collections
\* whose documents have a DOI: the standard search ignores tags that its
\* address never has, and the advanced one makes the same filters of them.
THEOREM FacetsOfTheResults == Spec => []FacetsMatchResults
<1>1. IInv => FacetsMatchResults
  <2> SUFFICES ASSUME IInv, url.at \in doiCollections
               PROVE  Heeded(ResultsFq) = Heeded(FacetsFq)
    BY DEF FacetsMatchResults
  <2>1. CASE url.standard
    <3>1. url.tags = {}
      BY <2>1 DEF IInv, Tidy
    <3>2. Heeded(FacetsFq) = {}
      BY <3>1, NoTagsNoFilters DEF FacetsFq
    <3> QED
      BY <2>1, <3>2 DEF ResultsFq, Heeded
  <2>2. CASE ~url.standard
    BY <2>2, ResultsAsFacets DEF ResultsFq, FacetsFq
  <2> QED
    BY <2>1, <2>2
<1> QED
  BY <1>1, Invariance, PTL
\* A list of suggestions is of the text in the form and of the collection in
\* the store once nothing is awaited, whatever happened while a text was held
\* back or a request was under way (search-input.component.ts).
THEOREM SuggestionsOfTheText == Spec => []SuggestionsFollow
<1>1. IInv /\ SInv => SuggestionsFollow
  <2> SUFFICES ASSUME IInv, SInv, hints.shown # None, hints.due = None, hints.asked = None
               PROVE  hints.shown.q = Clean[bar.text] /\ hints.shown.at = route.at
    BY DEF SuggestionsFollow
  <2>1. hints.latest # None /\ hints.latest = hints.seen
    BY DEF SInv, Follows
  <2> QED
    BY <2>1 DEF SInv, Follows
<1> QED
  BY <1>1, Invariance, SInvariance, PTL
=============================================================================
