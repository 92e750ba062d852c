---------------------------- MODULE SearchFilters ----------------------------
(* The filters of the search page. The address holds them; the tags of the  *)
(* cards, the badges and the widgets of the panel all rewrite it, and each  *)
(* rewriting reads the address into a map of values and writes it back. The *)
(* panel lags behind: every navigation empties its options, a fetch brings  *)
(* new ones, and the widgets are built anew 250 ms after each change.       *)
(* A value is the sequence of its levels ("Engineering>Medical" is <<eng,   *)
(* med>>); dates, years and durations are <<first, last>>, where None is an *)
(* open end. The order of values is left out.                               *)
EXTENDS CollectionCards, QueryFilters

CONSTANTS
    Configs,     \* the type of each filter, by scope and collection (Types)
    Tags,        \* the filters that the tags of a card set (CardTags)
    Places,      \* the scopes and collections to look at
    Answers,     \* by collection: the options a fetch may bring (filter -> values)
    Linked,      \* the filters of an address that someone followed
    Within,      \* pairs of texts, the first a part of the second
    Days,        \* days that a date filter can stand on
    Longest,     \* the longest duration, in hours
    Documents,   \* by collection: the documents in Solr
    Related,     \* providers, data sources, ... whose resources are shown
    None         \* no options have arrived, no panel is built, an open end

VARIABLES
    place,       \* scope, collection, and whether the clock is west of UTC
    configs,     \* the configurations in the store: the type of each filter here
    fq,          \* the filters in the address
    answer,      \* the options of the last fetch
    due,         \* the panel is to be built anew
    panel        \* what is on the screen: see Panel

vars == <<place, configs, fq, answer, due, panel>>

DateTypes == {"date-year", "date-start-end", "date-calendar"}
RangeTypes == DateTypes \union {"date-range", "range"}
CheckboxTypes == {"checkbox-resource-type", "checkbox-status"}

Typed(filters, types) == {f \in DOMAIN filters : filters[f] \in types}

\* The filters that have a type somewhere, whatever the page.
Ever(types) ==
    UNION {Typed(Configs[scope][c], types) : scope \in {"eu", "pl"}, c \in EU_CONTEXT_COLLECTIONS}
RangeFilters == Ever(RangeTypes)

\* The places are pages of the tables; a tag of a card is no range or date, and
\* has a configuration unless the scope leaves its filter out; the filters that
\* the backend rewrites are checkboxes, or have no configuration where it does,
\* and are ranges nowhere.
ASSUME TablesAssumption ==
    /\ Places \subseteq [scope : {"eu", "pl"}, collection : EU_CONTEXT_COLLECTIONS, west : BOOLEAN]
    /\ \A scope \in {"eu", "pl"}, c \in EU_CONTEXT_COLLECTIONS :
          \A f \in Tags[scope][c] \ Excluded(scope, c) : f \in DOMAIN Configs[scope][c]
    /\ \A scope \in {"eu", "pl"}, c \in EU_CONTEXT_COLLECTIONS :
          \A f \in Tags[scope][c] \cap DOMAIN Configs[scope][c] :
             Configs[scope][c][f] \notin RangeTypes
    /\ \A scope \in {"eu", "pl"}, c \in EU_CONTEXT_COLLECTIONS :
          \A f \in DOMAIN Configs[scope][c] \cap Rewritten(c) :
             c # "all_collection" /\ Configs[scope][c][f] \in CheckboxTypes
    /\ \A c \in EU_CONTEXT_COLLECTIONS : Rewritten(c) \cap RangeFilters = {}

\* A filter of dates is one of dates, durations or years on every page that has
\* it, a duration is a duration and a checkbox a checkbox.
ASSUME FamiliesAssumption ==
    \A types \in {RangeTypes, {"range"}, CheckboxTypes} :
       \A scope \in {"eu", "pl"}, c \in EU_CONTEXT_COLLECTIONS :
          \A f \in Ever(types) \cap DOMAIN Configs[scope][c] : Configs[scope][c][f] \in types

ASSUME NumbersAssumption == None \notin Nat /\ Days \in Nat \ {0} /\ Longest \in Nat

\* What a range may be: at least one of its ends is there.
NoDates == <<None, None>>
Ends == Nat \union {None}
Ranges == (Ends \X Ends) \ {NoDates}

\* A fetch brings finitely many options, each of one level or more, for the
\* collections to look at; a range is one; the boxes are those of the lists in
\* the components of checkboxes.
ASSUME AnswersAssumption ==
    /\ {page.collection : page \in Places} \union {"all_collection"} \subseteq DOMAIN Answers
    /\ \A c \in DOMAIN Answers : \A facets \in Answers[c] : \A f \in DOMAIN facets :
          /\ IsFiniteSet(facets[f])
          /\ \A v \in facets[f] : v \in Seq({v[i] : i \in DOMAIN v}) \ {<<>>}
          /\ f \in RangeFilters => facets[f] \subseteq Ranges
          /\ f = "project_status" => facets[f] \subseteq {Ongoing, Closed}
          /\ f = "related_resources" =>
                facets[f] \subseteq {<<type>> : type \in DOMAIN TYPE_TO_FIELD_MAP}

\* A project ends on or after the day it starts.
ASSUME DocumentsAssumption ==
    \A doc \in Documents["project"] : \A days \in Field(doc, "date_range") :
       days \in Nat \X Nat /\ days[1] <= days[2]

Values(map, f) == IF f \in DOMAIN map THEN map[f] ELSE {}
With(map, f, values) == [g \in DOMAIN map \union {f} |-> IF g = f THEN values ELSE map[g]]

-----------------------------------------------------------------------------
(* Reading and writing the address.                                         *)

\* A duration is read without an open start, and dates and years as they are.
RangeSerializer(v) == <<IF v[1] = None THEN 0 ELSE v[1], v[2]>>
\* A duration that was read is written only if its hours have two digits.
RangeDeserializer(values) == {v \in values : v[1] < 100 /\ (v[2] = None \/ v[2] < 100)}

\* A date is read as midnight in UTC and written as the start of the local day,
\* which west of UTC is the day before; here after n turns of the two.
DateDeserializer(values, n) ==
    LET DayBefore(d) == IF d = None THEN None ELSE (d + Days - (n % Days)) % Days
    IN IF place.west THEN {<<DayBefore(v[1]), DayBefore(v[2])>> : v \in values} ELSE values

\* serializeAll: the filters that the collection does not have are dropped.
Serialized(map) ==
    [f \in DOMAIN map \cap DOMAIN configs |->
        IF configs[f] = "range" THEN {RangeSerializer(v) : v \in map[f]} ELSE map[f]]

\* Mutant: dates of the collection are lost.
deserializeUndated(f, values, n) ==
    IF configs[f] \in DateTypes THEN {}
    ELSE IF configs[f] = "range" THEN RangeDeserializer(values) ELSE values
\* What deserialize makes of the values of a filter, read and written n times.
deserialize(f, values, n) ==
    IF configs[f] \in DateTypes THEN DateDeserializer(values, n)
    ELSE IF configs[f] = "range" THEN RangeDeserializer(values) ELSE values

\* Mutant: a filter without values stays in the address.
DeserializedEmptied(map, n) ==
    [f \in DOMAIN map \cap DOMAIN configs |-> deserialize(f, map[f], n)]
\* deserializeAll: filters without values are left out.
Deserialized(map, n) ==
    LET written == [f \in DOMAIN map \cap DOMAIN configs |-> deserialize(f, map[f], n)]
    IN Restrict(written, {f \in DOMAIN written : written[f] # {}})

Plain(v) == Len(v) = 1
Includes(v, text) == \E i \in DOMAIN v : v[i] = text \/ <<text, v[i]>> \in Within
OfRoot(values, v) == {e \in values : Includes(e, v[1])}

\* One turn of removeFilterValueTree. An option below another one goes only
\* with its last sibling, and then leaves its own value behind.
removeFilterValueTree(old, options, v) ==
    LET left == old \ {v}
        kept == left \intersect options
    IN IF Plain(v) THEN old \ OfRoot(old, v)
       ELSE IF \A e \in left : Plain(e) THEN {}
       ELSE IF Cardinality(OfRoot(left, v)) = 1 THEN old \ {<<v[1]>>}
       ELSE IF Cardinality(OfRoot(kept, v)) = 1 THEN kept \ {<<v[1]>>} ELSE kept

removeFilterValue(map, f, v) == Deserialized(With(map, f, Values(map, f) \ {v}), 1)
\* Mutant: a value that is chosen already is taken out.
addFilterValueToggled(map, f, v) == Deserialized(With(map, f, SymDiff(Values(map, f), {v})), 1)
addFilterValue(map, f, v) == Deserialized(With(map, f, Values(map, f) \union {v}), 1)

\* toggleActive of a tree: options of filter f that were unticked, in order, and
\* options that were ticked. The address is written after each of the latter.
toggleActive(f, options, unticked, ticked) ==
    LET known == Serialized(fq)
        left[n \in 0..Len(unticked)] ==
            IF n = 0 THEN Values(known, f)
            ELSE removeFilterValueTree(left[n - 1], options, unticked[n])
    IN Deserialized(With(known, f, left[Len(unticked)] \union ticked), 2 + Cardinality(ticked))

-----------------------------------------------------------------------------
(* The panel: the widgets for dates and names, the options it had then and   *)
(* those that were chosen then, the options ticked in the trees, the boxes  *)
(* that are checked, and whether the range widget is still to report.       *)

EmptyPanel == [widgets |-> <<>>, offered |-> None, chosen |-> <<>>, ticks |-> <<>>,
               boxes |-> <<>>, echo |-> FALSE]
Widgets == Restrict(configs, Typed(configs, RangeTypes \union {"dropdown"}))
\* Mutant: the checkboxes are not made anew.
NewPanelKeepsBoxes ==
    [widgets |-> Widgets, offered |-> answer, chosen |-> <<>>, ticks |-> <<>>,
     boxes |-> [f \in Typed(configs, CheckboxTypes) |->
                   IF f \in DOMAIN panel.boxes THEN panel.boxes[f] ELSE Values(fq, f)],
     echo |-> Typed(configs, {"range"}) # {}]
NewPanel ==
    LET chosen == [f \in Typed(configs, {"multiselect", "dropdown"}) |->
                      IF answer = None THEN {} ELSE Values(fq, f) \intersect Values(answer, f)]
    IN [widgets |-> Widgets, offered |-> answer, chosen |-> chosen,
        ticks |-> Restrict(chosen, Typed(configs, {"multiselect"})),
        boxes |-> [f \in Typed(configs, CheckboxTypes) |-> Values(fq, f)],
        echo |-> Typed(configs, {"range"}) # {}]

Options(f) == IF panel.offered = None THEN {} ELSE Values(panel.offered, f)

\* A checkbox is flipped, whatever its state, each time the address changes.
updateCheckbox(boxes, filters) == [f \in DOMAIN boxes |-> SymDiff(boxes[f], Values(filters, f))]

\* FiltersConfigsRepository: the tables of the scope, less the excluded filters.
setScope(page) == Configs[page.scope][page.collection]

\* Every navigation empties the options, and new ones are fetched.
Goto(page, filters, p) ==
    /\ place' = page /\ configs' = setScope(page)
    /\ fq' = filters /\ answer' = None /\ due' = TRUE
    /\ panel' = [p EXCEPT !.boxes = updateCheckbox(@, filters)]

\* Mutant: it is a navigation like any other.
NavigateAgain(filters, p) == Goto(place, filters, p)
\* To go to the address that the page is already at is no navigation.
Navigate(filters, p) ==
    IF filters = fq THEN panel' = p /\ UNCHANGED <<place, configs, fq, answer, due>>
    ELSE Goto(place, filters, p)

\* What the documents of a collection have, and what any document has.
AnyAnswer == UNION {Answers[c] : c \in DOMAIN Answers}
Filters == UNION {DOMAIN facets : facets \in AnyAnswer}
Has == [c \in DOMAIN Answers |-> [f \in Filters |-> UNION {Values(a, f) : a \in Answers[c]}]]
Offered == [f \in Filters |-> UNION {Values(a, f) : a \in AnyAnswer}]

\* The resources of a provider, data source, organisation or catalogue.
fqDict ==
    [provider |-> {"providers", "resource_organisation"}, data_source |-> {"datasource_pids"},
     organisation |-> {"related_organisation_titles"}, catalogue |-> {"catalogue"}]
LinkFilters == UNION {fqDict[c] : c \in DOMAIN fqDict}

\* The values that a filter of the address can have.
Legal(f) ==
    IF f \in RangeFilters THEN Ranges
    ELSE Values(Offered, f) \union (IF f \in LinkFilters THEN Related ELSE {})

\* An address that someone followed is one that the pages write.
ASSUME LinkedAssumption ==
    /\ LinkFilters \cap (RangeFilters \union Ever(CheckboxTypes)) = {}
    /\ \A filters \in Linked : \A f \in DOMAIN filters :
          filters[f] # {} /\ filters[f] \subseteq Legal(f)

-----------------------------------------------------------------------------
(* What is asked for and found. Dates, years and durations reach Solr as    *)
(* they are: they are left out here, and the documents are those that they  *)
(* let through.                                                             *)

\* A filter of the kind "tag" is written once for each value.
Written(f, values) ==
    IF f \in Typed(configs, {"tag"}) THEN {Terms(f, {v}) : v \in values} ELSE {Terms(f, values)}
Sent(filters) ==
    UNION {Written(f, filters[f]) : f \in DOMAIN filters \ Typed(configs, RangeTypes)}

Results(filters) == Found(Documents[place.collection], search(place.collection, filters))
OptionsOf(f) == UNION {Field(doc, f) : doc \in Results(facetFilters(Sent(fq), f))}

-----------------------------------------------------------------------------
(* What the user does.                                                      *)

\* A tag of a card.
ClickTag(f, v) ==
    /\ answer # None /\ v \in Has[place.collection][f]
    /\ f \in Tags[place.scope][place.collection]
    /\ Navigate(addFilterValue(Serialized(fq), f, v), panel)

Under(f, v) == {w \in Options(f) : Len(w) > Len(v) /\ SubSeq(w, 1, Len(v)) = v}
\* The nodes of a tree are the options and all levels above them.
InTree(f, v) == v \in Options(f) \/ Under(f, v) # {}

\* An option above v is ticked if and only if all those below it are.
checkAllParentsSelection(f, ticks, v) ==
    LET parents == {SubSeq(v, 1, n) : n \in 1..(Len(v) - 1)}
    IN (ticks \ parents) \union {p \in parents : Under(f, p) \ parents \subseteq ticks}

\* leafItemSelectionToggle, and itemSelectionToggle where there are options
\* below: they are ticked and unticked with it.
Tick(f, v) ==
    LET nodes == {v} \union Under(f, v)
        on == v \notin panel.ticks[f]
        ticks == IF on THEN panel.ticks[f] \union nodes ELSE panel.ticks[f] \ nodes
        unticked == IF on THEN <<>> ELSE <<v>> \o SetToSeq(nodes \ {v})
    IN /\ f \in DOMAIN panel.ticks /\ v \in Options(f)
       /\ Navigate(toggleActive(f, Options(f), unticked, IF on THEN nodes ELSE {}),
                   [panel EXCEPT !.ticks[f] = checkAllParentsSelection(f, ticks, v)])

\* The nodes of a tree are built anew when the user types in its search box or
\* asks for more: each option that was chosen is flipped and reported, and the
\* last report counts. Only a flat list keeps its nodes, which are then unticked;
\* so may any list of more than ten roots while it is scrolled, and those are
\* left out (what the address becomes is what Tick makes of it).
FlatLists == {"publisher", "related_organisation_titles"}
Rebuild(f, last, fresh) ==
    LET chosen == Values(panel.chosen, f)
        ticks == IF fresh THEN chosen ELSE SymDiff(panel.ticks[f], chosen)
    IN /\ f \in DOMAIN panel.ticks /\ last \in chosen
       /\ fresh \/ f \in FlatLists
       /\ Navigate(IF last \in ticks THEN toggleActive(f, Options(f), <<>>, {last})
                                     ELSE toggleActive(f, Options(f), <<last>>, {}),
                   [panel EXCEPT !.ticks[f] = ticks])

\* The dropdown has one entry for all options of a name. A change of the entries
\* that are chosen removes every option that is not one of them.
Name(f, v) == IF f = "datasource_pids" THEN transformDataSourceNames(v[1]) ELSE v[1]
Entries(f) ==
    {CHOOSE v \in Options(f) : Name(f, v) = name : name \in {Name(f, v) : v \in Options(f)}}
Dropdown(f, v) ==
    LET entries == SymDiff(Entries(f) \intersect Values(panel.chosen, f), {v})
        known == Serialized(fq)
    IN /\ f \in Typed(panel.widgets, {"dropdown"}) /\ v \in Entries(f)
       /\ Navigate(Deserialized(With(known, f, (Values(known, f) \ Options(f)) \union entries),
                                1 + Cardinality(Options(f))), panel)

\* Dates, years or a duration: what the widget holds is written as it is.
Replaced(f, values) ==
    LET others == Deserialized(Serialized(fq), 1)
        filters == With(others, f, values \ {NoDates})
    IN Restrict(filters, {g \in DOMAIN filters : filters[g] # {}})
replaceRange(f, v) == f \in DOMAIN configs /\ Navigate(Replaced(f, {v}), panel)

\* The years of a project, a year of publication, the years between two dates; a
\* widget that is emptied has no dates.
DatesOf(f) == Has[place.collection][f] \union {NoDates}
ChangeYears(f, v) == f \in Typed(panel.widgets, {"date-range"}) /\ v \in DatesOf(f) /\ replaceRange(f, v)
ChangeYear(f, v) == f \in Typed(panel.widgets, {"date-year"}) /\ v \in DatesOf(f) /\ replaceRange(f, v)
ChangeStartEnd(f, v) ==
    f \in Typed(panel.widgets, {"date-start-end"}) /\ v \in DatesOf(f) /\ replaceRange(f, v)

\* Of the two calendars one is changed; the other shows what the address holds.
ChangeCalendar(f, v) ==
    LET shown == DateDeserializer(IF Values(fq, f) = {} THEN {NoDates} ELSE fq[f], 1)
    IN /\ f \in Typed(panel.widgets, {"date-calendar"}) /\ v \in DatesOf(f)
       /\ \E w \in shown : \E changed \in {<<v[1], w[2]>>, <<w[1], v[2]>>} :
             /\ None \notin {changed[1], changed[2]} => changed[1] <= changed[2]
             /\ replaceRange(f, changed)

\* The slider: an end that stands at the edge is an open end.
AtSlider(v) ==
    <<IF v[1] = 0 THEN None ELSE v[1],
      IF v[2] = None THEN None ELSE IF v[2] >= Longest THEN None ELSE v[2]>>
MoveSlider(f, v) ==
    /\ f \in Typed(panel.widgets, {"range"}) /\ f \in DOMAIN configs
    /\ v \in Has[place.collection][f]
    /\ Navigate(Replaced(f, {AtSlider(v)}), [panel EXCEPT !.echo = FALSE])

\* A checkbox: an unchecked value takes along the values that it is a part of.
CheckBox(f, v) ==
    LET known == Serialized(fq)
        values == IF v \in panel.boxes[f]
                  THEN Values(known, f) \ OfRoot(Values(known, f), v)
                  ELSE Values(known, f) \union {v}
    IN /\ f \in DOMAIN panel.boxes
       /\ Navigate(Deserialized(With(known, f, values), 2),
                   [panel EXCEPT !.boxes[f] = SymDiff(@, {v})])

\* The label of a tree, a badge above the results, and the button beside it.
resetAllActiveEntities(f) ==
    /\ Values(panel.chosen, f) # {}
    /\ Navigate(Restrict(fq, DOMAIN fq \ {f}), panel)
RemoveBadge(f, v) ==
    /\ Navigate(removeFilterValue(Serialized(fq), f, v), panel)
clearAll == Navigate(<<>>, panel)

\* The search words, the sort order or the cursor change, and nothing else.
OtherParams == Goto(place, fq, panel)

\* Other pages: a collection of the search bar, the trail of labels, and the
\* resources of a provider, data source, organisation or catalogue.
Page(scope, collection) == [place EXCEPT !.scope = scope, !.collection = collection]
setCollection(collection) ==
    /\ collection # place.collection
    /\ Goto(Page(place.scope, collection), <<>>, panel)
Breadcrumb ==
    /\ Len(NAV_CONFIGS[place.collection].breadcrumbs) > 1
    /\ Goto(Page("pl", "all_collection"), <<>>, panel)

ShowRelated(v) ==
    /\ answer # None /\ place.collection \in DOMAIN fqDict
    /\ Goto(Page("pl", "all_collection"), [f \in fqDict[place.collection] |-> {v}],
            EmptyPanel)

-----------------------------------------------------------------------------
(* What the program does.                                                   *)

\* The options of the filters that have a widget; the backend counts none for
\* the checkboxes, and a dropdown of catalogues does not offer them all.
Nodes(facets) ==
    [f \in DOMAIN facets \cap (DOMAIN configs \ Typed(configs, {"tag"} \union CheckboxTypes)) |->
        IF f = "catalogue" /\ configs[f] = "dropdown"
        THEN transformCatalogueNames(facets[f]) ELSE facets[f]]
fetchFilters ==
    /\ answer = None
    /\ answer' \in {Nodes(facets) : facets \in Answers[place.collection]}
    /\ due' = TRUE
    /\ UNCHANGED <<place, configs, fq, panel>>

\* The widgets are built, and a tree reports every option that is chosen: the
\* address is written again, with three turns of reading and writing.
Render ==
    LET written == Deserialized(Serialized(fq), 3)
        reports == \E f \in DOMAIN NewPanel.ticks : NewPanel.ticks[f] # {}
    IN /\ due
       /\ IF reports /\ written # fq THEN Goto(place, written, NewPanel)
          ELSE due' = FALSE /\ panel' = NewPanel /\ UNCHANGED <<place, configs, fq, answer>>

\* The slider writes the value it was given, a second after it is built.
RangeEcho ==
    /\ panel.echo
    /\ \E f \in Typed(panel.widgets, {"range"}) :
          Navigate(IF f \in DOMAIN configs
                   THEN Replaced(f, {AtSlider(v) : v \in Values(Serialized(fq), f)})
                   ELSE Deserialized(Serialized(fq), 1),
                   [panel EXCEPT !.echo = FALSE])

-----------------------------------------------------------------------------
Init ==
    /\ place \in Places /\ configs = setScope(place) /\ fq \in Linked
    /\ answer = None /\ due = TRUE /\ panel = EmptyPanel

\* The user acts on the filter f.
ActsOn(f) ==
    \/ resetAllActiveEntities(f)
    \/ \E v \in Values(Serialized(fq), f) : RemoveBadge(f, v)
    \/ \E v \in Offered[f] \union {NoDates} :
          \/ ChangeYears(f, v) \/ ChangeYear(f, v) \/ ChangeStartEnd(f, v)
          \/ ChangeCalendar(f, v)
    \/ \E v \in Offered[f] :
          \/ ClickTag(f, v) \/ Tick(f, v) \/ Dropdown(f, v) \/ CheckBox(f, v)
          \/ MoveSlider(f, v)
          \/ \E fresh \in BOOLEAN : Rebuild(f, v, fresh)
Leaves ==
    \/ \E page \in Places : page.scope = place.scope /\ setCollection(page.collection)
    \/ Breadcrumb
    \/ \E v \in Related : ShowRelated(v)
Program == fetchFilters \/ Render \/ RangeEcho
Next == (\E f \in Filters : ActsOn(f)) \/ clearAll \/ OtherParams \/ Leaves \/ Program

Spec == Init /\ [][Next]_vars
FairSpec == Spec /\ WF_vars(Program)

-----------------------------------------------------------------------------
(* Properties.                                                              *)

Resting == answer # None /\ ~due /\ ~panel.echo

\* The address holds only filters with values that they can have, and what is
\* ticked and checked in the panel is there to be ticked and checked.
TypeOK ==
    /\ place \in [scope : {"eu", "pl"}, collection : EU_CONTEXT_COLLECTIONS, west : BOOLEAN]
    /\ \A f \in DOMAIN fq : fq[f] # {} /\ fq[f] \subseteq Legal(f)
    /\ answer = None \/ \A f \in DOMAIN answer : answer[f] \subseteq Values(Offered, f)
    /\ due \in BOOLEAN
    /\ configs = setScope(place)
    /\ \A f \in DOMAIN panel.ticks : \A v \in panel.ticks[f] : InTree(f, v)
    /\ \A f \in DOMAIN panel.boxes : panel.boxes[f] \subseteq Values(Offered, f)

\* A click on a tag of a card narrows the search to its value (result.component
\* setActiveFilter), unless the scope leaves the filter of the tag out.
TagNarrows ==
    [][\A f \in Tags[place.scope][place.collection] \cap DOMAIN Offered :
          f \notin Excluded(place.scope, place.collection) =>
             \A v \in Offered[f] : v \in Values(fq', f) \/ ~ClickTag(f, v)]_vars

\* Rewriting the address changes the values of one filter and keeps those of all
\* the others, and what the widgets write by themselves changes none. Only dates
\* may move, where the clock is west of UTC, and durations of 100 hours or more, or
\* as long as the longest, or without any bound.
OthersAreKept ==
    [][LET before == Serialized(fq)
           after == Serialized(fq')
           Unsteady(f) ==
               \/ place.west /\ configs[f] \in DateTypes
               \/ configs[f] = "range" /\ \E v \in Values(before, f) :
                     RangeDeserializer({v}) = {} \/ AtSlider(v) = NoDates \/ AtSlider(v)[2] # v[2]
           moved == {f \in DOMAIN before \union DOMAIN after :
                        Values(after, f) # Values(before, f) /\ ~Unsteady(f)}
       IN fq' \notin {fq, <<>>} /\ place' = place =>
             Cardinality(moved) = IF moved = {} \/ Program THEN 0 ELSE 1]_vars

\* At rest the panel tells what the address asks for: an option at the end of a
\* branch is ticked only if its value is in the address, and a box is checked if
\* and only if its value is.
PanelAgrees ==
    Resting =>
        /\ \A f \in DOMAIN panel.ticks : \A v \in panel.ticks[f] :
              Under(f, v) = {} => v \in Values(fq, f)
        /\ \A f \in DOMAIN panel.boxes : panel.boxes[f] = Values(fq, f)

\* A project is open from its first to its last day and closed afterwards; of the
\* kinds of related resources, and of the values of any widget, one is enough,
\* and tags must all be there.
HasStatus(doc, v) ==
    \E days \in Field(doc, "date_range") :
       IF v = Ongoing THEN Today \in days[1]..days[2] ELSE days[2] < Today
Satisfies(doc, f, values) ==
    CASE f = "project_status" /\ place.collection = "project" ->
            \E v \in values : HasStatus(doc, v)
      [] f = "related_resources" /\ place.collection = "organisation" ->
            \E v \in values : Field(doc, TYPE_TO_FIELD_MAP[v[1]]) # {}
      [] f \in Typed(configs, {"tag"}) -> values \subseteq Field(doc, f)
      [] OTHER -> values \cap Field(doc, f) # {}

\* The documents found are those that satisfy each filter in the address; of a
\* provider's two filters on the page of all collections one is enough
\* (solr/utils.py), and each set of values that the page writes can be parsed.
FoundAsAsked ==
    LET asked == DOMAIN fq \ Typed(configs, RangeTypes)
        either == IF place.collection = "all_collection"
                  THEN asked \cap Rewritten("all_collection") ELSE {}
    IN /\ Parsable(place.collection, Sent(fq))
       /\ Results(Sent(fq)) =
            {doc \in Documents[place.collection] :
               /\ \A f \in asked \ either : Satisfies(doc, f, fq[f])
               /\ either # {} => \E f \in either : Satisfies(doc, f, fq[f])}

\* Every option that is counted for a filter finds a document when it is chosen,
\* and every value that would find one is counted (_search of search_filters.py).
\* Filters that the collection does not have, which a choice drops, aside.
OptionsFindResults ==
    \A f \in Typed(configs, {"multiselect", "dropdown"}) :
       LET finds(v) == \E doc \in Results(Sent(addFilterValue(Serialized(fq), f, v))) :
                          v \in Field(doc, f)
           values == UNION {Field(doc, f) : doc \in Documents[place.collection]}
       IN /\ \A v \in OptionsOf(f) : finds(v)
          /\ DOMAIN fq \subseteq DOMAIN configs =>
                \A v \in values : finds(v) => v \in OptionsOf(f)

\* Once the user stops, the panel comes to rest: what the widgets write by
\* themselves does not go on for ever, at or east of UTC, unless a duration has an
\* open start, which the trees write as 0 and the slider as open again.
OpenStart == \E f \in Typed(configs, {"range"}) : \E v \in Values(fq, f) : v[1] = None
Settles == ~place.west /\ <>[][Program]_vars => <>[]Resting \/ []<>OpenStart
=============================================================================
