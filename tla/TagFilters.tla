----------------------------- MODULE TagFilters ----------------------------
(***************************************************************************)
(* The tags of the advanced search and the filters they become.            *)
(*                                                                         *)
(* The text of a tag is turned into filters in three places that were      *)
(* written apart: for the results of the page (pages/search-page/utils.ts),*)
(* for the facets beside them (custom-route.utils.ts) and for the          *)
(* suggestions under the search bar (search-input.service.ts).             *)
(*                                                                         *)
(* A literal asks one field for a phrase, or for its absence; a filter is  *)
(* the set of the literals that are joined by OR; the filters of a request *)
(* are a set too, as Solr takes them all and repeating one changes         *)
(* nothing.  The empty filter is the empty text among the filters.         *)
(***************************************************************************)
CONSTANTS
    Value,  \* what is written after the colon of a tag
    Orders  \* Orders[v]: the phrases made by reordering the words of v

ASSUME OrdersAssumption == Orders \in [Value -> (SUBSET Value) \ {{}}]

Kind == {"author", "exact", "in title", "keyword", "tagged", "doi", "none of"}

Tag == [kind : Kind, value : Value]

\* The four switches between And and Or.
Switch == {"author", "exact", "in title", "keyword"}

And == "A"
Or == "B"

Radios == [Switch -> {And, Or}]

Field == {"title", "author_names_tg", "description", "keywords_tg", "doi"}

Literal == [field : Field, phrase : Value, holds : BOOLEAN]

Has(f, v) == [field |-> f, phrase |-> v, holds |-> TRUE]
Lacks(f, v) == [field |-> f, phrase |-> v, holds |-> FALSE]

-----------------------------------------------------------------------------
(* What one tag stands for.                                                *)

\* The words of an author's name are searched in every order.
AuthorFilter(v) == {Has("author_names_tg", o) : o \in Orders[v]}

ExactFilter(v, fields) == {Has(f, v) : f \in fields}

NoneOfFilters(v, fields) == {{Lacks(f, v)} : f \in fields}

OneFilter(f, v) == {Has(f, v)}

Values(tags, kind) == {t.value : t \in {u \in tags : u.kind = kind}}

Authors(tags) == {AuthorFilter(v) : v \in Values(tags, "author")}
Exacts(tags, fields) == {ExactFilter(v, fields) : v \in Values(tags, "exact")}
NoneOf(tags, fields) == UNION {NoneOfFilters(v, fields) : v \in Values(tags, "none of")}
Titles(tags) == {OneFilter("title", v) : v \in Values(tags, "in title")}
Keywords(tags) == {OneFilter("keywords_tg", v) : v \in Values(tags, "keyword")}
Dois(tags) == {OneFilter("doi", v) : v \in Values(tags, "doi")}

\* The filters of one switch: Or makes a single one of them, and an empty
\* one when there is none to make it of.
Joined(filters, radio) == IF radio = Or THEN {UNION filters} ELSE filters

\* Two tags with a DOI or more are always joined; a single one stays itself.
Merged(filters) == IF filters = {} THEN {} ELSE {UNION filters}

-----------------------------------------------------------------------------
(* The three translations.                                                 *)

doiCollections == {"all_collection", "publication", "software", "dataset", "other"}

\* The fields that exact and none of look at, for the results.
ResultFields(collection) ==
    IF collection \in doiCollections THEN Field ELSE Field \ {"doi"}

AdvancedFilters(collection, tags, radios) ==
    LET people == IF collection = "provider" THEN {} ELSE Authors(tags)
        words == IF collection = "provider" THEN {} ELSE Keywords(tags)
        fields == ResultFields(collection)
    IN  Joined(people, radios["author"])
            \cup Joined(Exacts(tags, fields), radios["exact"])
            \cup NoneOf(tags, fields)
            \cup Joined(Titles(tags), radios["in title"])
            \cup Merged(Dois(tags))
            \cup Joined(words, radios["keyword"])

getFiltersFromTags(tags, radios) ==
    Joined(Authors(tags), radios["author"])
        \cup Joined(Exacts(tags, Field), radios["exact"])
        \cup NoneOf(tags, Field)
        \cup Joined(Titles(tags), radios["in title"])
        \cup Merged(Dois(tags))
        \cup Joined(Keywords(tags), radios["keyword"])

\* For the suggestions a DOI follows the switch of the titles.
SuggestionFilters(tags, radios) ==
    Joined(Authors(tags), radios["author"])
        \cup Joined(Exacts(tags, Field), radios["exact"])
        \cup NoneOf(tags, Field)
        \cup Joined(Titles(tags) \cup Dois(tags), radios["in title"])
        \cup Joined(Keywords(tags), radios["keyword"])

\* Solr passes over a filter without text.
Heeded(filters) == filters \ {{}}
=============================================================================
