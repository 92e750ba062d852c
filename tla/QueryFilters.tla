---------------------------- MODULE QueryFilters ----------------------------
(* What the backend makes of the filters of a request before it asks Solr,  *)
(* and what Solr then finds. A filter is a field, an operation and values;  *)
(* a query is a set of filters of which one must match, and all queries of  *)
(* a request must. A document is a function from its fields to sets of      *)
(* values; a range of days is <<first, last>>.                              *)
EXTENDS Naturals

CONSTANT Today   \* the day of the request; day 0 is before all others
ASSUME TodayAssumption == Today \in Nat \ {0}

Terms(field, values) == [field |-> field, op |-> "Terms", values |-> values]
DateRange(op, first, last) == [field |-> "date_range", op |-> op, values |-> {<<first, last>>}]
Present(field) == [field |-> field, op |-> "Present", values |-> {}]

Yesterday == Today - 1
Ongoing == <<"ongoing">>
Closed == <<"closed">>

\* Mutant: a project that ends today is closed.
STATUS_TO_DATE_RANGE_MAP_Today(values) ==
    CASE values = {Ongoing} -> DateRange("Contains", Today, Today)
      [] values = {Closed} -> DateRange("Within", 0, Today)
      [] values = {Ongoing, Closed} -> DateRange("Intersects", 0, Today)
STATUS_TO_DATE_RANGE_MAP(values) ==
    CASE values = {Ongoing} -> DateRange("Contains", Today, Today)
      [] values = {Closed} -> DateRange("Within", 0, Yesterday)
      [] values = {Ongoing, Closed} -> DateRange("Intersects", 0, Today)

TYPE_TO_FIELD_MAP ==
    [software |-> "related_software_ids", publication |-> "related_publication_ids",
     dataset |-> "related_dataset_ids", other |-> "related_other_ids"]

\* The filters that are rewritten in a collection.
Rewritten(collection) ==
    CASE collection = "all_collection" -> {"providers", "resource_organisation"}
      [] collection = "project" -> {"project_status"}
      [] collection = "organisation" -> {"related_resources"}
      [] OTHER -> {}

Each(fq) == {{filter} : filter \in fq}
About(fq, fields) == {filter \in fq : filter.field \in fields}

\* The filters of providers are joined by OR, the others by AND.
parse_providers_filters(fq) ==
    LET providers_fq == About(fq, {"providers", "resource_organisation"})
    IN Each(fq \ providers_fq) \union {providers_fq}

parse_project_filters(fq) ==
    LET status_fq == About(fq, {"project_status"})
        filter == CHOOSE filter \in status_fq : TRUE
    IN IF status_fq = {} THEN Each(fq)
       ELSE Each(fq \ status_fq) \union {{STATUS_TO_DATE_RANGE_MAP(filter.values)}}

parse_organisation_filters(fq) ==
    LET type_fq == About(fq, {"related_resources"})
        filter == CHOOSE filter \in type_fq : TRUE
    IN IF type_fq = {} THEN Each(fq)
       ELSE Each(fq \ type_fq)
            \union {{Present(TYPE_TO_FIELD_MAP[v[1]]) : v \in filter.values}}

\* The tables of a status or type that is not in them raise a KeyError.
Parsable(collection, fq) ==
    /\ collection = "project" =>
          \A filter \in About(fq, {"project_status"}) :
             filter.values \in {{Ongoing}, {Closed}, {Ongoing, Closed}}
    /\ collection = "organisation" =>
          \A filter \in About(fq, {"related_resources"}) :
             filter.values \subseteq {<<type>> : type \in DOMAIN TYPE_TO_FIELD_MAP}

\* search: the queries of a request. The test of fq[0] is one for a filter of
\* providers: it is the first of the link that sets it, and no other way of
\* the page puts one before it.
search(collection, fq) ==
    IF collection = "all_collection" /\ About(fq, {"providers"}) # {}
    THEN parse_providers_filters(fq)
    ELSE IF collection = "project" THEN parse_project_filters(fq)
    ELSE IF collection = "organisation" THEN parse_organisation_filters(fq)
    ELSE Each(fq)

\* Mutant: the options of a filter are counted without any filter.
facetFiltersNone(fq, key) == {}
\* _search of search_filters.py: the options of a filter are counted without it.
facetFilters(fq, key) == {filter \in fq : filter.field # key}

-----------------------------------------------------------------------------
(* Solr.                                                                    *)

Field(doc, field) == IF field \in DOMAIN doc THEN doc[field] ELSE {}

Matches(doc, filter) ==
    LET has == Field(doc, filter.field)
        values == filter.values
    IN CASE filter.op = "Terms" -> has \cap values # {}
         [] filter.op = "Present" -> has # {}
         [] filter.op = "Contains" -> \E r \in has, v \in values : r[1] <= v[1] /\ v[2] <= r[2]
         [] filter.op = "Within" -> \E r \in has, v \in values : v[1] <= r[1] /\ r[2] <= v[2]
         [] filter.op = "Intersects" -> \E r \in has, v \in values : r[1] <= v[2] /\ v[1] <= r[2]

Found(docs, queries) ==
    {doc \in docs : \A query \in queries : \E filter \in query : Matches(doc, filter)}
=============================================================================
