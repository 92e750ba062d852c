-------------------------- MODULE CollectionFilters --------------------------
(* The filters of the collections: data/*/filters.data.ts, the filters that *)
(* are excluded in a scope, and the repository that hands them out. A       *)
(* filter is its name and the type of its widget; labels, tooltips and the  *)
(* order of the options are left out. The order of the filters is kept,     *)
(* because the first entry of a name decides how its values are written.    *)
EXTENDS Naturals, Sequences, FiniteSets, SequencesExt

Of(type, filters) ==
    [i \in 1..Len(filters) |-> [filter |-> filters[i], type |-> type]]

allCollectionsFilters ==
    Of("multiselect", <<"catalogue", "type", "publisher", "license",
                        "language">>)
    \o Of("tag", <<"publisher", "keywords">>)

publicationsFilters ==
    Of("dropdown", <<"datasource_pids">>)
    \o Of("multiselect", <<"node", "unified_categories", "best_access_right",
                            "document_type", "scientific_domains", "eosc_if">>)
    \o Of("date-year", <<"publication_date">>)
    \o Of("multiselect", <<"country", "language", "publisher",
                           "research_community",
                            "funder", "sdg">>)
    \o Of("tag", <<"author_names", "node", "license", "keywords", "pids",
                   "eosc_if">>)

datasetsFilters ==
    Of("dropdown", <<"datasource_pids">>)
    \o Of("multiselect", <<"node", "unified_categories", "best_access_right",
                            "document_type", "scientific_domains",
                            "technologies", "publisher", "funder",
                            "eosc_if", "license">>)
    \o Of("date-year", <<"publication_date">>)
    \o Of("multiselect", <<"country", "language", "research_community", "sdg">>)
    \o Of("tag", <<"node", "publisher", "author_names", "pids", "eosc_if",
                   "keywords">>)

softwareFilters ==
    Of("dropdown", <<"datasource_pids">>)
    \o Of("multiselect", <<"node", "unified_categories", "best_access_right",
                            "document_type", "scientific_domains", "eosc_if">>)
    \o Of("date-year", <<"publication_date">>)
    \o Of("multiselect", <<"country", "language", "publisher",
                           "research_community",
                            "funder", "sdg">>)
    \o Of("tag", <<"author_names", "node", "license", "pids", "eosc_if",
                   "keywords">>)

otherResourcesProductsFilters ==
    Of("dropdown", <<"datasource_pids">>)
    \o Of("multiselect", <<"node", "unified_categories", "best_access_right",
                            "document_type", "scientific_domains", "eosc_if">>)
    \o Of("date-year", <<"publication_date">>)
    \o Of("multiselect", <<"country", "language", "publisher",
                           "research_community",
                            "funder", "sdg">>)
    \o Of("tag", <<"node", "source", "author_names", "license", "pids",
                   "eosc_if",
                            "keywords">>)

servicesFilters ==
    Of("dropdown", <<"catalogue">>)
    \o Of("multiselect", <<"node", "unified_categories", "best_access_right",
                            "scientific_domains", "dedicated_for",
                            "categories", "providers",
                            "resource_organisation", "eosc_if",
                            "guidelines_str", "language", "platforms",
                            "rating", "geographical_availabilities",
                            "horizontal">>)
    \o Of("tag", <<"node", "eosc_if", "keywords">>)

dataSourcesFilters ==
    Of("dropdown", <<"catalogue">>)
    \o Of("multiselect", <<"node", "unified_categories", "best_access_right",
                            "scientific_domains", "dedicated_for",
                            "categories", "providers",
                            "resource_organisation", "eosc_if",
                            "guidelines_str", "language", "platforms",
                            "rating", "geographical_availabilities",
                            "horizontal">>)
    \o Of("tag", <<"node", "eosc_if", "keywords">>)

bundlesFilters ==
    Of("multiselect", <<"unified_categories", "best_access_right",
                        "scientific_domains",
                         "dedicated_for", "providers",
                         "resource_organisation", "eosc_if", "language",
                         "bundle_goals", "capabilities_of_goals">>)
    \o Of("dropdown", <<"catalogue">>)
    \o Of("tag", <<"eosc_if">>)

trainingsFilters ==
    Of("multiselect", <<"node", "unified_categories", "best_access_right",
                         "scientific_domains", "resource_type",
                         "content_type", "target_group", "language",
                         "resource_organisation">>)
    \o Of("date-calendar", <<"publication_date">>)
    \o Of("range", <<"duration">>)
    \o Of("multiselect", <<"level_of_expertise", "license", "format",
                           "qualification">>)
    \o Of("tag", <<"author_names", "node", "keywords", "license", "keywords">>)
    \o Of("dropdown", <<"catalogue">>)

guidelinesFilters ==
    Of("multiselect", <<"node", "type_general", "domain", "eosc_guideline_type",
                         "providers", "license">>)
    \o Of("dropdown", <<"catalogue">>)
    \o Of("tag", <<"author_names", "node", "right_id", "keywords">>)

providersFilters ==
    Of("dropdown", <<"catalogue">>)
    \o Of("multiselect", <<"node", "scientific_domains", "areas_of_activity",
                            "legal_status", "meril_scientific_domains">>)
    \o Of("tag", <<"node">>)
    \o Of("multiselect", <<"country">>)
    \o Of("tag", <<"keywords">>)

projectsFilters ==
    Of("multiselect", <<"related_organisation_titles", "funding_title",
                         "funding_stream_title">>)
    \o Of("checkbox-status", <<"project_status">>)
    \o Of("date-range", <<"date_range">>)
    \o Of("date-start-end", <<"start_date", "end_date">>)
    \o Of("multiselect", <<"open_access_mandate_for_publications",
                            "open_access_mandate_for_dataset">>)
    \o Of("tag", <<"keywords", "related_organisation_titles">>)

organisationsFilters ==
    Of("multiselect", <<"country">>)
    \o Of("checkbox-resource-type", <<"related_resources">>)

catalogueFilters ==
    Of("multiselect", <<"node", "scientific_domains", "legal_status">>)
    \o Of("tag", <<"node", "scientific_domains", "legal_status">>)
    \o Of("date-year", <<"publication_date">>)
    \o Of("tag", <<"keywords">>)

plAllCollectionsFilters ==
    allCollectionsFilters
    \o Of("multiselect", <<"affiliation">>)
    \o Of("tag", <<"affiliation">>)

plDatasetsFilters ==
    datasetsFilters
    \o Of("multiselect", <<"affiliation">>)
    \o Of("tag", <<"affiliation">>)

excludedAllCollectionsFilters == {}
excludedPublicationsFilters == {"unified_categories"}
excludedDatasetsFilters == {"unified_categories", "affiliation"}
excludedSoftwareFilters == {"unified_categories", "document_type",
        "resource_organisation"}
excludedOtherResourcesProductsFilters == {"unified_categories"}
excludedServicesFilters == {"categories", "rating"}
excludedDataSourcesFilters == {"categories"}
excludedBundlesFilters == {"resource_organisation"}
excludedTrainingsFilters == {"unified_categories"}
excludedGuidelinesFilters == {"type_general"}
excludedProvidersFilters == {"lenguage"}
excludedProjectFilters == {"resource_organisation"}
excludedOrganisationFilters == {"language"}
excludedCatalogueFilters == {"language"}
plExcludedAllCollectionsFilters == {}
plExcludedDatasetsFilters == {}
plExcludedSoftwareFilters == {"best_access_right", "scientific_domains",
        "eosc_if",
        "country", "funder", "sdg", "license", "pids"}
plExcludedProvidersFilters == {"scientific_domains", "areas_of_activity",
        "node",
        "meril_scientific_domains", "keywords"}
plExcludedOrganisationsFilters == {"node", "scientific_domains", "keywords",
        "legal_status"}

SharedFilters ==
    [all_collection |-> allCollectionsFilters, publication |-> publicationsFilters,
     dataset |-> datasetsFilters, software |-> softwareFilters,
     other_rp |-> otherResourcesProductsFilters, service |-> servicesFilters,
     data_source |-> dataSourcesFilters, bundle |-> bundlesFilters,
     training |-> trainingsFilters, guideline |-> guidelinesFilters,
     provider |-> providersFilters, project |-> projectsFilters,
     organisation |-> organisationsFilters, catalogue |-> catalogueFilters]

FILTERS == SharedFilters
PL_FILTERS == [SharedFilters EXCEPT !.all_collection = plAllCollectionsFilters,
                                    !.dataset = plDatasetsFilters]

EXCLUDED_FILTERS ==
    [all_collection |-> excludedAllCollectionsFilters,
     publication |-> excludedPublicationsFilters,
     dataset |-> excludedDatasetsFilters, software |-> excludedSoftwareFilters,
     other_rp |-> excludedOtherResourcesProductsFilters,
     service |-> excludedServicesFilters, data_source |-> excludedDataSourcesFilters,
     bundle |-> excludedBundlesFilters, training |-> excludedTrainingsFilters,
     guideline |-> excludedGuidelinesFilters, provider |-> excludedProvidersFilters,
     project |-> excludedProjectFilters, organisation |-> excludedOrganisationFilters,
     catalogue |-> excludedCatalogueFilters]

PL_EXCLUDED_FILTERS ==
    [EXCLUDED_FILTERS EXCEPT
        !.all_collection = plExcludedAllCollectionsFilters,
        !.dataset = plExcludedDatasetsFilters, !.software = plExcludedSoftwareFilters,
        !.provider = plExcludedProvidersFilters,
        !.organisation = plExcludedOrganisationsFilters]

PL_CONTEXT_COLLECTIONS ==
    {"all_collection", "bundle", "catalogue", "data_source", "dataset", "guideline",
     "organisation", "other_rp", "project", "provider", "publication",
     "service",
     "software", "training"}
EU_CONTEXT_COLLECTIONS == PL_CONTEXT_COLLECTIONS

\* FiltersConfigsRepository: what the panel is made of, and what get() returns.
AllFilters(scope, collection) ==
    IF scope = "eu" THEN FILTERS[collection] ELSE PL_FILTERS[collection]
Excluded(scope, collection) ==
    IF scope = "eu" THEN EXCLUDED_FILTERS[collection] ELSE PL_EXCLUDED_FILTERS[collection]
get(scope, collection) ==
    SelectSeq(AllFilters(scope, collection),
              LAMBDA c : c.filter \notin Excluded(scope, collection))

Names(configs) == {configs[i].filter : i \in 1..Len(configs)}

\* The type that a filter is written with, by scope and collection.
Types ==
    [scope \in {"eu", "pl"} |->
       [c \in EU_CONTEXT_COLLECTIONS |->
          LET configs == get(scope, c)
              First(f) == CHOOSE i \in 1..Len(configs) :
                             /\ configs[i].filter = f
                             /\ \A j \in 1..(i - 1) : configs[j].filter # f
          IN [f \in Names(configs) |-> configs[First(f)].type]]]

\* What an option is called, and which options are left out: three data
\* sources share a name, and the catalogue "eosc" is not offered.
DATASOURCE_PID_MAPPING(pid) ==
    IF pid \in {"eosc.cessda-eric.cdc", "21.15124/2shDkg", "21.15132/2shDkg"}
    THEN "CESSDA Data Catalogue" ELSE pid
transformDataSourceNames(pid) == DATASOURCE_PID_MAPPING(pid)
transformCatalogueNames(options) == options \ {<<"eosc">>}
=============================================================================
