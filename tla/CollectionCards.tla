---------------------------- MODULE CollectionCards ----------------------------
(* The other tables of the collections: the adapters that turn a document   *)
(* into a card, the navigation, the search metadata, and the validators     *)
(* that run when the tables are loaded. A card is the collection it names,  *)
(* the filters of its tags and its links; titles, texts and icons are left  *)
(* out. A document is its type and the set of fields it has.                *)
EXTENDS CollectionFilters

\* A link: nothing, or a page of a site. The field named last is put in the
\* path; a document without it gives a path without it.
NoLink == <<>>
Link(site, page, field, doc) ==
    <<site, page, IF field \in doc.has THEN field ELSE "">>
LinkIf(site, page, field, doc) ==
    IF field \in doc.has THEN <<site, page, field>> ELSE NoLink

explore(page, doc) == Link("explore", page, "id", doc)
servicesPage(site, field, page, doc) == LinkIf(site, <<"services", page>>, field, doc)

ResearchProduct == {"dataset", "publication", "software", "other"}

Card(collection, tags, secondaryTags, type, redirectUrl, logoUrl, orderUrl) ==
    [collection |-> collection, tags |-> tags, secondaryTags |-> secondaryTags,
     type |-> type, redirectUrl |-> redirectUrl, logoUrl |-> logoUrl, orderUrl |-> orderUrl]

-----------------------------------------------------------------------------
(* The adapters.                                                            *)

redirectUrlAdapter(doc) ==
    CASE doc.type \in ResearchProduct -> explore("result", doc)
      [] doc.type = "data source" -> servicesPage("eu", "pid", "", doc)
      [] doc.type = "service" -> Link("eu", <<"services", "">>, "slug", doc)
      [] doc.type = "bundle" -> Link("eu", <<"services", "">>, "service_id", doc)
      [] doc.type = "provider" -> Link("eu", "providers", "pid", doc)
      [] doc.type = "training" -> Link("ui", "trainings", "id", doc)
      [] doc.type = "interoperability guideline" -> Link("ui", "guidelines", "id", doc)
      [] OTHER -> NoLink

logoUrlAdapter(doc) ==
    CASE doc.type = "data source" -> servicesPage("eu", "pid", "logo", doc)
      [] doc.type = "service" -> servicesPage("eu", "slug", "logo", doc)
      [] doc.type = "provider" -> Link("eu", "providers/logo", "pid", doc)
      [] OTHER -> NoLink

orderUrlAdapter(doc) ==
    CASE doc.type = "data source" -> servicesPage("eu", "pid", "offers", doc)
      [] doc.type = "service" -> servicesPage("eu", "slug", "offers", doc)
      [] doc.type = "bundle" -> Link("eu", <<"services", "offers">>, "service_id", doc)
      [] OTHER -> NoLink

allCollectionsAdapter(doc) ==
    Card("all_collection", {"publisher"}, {"keywords"}, doc.type,
         redirectUrlAdapter(doc), logoUrlAdapter(doc), orderUrlAdapter(doc))

plRedirectUrlAdapter(doc) ==
    IF doc.type = "dataset" THEN LinkIf("ui", "offer", "id", doc) ELSE redirectUrlAdapter(doc)

plLogoUrlAdapter(doc) ==
    CASE doc.type = "data source" -> servicesPage("pl", "pid", "logo", doc)
      [] doc.type = "service" -> servicesPage("pl", "slug", "logo", doc)
      [] OTHER -> logoUrlAdapter(doc)

plOrderUrlAdapter(doc) ==
    CASE doc.type = "data source" -> servicesPage("pl", "pid", "offers", doc)
      [] doc.type = "service" -> servicesPage("pl", "slug", "offers", doc)
      [] OTHER -> orderUrlAdapter(doc)

plAllCollectionsAdapter(doc) ==
    Card("all_collection", allCollectionsAdapter(doc).tags \union {"affiliation"}, {"keywords"},
         doc.type, plRedirectUrlAdapter(doc), plLogoUrlAdapter(doc), plOrderUrlAdapter(doc))

publicationsAdapter(doc) ==
    Card("publication", {"author_names", "node", "publisher", "pids", "scientific_domains"},
         {"eosc_if", "keywords"}, doc.type, explore("result", doc), NoLink, NoLink)

datasetsAdapter(doc) ==
    Card("dataset", {"author_names", "node", "publisher", "pids", "scientific_domains"},
         {"eosc_if", "keywords"}, doc.type, explore("result", doc), NoLink, NoLink)

plDatasetsAdapter(doc) ==
    [datasetsAdapter(doc) EXCEPT !.tags = @ \union {"affiliation"},
                                 !.redirectUrl = LinkIf("external", "", "url", doc)]

softwareAdapter(doc) ==
    Card("software", {"author_names", "node", "publisher", "pids", "scientific_domains"},
         {"eosc_if", "keywords"}, doc.type, explore("result", doc), NoLink, NoLink)

otherResourcesProductsAdapter(doc) ==
    Card("other_rp", {"author_names", "node", "scientific_domains", "pids"},
         {"eosc_if", "keywords"}, doc.type, explore("result", doc), NoLink, NoLink)

\* The service and data source adapters differ in the field that names the page.
ServiceCard(collection, field, type, doc) ==
    Card(collection, {"node", "resource_organisation", "scientific_domains", "guidelines_str"},
         {"eosc_if", "keywords"}, type, servicesPage("eu", field, "", doc),
         servicesPage("eu", field, "logo", doc), servicesPage("eu", field, "offers", doc))
OnPlMarketplace(card, field, doc) ==
    [card EXCEPT !.redirectUrl = servicesPage("pl", field, "offers", doc),
                 !.logoUrl = servicesPage("pl", field, "logo", doc),
                 !.orderUrl = servicesPage("pl", field, "offers", doc)]

setType(type) == IF type = "data source" THEN "data-source" ELSE type
servicesAdapter(doc) == ServiceCard("service", "slug", setType(doc.type), doc)
dataSourcesAdapter(doc) == ServiceCard("data_source", "pid", setType(doc.type), doc)
plServicesAdapter(doc) == OnPlMarketplace(servicesAdapter(doc), "slug", doc)
plDataSourcesAdapter(doc) == OnPlMarketplace(dataSourcesAdapter(doc), "pid", doc)

getBundleUrl(doc) ==
    IF "iid" \in doc.has THEN Link("eu", <<"services", "bundles/iid">>, "service_id", doc)
                         ELSE Link("eu", <<"services", "">>, "service_id", doc)
bundlesAdapter(doc) ==
    Card("bundle", {"bundle_goals", "capabilities_of_goals", "scientific_domains"}, {"eosc_if"},
         "bundle", getBundleUrl(doc), NoLink,
         Link("eu", <<"services", "offers">>, "service_id", doc))

trainingsAdapter(doc) ==
    Card("training", {"author_names", "node", "content_type", "scientific_domains"},
         {"keywords"}, doc.type, Link("ui", "trainings", "id", doc), NoLink, NoLink)

guidelinesAdapter(doc) ==
    Card("guideline", {"node", "providers"}, {"keywords"}, "guideline",
         Link("ui", "guidelines", "id", doc), NoLink, NoLink)

providersAdapter(doc) ==
    Card("provider", {"node", "scientific_domains", "legal_status", "areas_of_activity",
                      "meril_scientific_domains"},
         {"keywords"}, "provider", LinkIf("eu", "providers", "pid", doc),
         LinkIf("eu", "providers/logo", "pid", doc), NoLink)
plProvidersAdapter(doc) ==
    [providersAdapter(doc) EXCEPT !.redirectUrl = LinkIf("pl", "providers", "pid", doc),
                                  !.logoUrl = LinkIf("pl", "providers/logo", "pid", doc)]

projectsAdapter(doc) ==
    Card("project", {"funding_title", "funding_stream_title", "related_organisation_titles"},
         {"keywords"}, "project", explore("project", doc), NoLink, NoLink)

organisationsAdapter(doc) ==
    Card("organisation", {"country"}, {}, "organisation", explore("organization", doc),
         NoLink, NoLink)

cataloguesAdapter(doc) ==
    Card("catalogue", {"node", "scientific_domains", "legal_status"}, {"keywords"}, "catalogue",
         LinkIf("eu", "catalogues", "pid", doc), LinkIf("eu", "catalogues/logo", "pid", doc),
         NoLink)
plCataloguesAdapter(doc) ==
    [cataloguesAdapter(doc) EXCEPT !.redirectUrl = LinkIf("pl", "catalogues", "pid", doc),
                                   !.logoUrl = LinkIf("pl", "catalogues/logo", "pid", doc)]

ADAPTERS(doc) ==
    [all_collection |-> allCollectionsAdapter(doc), publication |-> publicationsAdapter(doc),
     dataset |-> datasetsAdapter(doc), software |-> softwareAdapter(doc),
     other_rp |-> otherResourcesProductsAdapter(doc), service |-> servicesAdapter(doc),
     data_source |-> dataSourcesAdapter(doc), bundle |-> bundlesAdapter(doc),
     training |-> trainingsAdapter(doc), guideline |-> guidelinesAdapter(doc),
     provider |-> providersAdapter(doc), project |-> projectsAdapter(doc),
     organisation |-> organisationsAdapter(doc), catalogue |-> cataloguesAdapter(doc)]

PL_ADAPTERS(doc) ==
    [ADAPTERS(doc) EXCEPT
        !.all_collection = plAllCollectionsAdapter(doc), !.dataset = plDatasetsAdapter(doc),
        !.service = plServicesAdapter(doc), !.data_source = plDataSourcesAdapter(doc),
        !.provider = plProvidersAdapter(doc), !.catalogue = plCataloguesAdapter(doc)]

\* AdaptersRepository.get
CardOf(scope, collection, doc) ==
    IF scope = "eu" THEN ADAPTERS(doc)[collection] ELSE PL_ADAPTERS(doc)[collection]

\* The filters that the tags of a card set: all but identifiers, which link to
\* another site.
CardTags ==
    [scope \in {"eu", "pl"} |->
       [c \in EU_CONTEXT_COLLECTIONS |->
          LET card == CardOf(scope, c, [type |-> "", has |-> {"id"}])
          IN (card.tags \union card.secondaryTags) \ {"pids"}]]

-----------------------------------------------------------------------------
(* Navigation: the trail of labels. All trails lead through                 *)
(* /search/all_collection, and the title is a label of its own in the code. *)

Nav(id, trail) ==
    [id |-> id, title |-> Last(trail), breadcrumbs |-> trail, urlParam |-> id]
Below(id, label) == Nav(id, <<"All Resources", label>>)

allCollectionsNavConfig == Nav("all_collection", <<"All Resources">>)
publicationsNavConfig == Below("publication", "Publications")
datasetsNavConfig == Below("dataset", "Data")
softwareNavConfig == Below("software", "Software")
othersResourcesProductsNavConfig == Below("other_rp", "Other Products")
servicesNavConfig == Below("service", "Services")
dataSourcesNavConfig == Below("data_source", "Data sources")
bundlesNavConfig == Below("bundle", "Bundles")
trainingsNavConfig == Below("training", "Training")
guidelinesNavConfig == Below("guideline", "Interoperability Guidelines")
providersNavConfig == Below("provider", "Providers")
projectNavConfig == Below("project", "Projects")
organisationsNavConfig == Below("organisation", "Organisations")
cataloguesNavConfig == Below("catalogue", "Catalogues")

NAV_CONFIGS ==
    [all_collection |-> allCollectionsNavConfig, publication |-> publicationsNavConfig,
     dataset |-> datasetsNavConfig, software |-> softwareNavConfig,
     other_rp |-> othersResourcesProductsNavConfig, service |-> servicesNavConfig,
     data_source |-> dataSourcesNavConfig, bundle |-> bundlesNavConfig,
     training |-> trainingsNavConfig, guideline |-> guidelinesNavConfig,
     provider |-> providersNavConfig, project |-> projectNavConfig,
     organisation |-> organisationsNavConfig, catalogue |-> cataloguesNavConfig]
PL_NAV_CONFIGS == NAV_CONFIGS

-----------------------------------------------------------------------------
(* Search metadata: the collection and the weights the search asks for.     *)

DEFAULT_QF == {"title", "description", "keywords_tg"}
PROVIDER_QF == {"title", "abbreviation", "description", "scientific_domains"}
CATALOGUE_QF == {"title", "abbreviation", "description", "keywords_tg"}
PROJECT_QF == CATALOGUE_QF
ORGANISATION_QF == {"alternative_names", "title", "abbreviation"}
Meta(id, collection, qf) == [id |-> id, collection |-> collection, qf |-> qf]

allCollectionsSearchMetadata == Meta("all_collection", "all_collection", DEFAULT_QF)
publicationsSearchMetadata == Meta("publication", "publication", DEFAULT_QF)
datasetsSearchMetadata == Meta("dataset", "dataset", DEFAULT_QF)
softwareSearchMetadata == Meta("software", "software", DEFAULT_QF)
otherResourcesProductsSearchMetadata == Meta("other_rp", "other_rp", DEFAULT_QF)
servicesSearchMetadata == Meta("service", "service", DEFAULT_QF)
dataSourcesSearchMetadata == Meta("data_source", "data_source", DEFAULT_QF)
bundlesSearchMetadata == Meta("bundle", "bundle", DEFAULT_QF)
trainingsSearchMetadata == Meta("training", "training", DEFAULT_QF)
guidelinesSearchMetadata == Meta("guideline", "guideline", DEFAULT_QF)
providersSearchMetadata == Meta("provider", "provider", PROVIDER_QF)
projectsSearchMetadata == Meta("project", "project", PROJECT_QF)
organisationsSearchMetadata == Meta("organisation", "organisation", ORGANISATION_QF)
cataloguesSearchMetadata == Meta("catalogue", "catalogue", CATALOGUE_QF)

SEARCH_METADATA ==
    [all_collection |-> allCollectionsSearchMetadata,
     publication |-> publicationsSearchMetadata, dataset |-> datasetsSearchMetadata,
     software |-> softwareSearchMetadata,
     other_rp |-> otherResourcesProductsSearchMetadata,
     service |-> servicesSearchMetadata, data_source |-> dataSourcesSearchMetadata,
     bundle |-> bundlesSearchMetadata, training |-> trainingsSearchMetadata,
     guideline |-> guidelinesSearchMetadata, provider |-> providersSearchMetadata,
     project |-> projectsSearchMetadata, organisation |-> organisationsSearchMetadata,
     catalogue |-> cataloguesSearchMetadata]
PL_SEARCH_METADATA == SEARCH_METADATA

-----------------------------------------------------------------------------
(* The validators: they throw, so the program only starts with valid tables.*)

validateComponentsIntegrity(adapters, filters, navs, metadata) ==
    /\ {navs[c].urlParam : c \in DOMAIN navs} = DOMAIN adapters
    /\ DOMAIN filters = DOMAIN adapters
    /\ DOMAIN navs = DOMAIN adapters
    /\ DOMAIN metadata = DOMAIN adapters

validateFiltersConsistency(adapters, filters) ==
    \A c \in DOMAIN adapters :
        adapters[c].tags \union adapters[c].secondaryTags \subseteq Names(filters[c])

validateCollectionsConsistency(metadata, adapters) ==
    \A c \in DOMAIN metadata : adapters[c].collection = metadata[c].collection

validateLabelsConsistency(navs) ==
    \A c \in DOMAIN navs : navs[c].title = Last(navs[c].breadcrumbs)

validateExcludedFilters(filters, excluded) == DOMAIN filters \subseteq DOMAIN excluded

EmptyDocument == [type |-> "", has |-> {"id"}]
validateCollections(adapters, filters, excluded, navs, metadata) ==
    /\ validateComponentsIntegrity(adapters, filters, navs, metadata)
    /\ validateFiltersConsistency(adapters, filters)
    /\ validateExcludedFilters(filters, excluded)
    /\ validateCollectionsConsistency(metadata, adapters)
    /\ validateLabelsConsistency(navs)

TablesLoad ==
    /\ validateCollections(ADAPTERS(EmptyDocument), FILTERS, EXCLUDED_FILTERS,
                           NAV_CONFIGS, SEARCH_METADATA)
    /\ validateCollections(PL_ADAPTERS(EmptyDocument), PL_FILTERS, PL_EXCLUDED_FILTERS,
                           PL_NAV_CONFIGS, PL_SEARCH_METADATA)

\* The tables of the code are valid, in both scopes: the program starts.
ASSUME TablesAreValid == TablesLoad
=============================================================================
