--------------------------- MODULE MCSearchFilters ---------------------------
(***************************************************************************)
(* Instances of SearchFilters for TLC: for each kind of widget a page that *)
(* has it, with two or three options each.                                 *)
(***************************************************************************)
EXTENDS SearchFilters, TLC

Page0(scope, collection, west) == [scope |-> scope, collection |-> collection, west |-> west]
AllPlaces ==
    {Page0("eu", "publication", FALSE), Page0("pl", "other_rp", TRUE),
     Page0("pl", "training", FALSE), Page0("eu", "project", FALSE),
     Page0("pl", "provider", FALSE), Page0("pl", "all_collection", FALSE),
     Page0("eu", "organisation", FALSE)}

eng == <<"Engineering">>
med == <<"Engineering", "Medical">>
civ == <<"Engineering", "Civil">>

tla == <<"tla">>
pl == <<"PL">>
nfdi == <<"nfdi">>
acm == <<"ACM">>
press == <<"ACM Press">>
Domains == [scientific_domains |-> {eng, med, civ}]
Sources == [datasource_pids |-> {<<"21.15124/2shDkg">>, <<"21.15132/2shDkg">>, <<"zenodo">>},
            publication_date |-> {<<0, 1>>}]
Courses == [language |-> {<<"en">>}, publication_date |-> {<<0, None>>},
            duration |-> {<<0, 1>>, <<100, 120>>}]
Projects == [project_status |-> {<<"closed">>, <<"ongoing">>}, date_range |-> {<<1, 1>>},
             start_date |-> {<<0, 1>>}]
Providers == [catalogue |-> {<<"eosc">>, <<"nfdi">>}, keywords |-> {tla}]
Organisations == [country |-> {pl}, related_resources |-> {<<"publication">>, <<"dataset">>}]
Everything == [publisher |-> {<<"ACM">>, <<"ACM Press">>}, catalogue |-> {<<"nfdi">>}]

AllAnswers ==
    [publication |-> {Domains, [Domains EXCEPT !.scientific_domains = {eng, med}]},
     other_rp |-> {Sources}, training |-> {Courses}, project |-> {Projects},
     provider |-> {Providers}, all_collection |-> {Everything},
     organisation |-> {Organisations}]

\* Today is day 2: a project that has ended, one that ends today, one that starts
\* today and one that is to start.
Project(first, last, partner) ==
    [date_range |-> {<<first, last>>}, related_organisation_titles |-> {partner}]
AllDocuments ==
    [publication |-> {[scientific_domains |-> {eng, med}], [scientific_domains |-> {eng, civ}]},
     other_rp |-> {[datasource_pids |-> {<<"zenodo">>}], [datasource_pids |-> {<<"21.15124/2shDkg">>}]},
     training |-> {[language |-> {<<"en">>}], [keywords |-> {tla}]},
     project |-> {Project(0, 1, acm), Project(0, 2, press), Project(2, 3, nfdi), Project(3, 4, pl)},
     provider |-> {[catalogue |-> {nfdi}, keywords |-> {tla}], [catalogue |-> {<<"eosc">>}]},
     all_collection |->
        {[providers |-> {nfdi}, publisher |-> {acm}], [resource_organisation |-> {nfdi}],
         [publisher |-> {press}, catalogue |-> {nfdi}],
         [related_organisation_titles |-> {nfdi}]},
     organisation |->
        {[country |-> {pl}, related_publication_ids |-> {<<"p">>}],
         [country |-> {<<"DE">>}, related_dataset_ids |-> {<<"d">>}], [country |-> {pl}]}]

Links == {<<>>, "publisher" :> {<<"ACM">>}}
RelatedTitles == {<<"nfdi">>}
Parts == {<<"ACM", "ACM Press">>}
=============================================================================
