------------------------ MODULE SearchServiceProofs ------------------------
(***************************************************************************)
(* What TLAPS proves of SearchService, for any documents, any calls and    *)
(* any number of changes in Solr: first what the answers hold, from the    *)
(* invariant Inv, then why every call ends, but for fairness itself.       *)
(***************************************************************************)
EXTENDS SearchService, FiniteSetTheorems, TLAPS

-----------------------------------------------------------------------------
(* The inductive invariant: what is known of a call in state r, when Solr   *)
(* had the documents sn at some time of the call and lacked those of gp,    *)
(* and the draws of D have ended with the ids F[d].                        *)

Extending == {"offers", "services", "guidelines", "lookup", "relevance"}

Recommending == {"recommender", "items", "drawing", "fixed"}

Offers(r) == UNION {OffersOf[b] : b \in r.found \cap Bundle}

Ok(r) == r.phase = "done" /\ r.status = "ok"

\* What a call holds, it got from Solr.
Sound(r, sn) ==
    /\ r \in CallState
    /\ r.found \cup r.got \cup r.results \subseteq sn
    /\ \A p \in r.related : p[1] \in r.found /\ p[2] \in sn

\* Which call is in which phase, and what it still has to do.
Shape(r) ==
    /\ r.phase = "idle" =>
          /\ r.found = {} /\ r.got = {} /\ r.results = {} /\ r.related = {}
          /\ r.sanity = {}
    /\ r.phase \in Recommending => r.op = "recommendations"
    /\ r.phase \in Extending => r.op \in {"results", "advanced"}
    /\ r.phase = "search" =>
          r.op # "recommendations" /\ r.asked \cup r.sanity \subseteq Branches(r.op, r.coll)
    /\ r.phase # "done" => r.status = "none"
    /\ r.phase = "services" => r.need \subseteq Service
    /\ r.phase \in {"guidelines", "lookup"} => r.need \subseteq Guideline \cap r.found
    /\ r.phase = "lookup" => r.guideline \in Guideline \cap r.found
    /\ r.op \in {"results", "advanced"} => r.found \subseteq Index[r.coll]

\* The offers of the bundles found are got, missing or still needed, and so
\* are the services of the offers got.
HasOffers(r, gp) == Offers(r) \subseteq r.got \cup gp

HasServices(r, gp) == \A o \in Offers(r) \cap r.got : ServiceOf[o] \in r.got \cup gp

Parts(r, gp) ==
    /\ r.phase = "offers" => HasOffers(r, gp \cup r.need)
    /\ r.phase = "services" => HasOffers(r, gp) /\ HasServices(r, gp \cup r.need)
    /\ r.phase \in {"guidelines", "lookup", "relevance"} =>
          HasOffers(r, gp) /\ HasServices(r, gp)
    /\ Ok(r) /\ r.op \in {"results", "advanced"} =>
          r.results \subseteq r.found /\ HasOffers(r, gp) /\ HasServices(r, gp)

\* The collection was seen not to be empty.
HoldsSome(r, sn) == Index[r.coll] \cap sn # {}

NonEmpty(r, sn) ==
    /\ r.op = "results" /\ r.phase \in Extending => HoldsSome(r, sn)
    /\ r.op \in {"results", "filters"} /\ Ok(r) => HoldsSome(r, sn)

Missing(r, gp, D, F) ==
    /\ r.op = "recommendations"
    /\ r.draw \in D
    /\ F[r.draw] \cap gp # {}

Empty(r, gp) ==
    /\ r.op # "suggestions"
    /\ (IF r.op = "recommendations" THEN All ELSE Index[r.coll]) \subseteq gp

Failure(r, gp, D, F) ==
    /\ r.status = "gone" => Missing(r, gp, D, F)
    /\ r.status = "empty" => Empty(r, gp)

\* A call that fell back has the ids of the draw that it was given.
FromCache(r, D, F) ==
    /\ r.phase \notin {"drawing", "fixed", "done"} => r.draw = None
    /\ r.phase = "fixed" => r.isRand
    /\ r.isRand =>
          /\ r.phase \in {"fixed", "done"}
          /\ r.draw \in D
          /\ r.phase = "fixed" => r.need \cup r.got = F[r.draw]
          /\ Ok(r) => r.results = F[r.draw]

Good(r, sn, gp, D, F) ==
    /\ Sound(r, sn)
    /\ Shape(r)
    /\ Parts(r, gp)
    /\ NonEmpty(r, sn)
    /\ Failure(r, gp, D, F)
    /\ FromCache(r, D, F)

\* An entry of the cache is a draw for its key.
Keyed ==
    \A k \in Key : entry[k] # None =>
        entry[k] \in drawn \cup drawing /\ KeyOf(call[entry[k]]) = k

\* A draw that has not failed is the one its own call was given.
Own == \A d \in drawn \cup drawing : call[d].draw = d

\* A draw is given to calls of its key only, and is in the cache, or was.
Given ==
    \A c \in Call : call[c].draw # None =>
        /\ KeyOf(call[call[c].draw]) = KeyOf(call[c])
        /\ call[c].draw \in dropped \/ entry[KeyOf(call[c])] = call[c].draw

Shared == IsFiniteSet(Held) /\ Keyed /\ Own /\ Given

Inv ==
    /\ TypeOK
    /\ \A c \in Call : Good(call[c], seen[c], gap[c], drawn, fixed)
    /\ \A c \in Call : Running(c) => solr \subseteq seen[c] /\ Doc \ solr \subseteq gap[c]
    /\ Shared

-----------------------------------------------------------------------------
(* Constants.                                                              *)

LEMMA Collections ==
    /\ Collection = {"all_collection", "publication", "service", "guideline",
                     "bundle", "organisation"}
    /\ Index["all_collection"] = All
    /\ \A k \in Collection : Index[k] \subseteq Doc
    /\ \A k \in Collection \ {"all_collection", "bundle"} : Index[k] \cap Bundle = {}
<1>1. Collection = {"all_collection", "publication", "service", "guideline",
                    "bundle", "organisation"}
    BY DEF Collection, Index
<1>2. /\ Index["all_collection"] = All /\ Index["publication"] = Publication
      /\ Index["service"] = Service /\ Index["guideline"] = Guideline
      /\ Index["bundle"] = Bundle /\ Index["organisation"] = Organisation
    BY DEF Index
<1>3. QED
    BY <1>1, <1>2, DocumentsAssumption DEF Doc, All

LEMMA BranchFacts ==
    ASSUME NEW op \in Operations, NEW coll \in Collection
    PROVE  /\ Branches(op, coll) \subseteq Collection \cup Facet
           /\ op \in {"results", "advanced"} => Branches(op, coll) = {coll}
           /\ op = "suggestions" => Branches(op, coll) \subseteq Collection
<1>1. CASE op = "suggestions"
    BY <1>1, Collections DEF Branches, AllCollectionList
<1>2. CASE op = "filters"
    BY <1>2 DEF Branches
<1>3. CASE op \in {"results", "advanced"}
    BY <1>3 DEF Branches
<1>4. CASE op = "recommendations"
    BY <1>4 DEF Branches
<1>5. QED
    BY <1>1, <1>2, <1>3, <1>4 DEF Operations

LEMMA OffersAreOffers ==
    ASSUME NEW r
    PROVE  Offers(r) \subseteq Offer
    BY SearchServiceAssumption DEF Offers

-----------------------------------------------------------------------------
(* How a call ends.                                                        *)

LEMMA EndedFields ==
    ASSUME NEW r \in CallState, NEW status \in Statuses, NEW results \in SUBSET Doc
    PROVE  LET e == Ended(r, status, results)
           IN  /\ e \in CallState
               /\ e.phase = "done" /\ e.status = status /\ e.results = results
               /\ e.op = r.op /\ e.coll = r.coll /\ e.isRand = r.isRand /\ e.draw = r.draw
               /\ e.found = r.found /\ e.got = r.got /\ e.related = r.related
    BY DEF Ended, CallState, Phases

\* What every call keeps until it ends.
Sane(r, sn, D) ==
    /\ Sound(r, sn)
    /\ r.op \in {"results", "advanced"} => r.found \subseteq Index[r.coll]
    /\ r.isRand => r.draw \in D

LEMMA GoodIsSane ==
    ASSUME NEW r, NEW sn, NEW gp, NEW D, NEW F, Good(r, sn, gp, D, F)
    PROVE  Sane(r, sn, D)
    BY DEF Good, Sane, Shape, FromCache

LEMMA FailedGood ==
    ASSUME NEW r, NEW sn, NEW gp, NEW D, NEW F, Sane(r, sn, D),
           NEW status \in {"refused", "empty", "gone", "crash"},
           status = "gone" => Missing(r, gp, D, F),
           status = "empty" => Empty(r, gp)
    PROVE  Good(Failed(r, status), sn, gp, D, F)
<1> DEFINE e == Ended(r, status, {})
<1>1. r \in CallState /\ status \in Statuses /\ {} \in SUBSET Doc
    BY DEF Sane, Sound, Statuses
<1>2. /\ e \in CallState
      /\ e.phase = "done" /\ e.status = status /\ e.results = {}
      /\ e.op = r.op /\ e.coll = r.coll /\ e.isRand = r.isRand /\ e.draw = r.draw
      /\ e.found = r.found /\ e.got = r.got /\ e.related = r.related
    BY <1>1, EndedFields
<1> HIDE DEF e
<1>3. Sound(e, sn)
    BY <1>2 DEF Sane, Sound
<1>4. Shape(e)
    BY <1>2 DEF Sane, Shape, Recommending, Extending
<1>5. ~Ok(e)
    BY <1>2 DEF Ok
<1>6. Parts(e, gp) /\ NonEmpty(e, sn)
    BY <1>2, <1>5 DEF Parts, NonEmpty, Extending
<1>7. Failure(e, gp, D, F)
    BY <1>2 DEF Failure, Missing, Empty
<1>8. FromCache(e, D, F)
    BY <1>2, <1>5 DEF Sane, FromCache
<1>9. Good(e, sn, gp, D, F)
    BY <1>3, <1>4, <1>6, <1>7, <1>8 DEF Good
<1>10. QED
    BY <1>9 DEF Failed, e

LEMMA OkGood ==
    ASSUME NEW r, NEW sn, NEW gp, NEW D, NEW F, Sane(r, sn, D),
           NEW results \in SUBSET Doc, results \subseteq sn,
           r.op \in {"results", "advanced"} =>
              results \subseteq r.found /\ HasOffers(r, gp) /\ HasServices(r, gp),
           r.op \in {"results", "filters"} => HoldsSome(r, sn),
           r.isRand => results = F[r.draw]
    PROVE  Good(Ended(r, "ok", results), sn, gp, D, F)
<1> DEFINE e == Ended(r, "ok", results)
<1>1. r \in CallState /\ "ok" \in Statuses
    BY DEF Sane, Sound, Statuses
<1>2. /\ e \in CallState
      /\ e.phase = "done" /\ e.status = "ok" /\ e.results = results
      /\ e.op = r.op /\ e.coll = r.coll /\ e.isRand = r.isRand /\ e.draw = r.draw
      /\ e.found = r.found /\ e.got = r.got /\ e.related = r.related
    BY <1>1, EndedFields
<1> HIDE DEF e
<1>3. Sound(e, sn)
    BY <1>2 DEF Sane, Sound
<1>4. Shape(e)
    BY <1>2 DEF Sane, Shape, Recommending, Extending
<1>5. Parts(e, gp)
    BY <1>2 DEF Parts, HasOffers, HasServices, Offers, Extending
<1>6. NonEmpty(e, sn)
    BY <1>2 DEF NonEmpty, HoldsSome, Extending
<1>7. Failure(e, gp, D, F)
    BY <1>2 DEF Failure
<1>8. FromCache(e, D, F)
    BY <1>2 DEF Sane, FromCache
<1>9. QED
    BY <1>3, <1>4, <1>5, <1>6, <1>7, <1>8 DEF Good, e

-----------------------------------------------------------------------------
(* Results and what is put together for them.                              *)

\* A call for results whose parts are being got.
Fit(r, sn) ==
    /\ Sound(r, sn)
    /\ r.op \in {"results", "advanced"}
    /\ r.found \subseteq Index[r.coll]
    /\ ~r.isRand /\ r.draw = None
    /\ r.status = "none"
    /\ r.op = "results" => HoldsSome(r, sn)

LEMMA ExtendingFits ==
    ASSUME NEW r, NEW sn, NEW gp, NEW D, NEW F, Good(r, sn, gp, D, F),
           r.phase \in Extending
    PROVE  Fit(r, sn)
    BY DEF Good, Fit, Shape, NonEmpty, FromCache, Extending

LEMMA FitIsSane ==
    ASSUME NEW r, NEW sn, NEW D, Fit(r, sn)
    PROVE  Sane(r, sn, D)
    BY DEF Fit, Sane

\* A call that fits is good in a phase whose parts it has.
LEMMA FitIsGood ==
    ASSUME NEW r, NEW sn, NEW gp, NEW D, NEW F, Fit(r, sn),
           r.phase \in Extending,
           r.phase = "services" => r.need \subseteq Service,
           r.phase \in {"guidelines", "lookup"} => r.need \subseteq Guideline \cap r.found,
           r.phase = "lookup" => r.guideline \in Guideline \cap r.found,
           Parts(r, gp)
    PROVE  Good(r, sn, gp, D, F)
<1>1. Shape(r)
    BY DEF Fit, Shape, Extending, Recommending
<1>2. NonEmpty(r, sn)
    BY DEF Fit, NonEmpty, Ok
<1>3. Failure(r, gp, D, F) /\ FromCache(r, D, F)
    BY DEF Fit, Failure, FromCache, Extending
<1>4. QED
    BY <1>1, <1>2, <1>3 DEF Good, Fit

LEMMA OutputGood ==
    ASSUME NEW r, NEW sn, NEW gp, NEW D, NEW F, Fit(r, sn),
           HasOffers(r, gp), HasServices(r, gp)
    PROVE  Good(Output(r), sn, gp, D, F)
<1>1. Sane(r, sn, D) /\ r \in CallState /\ r.found \subseteq sn /\ r.found \in SUBSET Doc
    BY FitIsSane DEF Fit, Sound, CallState
<1>2. Good(Failed(r, "crash"), sn, gp, D, F)
    BY <1>1, FailedGood
<1>3. Good(Ended(r, "ok", r.found), sn, gp, D, F)
    BY <1>1, OkGood DEF Fit
<1> DEFINE s == [r EXCEPT !.phase = "relevance"]
<1>4. Good(s, sn, gp, D, F)
  <2>1. /\ s \in CallState
        /\ s.phase = "relevance" /\ s.op = r.op /\ s.coll = r.coll /\ s.status = r.status
        /\ s.found = r.found /\ s.got = r.got /\ s.related = r.related
        /\ s.draw = r.draw /\ s.results = r.results /\ s.isRand = r.isRand
    BY <1>1 DEF CallState, Phases
  <2> HIDE DEF s
  <2>2. Fit(s, sn)
    BY <2>1 DEF Fit, Sound, HoldsSome
  <2>3. Parts(s, gp)
    BY <2>1 DEF Parts, HasOffers, HasServices, Offers, Ok
  <2>4. QED
    BY <2>1, <2>2, <2>3, FitIsGood DEF Extending
<1> HIDE DEF s
<1>5. QED
    BY <1>2, <1>3, <1>4 DEF Output, s

LEMMA ToGuidelinesGood ==
    ASSUME NEW r, NEW sn, NEW gp, NEW D, NEW F, Fit(r, sn),
           HasOffers(r, gp), HasServices(r, gp)
    PROVE  Good(ToGuidelines(r), sn, gp, D, F)
<1> DEFINE s == [r EXCEPT !.phase = "guidelines", !.need = r.found \cap Guideline]
<1>1. Good(s, sn, gp, D, F)
  <2>1. /\ s \in CallState
        /\ s.phase = "guidelines" /\ s.op = r.op /\ s.coll = r.coll /\ s.status = r.status
        /\ s.found = r.found /\ s.got = r.got /\ s.related = r.related
        /\ s.draw = r.draw /\ s.results = r.results /\ s.isRand = r.isRand
        /\ s.need = r.found \cap Guideline
    BY DEF Fit, Sound, CallState, Phases
  <2> HIDE DEF s
  <2>2. Fit(s, sn)
    BY <2>1 DEF Fit, Sound, HoldsSome
  <2>3. Parts(s, gp)
    BY <2>1 DEF Parts, HasOffers, HasServices, Offers, Ok
  <2>4. QED
    BY <2>1, <2>2, <2>3, FitIsGood DEF Extending
<1> HIDE DEF s
<1>2. Good(Output(r), sn, gp, D, F)
    BY OutputGood
<1>3. QED
    BY <1>1, <1>2 DEF ToGuidelines, s

LEMMA ToServicesGood ==
    ASSUME NEW r, NEW sn, NEW gp, NEW D, NEW F, Fit(r, sn), HasOffers(r, gp)
    PROVE  Good(ToServices(r), sn, gp, D, F)
<1>1. CASE r.got \cap Offer = {}
  <2>1. HasServices(r, gp)
    BY <1>1, OffersAreOffers DEF HasServices
  <2>2. QED
    BY <1>1, <2>1, ToGuidelinesGood DEF ToServices
<1>2. CASE r.got \cap Offer # {}
  <2> DEFINE services == {ServiceOf[o] : o \in r.got \cap Offer}
             s == [r EXCEPT !.phase = "services", !.need = services]
  <2>1. services \subseteq Service
    BY SearchServiceAssumption
  <2>2. \A o \in Offers(r) \cap r.got : ServiceOf[o] \in services
    BY OffersAreOffers
  <2> HIDE DEF services
  <2>3. /\ s \in CallState
        /\ s.phase = "services" /\ s.op = r.op /\ s.coll = r.coll /\ s.status = r.status
        /\ s.found = r.found /\ s.got = r.got /\ s.related = r.related
        /\ s.draw = r.draw /\ s.results = r.results /\ s.isRand = r.isRand /\ s.need = services
    BY <2>1 DEF Fit, Sound, CallState, Phases, Doc, All
  <2> HIDE DEF s
  <2>4. Fit(s, sn)
    BY <2>3 DEF Fit, Sound, HoldsSome
  <2>5. Parts(s, gp)
    BY <2>2, <2>3 DEF Parts, HasOffers, HasServices, Offers, Ok
  <2>6. Good(s, sn, gp, D, F)
    BY <2>1, <2>3, <2>4, <2>5, FitIsGood DEF Extending
  <2>7. QED
    BY <1>2, <2>6 DEF ToServices, s, services
<1>3. QED
    BY <1>1, <1>2

LEMMA ToOffersGood ==
    ASSUME NEW r, NEW sn, NEW gp, NEW D, NEW F, Fit(r, sn)
    PROVE  Good(ToOffers(r), sn, gp, D, F)
<1>1. CASE r.coll \in {"all_collection", "bundle"} /\ Offers(r) # {}
  <2> DEFINE s == [r EXCEPT !.phase = "offers", !.need = Offers(r)]
  <2>1. /\ s \in CallState
        /\ s.phase = "offers" /\ s.op = r.op /\ s.coll = r.coll /\ s.status = r.status
        /\ s.found = r.found /\ s.got = r.got /\ s.related = r.related
        /\ s.draw = r.draw /\ s.results = r.results /\ s.isRand = r.isRand /\ s.need = Offers(r)
    BY OffersAreOffers DEF Fit, Sound, CallState, Phases, Doc
  <2> HIDE DEF s
  <2>2. Fit(s, sn)
    BY <2>1 DEF Fit, Sound, HoldsSome
  <2>3. Parts(s, gp)
    BY <2>1 DEF Parts, HasOffers, Offers, Ok
  <2>4. Good(s, sn, gp, D, F)
    BY <2>1, <2>2, <2>3, FitIsGood DEF Extending
  <2>5. QED
    BY <1>1, <2>4 DEF ToOffers, Offers, s
<1>2. CASE ~(r.coll \in {"all_collection", "bundle"} /\ Offers(r) # {})
  <2>1. Offers(r) = {}
    <3>1. CASE r.coll \in {"all_collection", "bundle"}
        BY <1>2, <3>1
    <3>2. CASE r.coll \notin {"all_collection", "bundle"}
      <4>1. r.found \cap Bundle = {}
          BY <3>2, Collections DEF Fit, Sound, CallState
      <4>2. QED
          BY <4>1 DEF Offers
    <3>3. QED
        BY <3>1, <3>2
  <2>2. HasOffers(r, gp) /\ HasServices(r, gp)
    BY <2>1 DEF HasOffers, HasServices
  <2>3. QED
    BY <1>2, <2>2, ToGuidelinesGood DEF ToOffers, Offers
<1>3. QED
    BY <1>1, <1>2

-----------------------------------------------------------------------------
(* The searches that a call starts with.                                   *)

LEMMA GatheredGood ==
    ASSUME NEW r, NEW sn, NEW gp, NEW D, NEW F, Sane(r, sn, D),
           r.phase = "search", r.op # "recommendations", r.status = "none", ~r.isRand,
           r.draw = None,
           r.asked \cup r.sanity \subseteq Branches(r.op, r.coll),
           r.op \in {"results", "filters"} => HoldsSome(r, sn)
    PROVE  Good(Gathered(r), sn, gp, D, F)
<1>1. CASE r.asked \cup r.sanity # {}
  <2>1. Shape(r)
    BY DEF Sane, Shape, Extending, Recommending
  <2>2. Parts(r, gp) /\ NonEmpty(r, sn) /\ Failure(r, gp, D, F) /\ FromCache(r, D, F)
    BY DEF Parts, NonEmpty, Failure, FromCache, Ok, Extending
  <2>3. QED
    BY <1>1, <2>1, <2>2 DEF Gathered, Good, Sane
<1>2. CASE r.asked \cup r.sanity = {} /\ r.op \in {"results", "advanced"}
  <2>1. Fit(r, sn)
    BY <1>2 DEF Sane, Fit
  <2>2. QED
    BY <1>2, <2>1, ToOffersGood DEF Gathered
<1>3. CASE r.asked \cup r.sanity = {} /\ r.op \notin {"results", "advanced"}
  <2> DEFINE results == IF r.op = "filters" THEN {} ELSE r.found
  <2>1. results \subseteq sn /\ results \in SUBSET Doc
    BY DEF Sane, Sound, CallState
  <2>2. Good(Ended(r, "ok", results), sn, gp, D, F)
    BY <1>3, <2>1, OkGood
  <2>3. QED
    BY <1>3, <2>2 DEF Gathered
<1>4. QED
    BY <1>1, <1>2, <1>3

LEMMA TargetFacts ==
    ASSUME NEW r \in CallState, NEW b \in Branches(r.op, r.coll), r.op # "recommendations"
    PROVE  /\ Target(r, b) \in Collection
           /\ r.op # "suggestions" => Target(r, b) = r.coll
           /\ b \in Collection \cup Facet
<1>1. r.op \in Operations /\ r.coll \in Collection
    BY DEF CallState
<1>2. QED
    BY <1>1, BranchFacts DEF Target, Operations

LEMMA SearchedGood ==
    ASSUME NEW r, NEW sn, NEW gp, NEW D, NEW F, Good(r, sn, gp, D, F),
           r.phase = "search", NEW b \in Branches(r.op, r.coll),
           NEW docs \in SUBSET Doc, docs \subseteq sn, docs \subseteq Index[Target(r, b)],
           r.op \in {"results", "filters"} => HoldsSome(r, sn)
    PROVE  Good(Searched(r, b, docs), sn, gp, D, F)
<1> DEFINE s == [r EXCEPT !.asked = @ \ {b}, !.sanity = @ \ {b}, !.found = @ \cup docs]
<1>1. /\ Sane(r, sn, D) /\ r \in CallState
      /\ r.op # "recommendations" /\ r.status = "none" /\ ~r.isRand /\ r.draw = None
      /\ r.asked \cup r.sanity \subseteq Branches(r.op, r.coll)
    BY GoodIsSane DEF Good, Sound, Shape, FromCache
<1>2. /\ s \in CallState
      /\ s.phase = "search" /\ s.op = r.op /\ s.coll = r.coll /\ s.status = r.status
      /\ s.got = r.got /\ s.related = r.related /\ s.results = r.results
      /\ s.isRand = r.isRand /\ s.draw = r.draw /\ s.found = r.found \cup docs
      /\ s.asked = r.asked \ {b} /\ s.sanity = r.sanity \ {b}
    BY <1>1 DEF CallState
<1> HIDE DEF s
<1>3. r.op \in {"results", "advanced"} => Target(r, b) = r.coll
    BY <1>1, TargetFacts
<1>4. Sound(s, sn)
    BY <1>1, <1>2 DEF Sane, Sound
<1>5. Sane(s, sn, D)
    BY <1>1, <1>2, <1>3, <1>4 DEF Sane
<1>6. s.asked \cup s.sanity \subseteq Branches(s.op, s.coll)
    BY <1>1, <1>2
<1>7. s.op \in {"results", "filters"} => HoldsSome(s, sn)
    BY <1>2 DEF HoldsSome
<1>8. Good(Gathered(s), sn, gp, D, F)
    BY <1>1, <1>2, <1>5, <1>6, <1>7, GatheredGood
<1>9. QED
    BY <1>8 DEF Searched, s

-----------------------------------------------------------------------------
(* What no step of a call changes, but for its fallback.                    *)

Kept(r, s) == s.coll = r.coll /\ s.scope = r.scope /\ s.draw = r.draw

LEMMA KeptTwice ==
    ASSUME NEW r, NEW s, NEW t, Kept(r, s), Kept(s, t)
    PROVE  Kept(r, t)
    BY DEF Kept

LEMMA EndedKeeps ==
    ASSUME NEW r \in CallState, NEW status, NEW results
    PROVE  Kept(r, Ended(r, status, results)) /\ Kept(r, Failed(r, status))
    BY DEF Kept, Ended, Failed, CallState

LEMMA OutputKeeps ==
    ASSUME NEW r \in CallState
    PROVE  Kept(r, Output(r))
<1>1. Kept(r, [r EXCEPT !.phase = "relevance"])
    BY DEF Kept, CallState
<1>2. QED
    BY <1>1, EndedKeeps, Zenon DEF Output

LEMMA ToGuidelinesKeeps ==
    ASSUME NEW r \in CallState
    PROVE  Kept(r, ToGuidelines(r))
<1>1. Kept(r, [r EXCEPT !.phase = "guidelines", !.need = r.found \cap Guideline])
    BY DEF Kept, CallState
<1>2. QED
    BY <1>1, OutputKeeps, Zenon DEF ToGuidelines

LEMMA ToServicesKeeps ==
    ASSUME NEW r \in CallState
    PROVE  Kept(r, ToServices(r))
<1> DEFINE services == {ServiceOf[o] : o \in r.got \cap Offer}
<1>1. ASSUME NEW S PROVE Kept(r, [r EXCEPT !.phase = "services", !.need = S])
    BY DEF Kept, CallState
<1>2. Kept(r, [r EXCEPT !.phase = "services", !.need = services])
    BY <1>1
<1>3. QED
    BY <1>2, ToGuidelinesKeeps, Zenon DEF ToServices

LEMMA ToOffersKeeps ==
    ASSUME NEW r \in CallState
    PROVE  Kept(r, ToOffers(r))
<1> DEFINE offers == UNION {OffersOf[b] : b \in r.found \cap Bundle}
<1>1. ASSUME NEW S PROVE Kept(r, [r EXCEPT !.phase = "offers", !.need = S])
    BY DEF Kept, CallState
<1>2. Kept(r, [r EXCEPT !.phase = "offers", !.need = offers])
    BY <1>1
<1>3. QED
    BY <1>2, ToGuidelinesKeeps, Zenon DEF ToOffers

LEMMA GatheredKeeps ==
    ASSUME NEW r \in CallState
    PROVE  Kept(r, Gathered(r))
<1>1. Kept(r, r)
    BY DEF Kept
<1>2. QED
    BY <1>1, ToOffersKeeps, EndedKeeps, Zenon DEF Gathered

LEMMA SearchedKeeps ==
    ASSUME NEW r \in CallState, NEW b, NEW docs \in SUBSET Doc
    PROVE  Kept(r, Searched(r, b, docs)) /\ Kept(r, ToSanity(r, b))
<1> DEFINE s == [r EXCEPT !.asked = @ \ {b}, !.sanity = @ \ {b}, !.found = @ \cup docs]
<1>1. s \in CallState /\ Kept(r, s)
    BY DEF Kept, CallState
<1>2. Kept(r, ToSanity(r, b))
    BY DEF Kept, ToSanity, CallState
<1> HIDE DEF s
<1>3. Kept(r, Gathered(s))
    BY <1>1, GatheredKeeps, KeptTwice
<1>4. QED
    BY <1>2, <1>3 DEF Searched, s

LEMMA PartKeeps ==
    ASSUME NEW r \in CallState, NEW d \in Doc
    PROVE  Kept(r, Part(r, d))
<1> DEFINE got == IF d \in solr THEN r.got \cup {d} ELSE r.got
           s == [r EXCEPT !.need = @ \ {d}, !.got = got]
<1>1. got \in SUBSET Doc
    BY DEF CallState
<1>2. Part(r, d) = Onward(s)
    BY DEF Part
<1> HIDE DEF got
<1>3. s \in CallState /\ Kept(r, s)
    BY <1>1 DEF Kept, CallState
<1> HIDE DEF s
<1>4. Kept(s, s) /\ Kept(s, ToServices(s)) /\ Kept(s, ToGuidelines(s))
    BY <1>3, ToServicesKeeps, ToGuidelinesKeeps DEF Kept
<1>5. Kept(s, Onward(s))
    BY <1>4, Zenon DEF Onward
<1>6. QED
    BY <1>2, <1>3, <1>5, KeptTwice

LEMMA ExtendedKeeps ==
    ASSUME NEW r \in CallState, NEW g
    PROVE  Kept(r, Extended(r, g))
<1> DEFINE s == [r EXCEPT !.need = @ \ {g}, !.guideline = None, !.phase = "guidelines"]
<1>1. s \in CallState /\ Kept(r, s)
    BY DEF Kept, CallState, Phases
<1> HIDE DEF s
<1>2. Kept(r, Output(s))
    BY <1>1, OutputKeeps, KeptTwice
<1>3. QED
    BY <1>1, <1>2 DEF Extended, s

LEMMA LookedUpKeeps ==
    ASSUME NEW r \in CallState, NEW g \in Guideline, NEW s \in Service
    PROVE  Kept(r, LookedUp(r, g, s)) /\ Kept(r, LookUpRaises(r, g))
<1> DEFINE related == IF s \in solr THEN r.related \cup {<<g, s>>} ELSE r.related
           n == [r EXCEPT !.pids = @ \ {s}, !.related = related]
           x == [r EXCEPT !.pids = {}, !.guideline = None, !.related = @ \ ({g} \X Service)]
<1>1. related \in SUBSET (Guideline \X Service)
    BY DEF CallState
<1>2. LookedUp(r, g, s) = IF n.pids # {} THEN n ELSE Extended(n, g)
    BY DEF LookedUp
<1> HIDE DEF related
<1>3. n \in CallState /\ Kept(r, n)
    BY <1>1 DEF Kept, CallState
<1>4. x \in CallState /\ Kept(r, x)
    BY DEF Kept, CallState
<1>5. LookUpRaises(r, g) = Output(x)
    BY DEF LookUpRaises
<1> HIDE DEF n, x
<1>6. Kept(r, Extended(n, g)) /\ Kept(r, Output(x))
    BY <1>3, <1>4, ExtendedKeeps, OutputKeeps, KeptTwice
<1>7. QED
    BY <1>2, <1>3, <1>5, <1>6, Zenon

LEMMA FixedKeeps ==
    ASSUME NEW r \in CallState, NEW ids
    PROVE  Kept(r, Fixed(r, ids))
<1>1. Kept(r, [r EXCEPT !.phase = "fixed", !.need = ids, !.got = {}, !.isRand = TRUE])
    BY DEF Kept, CallState
<1>2. QED
    BY <1>1, EndedKeeps, Zenon DEF Fixed

LEMMA GotKeeps ==
    ASSUME NEW r \in CallState, NEW d \in Doc
    PROVE  Kept(r, Got(r, d))
<1> DEFINE s == [r EXCEPT !.need = @ \ {d}, !.got = @ \cup {d}]
<1>1. s \in CallState /\ Kept(r, s)
    BY DEF Kept, CallState
<1>2. Got(r, d) = IF s.need # {} THEN s ELSE Ended(s, "ok", s.got)
    BY DEF Got
<1> HIDE DEF s
<1>3. Kept(r, Ended(s, "ok", s.got))
    BY <1>1, EndedKeeps, KeptTwice
<1>4. QED
    BY <1>1, <1>2, <1>3, Zenon

\* The cache knows its calls as before when each keeps its key and its draw and
\* no draw begins or fails.
LEMMA SharedStays ==
    ASSUME TypeOK, Shared, UNCHANGED <<entry, dropped>>,
           drawn' \cup drawing' = drawn \cup drawing,
           \A q \in Call : Kept(call[q], call'[q])
    PROVE  Shared'
<1>1. \A q \in Call : KeyOf(call'[q]) = KeyOf(call[q]) /\ call'[q].draw = call[q].draw
    BY DEF Kept, KeyOf
<1>2. drawn \cup drawing \subseteq Call
    BY DEF TypeOK
<1>3. \A q \in Call : call[q].draw # None => call[q].draw \in Call
    BY DEF TypeOK, CallState
<1>4. IsFiniteSet(Held)'
    BY DEF Shared, Held
<1>5. Keyed'
    BY <1>1, <1>2 DEF Shared, Keyed
<1>6. Own'
    BY <1>1, <1>2 DEF Shared, Own
<1>7. Given'
    BY <1>1, <1>3 DEF Shared, Given
<1>8. QED
    BY <1>4, <1>5, <1>6, <1>7 DEF Shared

-----------------------------------------------------------------------------
(* Steps of one call.                                                      *)

LEMMA StepInv ==
    ASSUME Inv, NEW c \in Call, NEW r, Step(c, r), Running(c),
           Good(r, seen[c], gap[c], drawn, fixed), Shared'
    PROVE  Inv'
<1>1. /\ call' = [call EXCEPT ![c] = r]
      /\ UNCHANGED <<solr, changes, silent, entry, drawing, drawn, fixed, dropped, seen, gap>>
    BY DEF Step, cache
<1>2. r \in CallState /\ call \in [Call -> CallState]
    BY DEF Good, Sound, Inv, TypeOK
<1>3. /\ call' \in [Call -> CallState]
      /\ call'[c] = r
      /\ \A q \in Call : q # c => call'[q] = call[q]
    BY <1>1, <1>2
<1>4. TypeOK'
    BY <1>1, <1>3 DEF Inv, TypeOK, Held
<1>5. ASSUME NEW q \in Call
      PROVE  Good(call'[q], seen'[q], gap'[q], drawn', fixed')
    BY <1>1, <1>3 DEF Inv
<1>6. ASSUME NEW q \in Call, Running(q)'
      PROVE  solr' \subseteq seen'[q] /\ Doc \ solr' \subseteq gap'[q]
  <2>1. Running(q)
    BY <1>3, <1>6 DEF Running
  <2>2. QED
    BY <1>1, <2>1 DEF Inv
<1>7. QED
    BY <1>4, <1>5, <1>6 DEF Inv

\* A step that keeps key and draw.
LEMMA StepKeeps ==
    ASSUME Inv, NEW c \in Call, NEW r, Step(c, r), Running(c),
           Good(r, seen[c], gap[c], drawn, fixed), Kept(call[c], r)
    PROVE  Inv'
<1>1. /\ call' = [call EXCEPT ![c] = r]
      /\ UNCHANGED <<entry, drawing, drawn, dropped>>
    BY DEF Step, cache
<1>2. \A q \in Call : Kept(call[q], call'[q])
    BY <1>1 DEF Kept, Inv, TypeOK
<1>3. Shared'
    BY <1>1, <1>2, SharedStays DEF Inv
<1>4. QED
    BY <1>3, StepInv

\* A step that gives the call the draw of the entry of its key.
LEMMA StepGiven ==
    ASSUME Inv, NEW c \in Call, NEW r, Step(c, r), Running(c),
           Good(r, seen[c], gap[c], drawn, fixed),
           call[c].draw = None, r.coll = call[c].coll, r.scope = call[c].scope,
           r.draw # None, r.draw = entry[KeyOf(call[c])]
    PROVE  Inv'
<1>1. /\ call' = [call EXCEPT ![c] = r]
      /\ UNCHANGED <<entry, drawing, drawn, dropped>>
    BY DEF Step, cache
<1>2. /\ call'[c] = r
      /\ \A q \in Call : q # c => call'[q] = call[q]
      /\ drawn \cup drawing \subseteq Call
      /\ \A q \in Call : call[q] \in CallState
    BY <1>1 DEF Inv, TypeOK
<1>3. /\ \A q \in Call : KeyOf(call'[q]) = KeyOf(call[q]) /\ KeyOf(call[q]) \in Key
      /\ c # None
    BY <1>2, SearchServiceAssumption DEF KeyOf, Key, CallState
<1>4. IsFiniteSet(Held)'
    BY <1>1 DEF Inv, Shared, Held
<1>5. Keyed'
    BY <1>1, <1>2, <1>3 DEF Inv, Shared, Keyed
<1>6. Own'
  <2>1. c \notin drawn \cup drawing
    BY <1>3 DEF Inv, Shared, Own
  <2>2. QED
    BY <1>1, <1>2, <2>1 DEF Inv, Shared, Own
<1>7. Given'
  <2> SUFFICES ASSUME NEW q \in Call, call'[q].draw # None
               PROVE  /\ KeyOf(call'[call'[q].draw]) = KeyOf(call'[q])
                      /\ \/ call'[q].draw \in dropped
                         \/ entry[KeyOf(call'[q])] = call'[q].draw
    BY <1>1 DEF Given
  <2>1. CASE q = c
    <3>1. r.draw \in drawn \cup drawing /\ KeyOf(call[r.draw]) = KeyOf(call[c])
        BY <1>3 DEF Inv, Shared, Keyed
    <3>2. QED
        BY <1>2, <1>3, <2>1, <3>1
  <2>2. CASE q # c
    <3>1. call[q].draw \in Call
        BY <1>2, <2>2 DEF CallState
    <3>2. QED
        BY <1>2, <1>3, <2>2, <3>1 DEF Inv, Shared, Given
  <2>3. QED
    BY <2>1, <2>2
<1>8. Shared'
    BY <1>4, <1>5, <1>6, <1>7 DEF Shared
<1>9. QED
    BY <1>8, StepInv

\* What every action of a running call starts from.
LEMMA CallFacts ==
    ASSUME Inv, NEW c \in Call
    PROVE  /\ Good(call[c], seen[c], gap[c], drawn, fixed)
           /\ Sane(call[c], seen[c], drawn)
           /\ call[c] \in CallState
           /\ Running(c) => solr \subseteq seen[c] /\ Doc \ solr \subseteq gap[c]
           /\ solr \subseteq Doc
    BY GoodIsSane DEF Inv, TypeOK

LEMMA RefusedStep ==
    ASSUME Inv, NEW c \in Call, Running(c),
           NEW status \in {"refused", "crash"}, Step(c, Failed(call[c], status))
    PROVE  Inv'
<1>1. /\ Good(Failed(call[c], status), seen[c], gap[c], drawn, fixed)
      /\ Kept(call[c], Failed(call[c], status))
    BY CallFacts, FailedGood, EndedKeeps
<1>2. QED
    BY <1>1, StepKeeps

LEMMA SearchStep ==
    ASSUME Inv, NEW c \in Call, NEW b \in Collection \cup Facet, Search(c, b)
    PROVE  Inv'
<1> DEFINE r == call[c]
<1>1. r.phase = "search" /\ b \in r.asked /\ Running(c)
    BY DEF Search, Running
<1>2. /\ Good(r, seen[c], gap[c], drawn, fixed) /\ r \in CallState
      /\ solr \subseteq seen[c] /\ solr \subseteq Doc
    BY <1>1, CallFacts
<1>3. b \in Branches(r.op, r.coll) /\ r.op # "recommendations"
    BY <1>1, <1>2 DEF Good, Shape
<1>4. Index[Target(r, b)] \subseteq Doc /\ (r.op # "suggestions" => Target(r, b) = r.coll)
    BY <1>2, <1>3, TargetFacts, Collections
<1>5. CASE Step(c, Failed(r, "refused"))
    BY <1>1, <1>5, RefusedStep
<1>6. ASSUME NEW docs \in SUBSET (solr \cap Index[Target(r, b)]), docs # {},
             Step(c, Searched(r, b, docs))
      PROVE  Inv'
  <2>1. docs \in SUBSET Doc /\ docs \subseteq seen[c] /\ docs \subseteq Index[Target(r, b)]
    BY <1>2
  <2>2. r.op \in {"results", "filters"} => HoldsSome(r, seen[c])
    BY <1>4, <1>6, <2>1 DEF HoldsSome
  <2> HIDE DEF r
  <2>3. Good(Searched(r, b, docs), seen[c], gap[c], drawn, fixed)
    BY <1>1, <1>2, <1>3, <2>1, <2>2, SearchedGood
  <2>4. Kept(r, Searched(r, b, docs))
    BY <1>2, <2>1, SearchedKeeps
  <2>5. QED
    BY <1>1, <1>6, <2>3, <2>4, StepKeeps DEF r
<1>7. CASE Step(c, ToSanity(r, b))
  <2> DEFINE s == ToSanity(r, b)
  <2>1. /\ s \in CallState
        /\ s.phase = "search" /\ s.op = r.op /\ s.coll = r.coll /\ s.status = r.status
        /\ s.found = r.found /\ s.got = r.got /\ s.related = r.related
        /\ s.draw = r.draw /\ s.results = r.results /\ s.isRand = r.isRand
        /\ s.asked = r.asked \ {b} /\ s.sanity = r.sanity \cup {b}
    BY <1>1, <1>2 DEF ToSanity, CallState
  <2> HIDE DEF r, s
  <2>2. Sound(s, seen[c])
    BY <1>2, <2>1 DEF Good, Sound
  <2>3. Shape(s)
    BY <1>1, <1>2, <1>3, <2>1 DEF Good, Shape, Extending, Recommending
  <2>4. /\ Parts(s, gap[c]) /\ NonEmpty(s, seen[c])
        /\ Failure(s, gap[c], drawn, fixed) /\ FromCache(s, drawn, fixed)
    BY <1>1, <1>2, <2>1 DEF Good, Shape, Parts, NonEmpty, Failure, FromCache, Ok, Extending
  <2>5. Good(s, seen[c], gap[c], drawn, fixed)
    BY <2>2, <2>3, <2>4 DEF Good
  <2>6. Kept(r, s)
    BY <1>2, SearchedKeeps DEF s
  <2>7. QED
    BY <1>1, <1>7, <2>5, <2>6, StepKeeps DEF r, s
<1>8. CASE r.op = "advanced" /\ Step(c, Searched(r, b, {}))
  <2> HIDE DEF r
  <2>1. Good(Searched(r, b, {}), seen[c], gap[c], drawn, fixed)
    BY <1>1, <1>2, <1>3, <1>8, SearchedGood
  <2>2. Kept(r, Searched(r, b, {}))
    BY <1>2, SearchedKeeps
  <2>3. QED
    BY <1>1, <1>8, <2>1, <2>2, StepKeeps DEF r
<1>9. QED
    BY <1>5, <1>6, <1>7, <1>8 DEF Search

LEMMA SanityStep ==
    ASSUME Inv, NEW c \in Call, NEW b \in Collection \cup Facet, CheckCollectionSanity(c, b)
    PROVE  Inv'
<1> DEFINE r == call[c]
<1>1. r.phase = "search" /\ b \in r.sanity /\ Running(c)
    BY DEF CheckCollectionSanity, Running
<1>2. /\ Good(r, seen[c], gap[c], drawn, fixed) /\ r \in CallState /\ Sane(r, seen[c], drawn)
      /\ solr \subseteq seen[c] /\ Doc \ solr \subseteq gap[c] /\ solr \subseteq Doc
    BY <1>1, CallFacts
<1>3. b \in Branches(r.op, r.coll) /\ r.op # "recommendations"
    BY <1>1, <1>2 DEF Good, Shape
<1>4. Index[Target(r, b)] \subseteq Doc /\ (r.op # "suggestions" => Target(r, b) = r.coll)
    BY <1>2, <1>3, TargetFacts, Collections
<1>5. CASE Step(c, Failed(r, "refused"))
    BY <1>1, <1>5, RefusedStep
<1> HIDE DEF r
<1>6. Kept(r, Searched(r, b, {})) /\ Kept(r, Failed(r, "empty"))
    BY <1>2, SearchedKeeps, EndedKeeps
<1>7. CASE solr \cap Index[Target(r, b)] = {} /\ Step(c, EmptyCollection(r, b))
  <2>1. CASE r.op = "suggestions"
    <3>1. Good(Searched(r, b, {}), seen[c], gap[c], drawn, fixed)
        BY <1>1, <1>2, <1>3, <2>1, SearchedGood
    <3>2. QED
        BY <1>1, <1>7, <1>6, <2>1, <3>1, StepKeeps DEF EmptyCollection, r
  <2>2. CASE r.op # "suggestions"
    <3>1. Index[r.coll] \subseteq gap[c]
        BY <1>2, <1>4, <1>7, <2>2
    <3>2. Empty(r, gap[c])
        BY <1>3, <2>2, <3>1 DEF Empty
    <3>3. Good(Failed(r, "empty"), seen[c], gap[c], drawn, fixed)
        BY <1>2, <3>2, FailedGood
    <3>4. QED
        BY <1>1, <1>7, <1>6, <2>2, <3>3, StepKeeps DEF EmptyCollection, r
  <2>3. QED
    BY <2>1, <2>2
<1>8. CASE solr \cap Index[Target(r, b)] # {} /\ Step(c, Searched(r, b, {}))
  <2>1. r.op \in {"results", "filters"} => HoldsSome(r, seen[c])
    BY <1>2, <1>4, <1>8 DEF HoldsSome
  <2>2. Good(Searched(r, b, {}), seen[c], gap[c], drawn, fixed)
    BY <1>1, <1>2, <1>3, <2>1, SearchedGood
  <2>3. QED
    BY <1>1, <1>8, <1>6, <2>2, StepKeeps DEF r
<1>9. QED
    BY <1>5, <1>7, <1>8 DEF CheckCollectionSanity, r

LEMMA PartStep ==
    ASSUME Inv, NEW c \in Call, NEW d \in Doc, GetPart(c, d)
    PROVE  Inv'
<1> DEFINE r == call[c]
           s == [r EXCEPT !.need = @ \ {d}, !.got = IF d \in solr THEN @ \cup {d} ELSE @]
           sn == seen[c]
           gp == gap[c]
<1>1. r.phase \in {"offers", "services"} /\ d \in r.need /\ Running(c)
    BY DEF GetPart, Running
<1>2. /\ Good(r, sn, gp, drawn, fixed) /\ r \in CallState
      /\ solr \subseteq sn /\ Doc \ solr \subseteq gp
    BY <1>1, CallFacts
<1>3. CASE Step(c, Failed(r, "refused"))
    BY <1>1, <1>3, RefusedStep
<1>4. CASE Step(c, Part(r, d))
  <2>1. /\ s \in CallState
        /\ s.phase = r.phase /\ s.op = r.op /\ s.coll = r.coll /\ s.status = r.status
        /\ s.found = r.found /\ s.related = r.related
        /\ s.draw = r.draw /\ s.results = r.results /\ s.isRand = r.isRand
        /\ s.need = r.need \ {d}
        /\ s.got = IF d \in solr THEN r.got \cup {d} ELSE r.got
    BY <1>2 DEF CallState
  <2> HIDE DEF r, s
  <2>2. Fit(r, sn)
    BY <1>1, <1>2, ExtendingFits DEF Extending
  <2>3. Kept(r, Part(r, d))
    BY <1>2, PartKeeps
  <2> HIDE DEF sn, gp
  <2>4. Fit(s, sn)
    BY <1>2, <2>1, <2>2 DEF Fit, Sound, HoldsSome
  <2>5. d \in s.got \cup gp /\ r.got \subseteq s.got
    BY <1>2, <2>1
  <2>6. Offers(s) = Offers(r)
    BY <2>1 DEF Offers
  <2>7. CASE r.phase = "offers"
    <3>1. HasOffers(s, gp \cup s.need)
        BY <1>2, <2>1, <2>5, <2>6, <2>7 DEF Good, Parts, HasOffers
    <3>2. CASE s.need # {}
      <4>1. Parts(s, gp)
          BY <2>1, <2>7, <3>1 DEF Parts, Ok
      <4>2. Good(s, sn, gp, drawn, fixed)
          BY <2>1, <2>4, <2>7, <4>1, FitIsGood DEF Extending
      <4>3. Onward(s) = s
          BY <3>2 DEF Onward
      <4>4. QED
          BY <4>2, <4>3, <1>1, <1>4, <2>3, StepKeeps DEF Part, r, s, sn, gp
    <3>3. CASE s.need = {}
      <4>1. HasOffers(s, gp)
          BY <3>1, <3>3 DEF HasOffers
      <4>2. Good(ToServices(s), sn, gp, drawn, fixed)
          BY <2>4, <4>1, ToServicesGood
      <4>3. Onward(s) = ToServices(s)
          BY <2>1, <2>7, <3>3 DEF Onward
      <4>4. QED
          BY <4>2, <4>3, <1>1, <1>4, <2>3, StepKeeps DEF Part, r, s, sn, gp
    <3>4. QED
        BY <3>2, <3>3
  <2>8. CASE r.phase = "services"
    <3>1. d \in Service /\ r.need \subseteq Service
        BY <1>1, <1>2, <2>8 DEF Good, Shape
    <3>2. Offers(s) \cap s.got = Offers(r) \cap r.got
        BY <2>1, <2>6, <3>1, OffersAreOffers, DocumentsAssumption
    <3>3. HasOffers(s, gp)
        BY <1>2, <2>5, <2>6, <2>8 DEF Good, Parts, HasOffers
    <3>4. HasServices(s, gp \cup s.need)
        BY <1>2, <2>1, <2>5, <2>8, <3>2 DEF Good, Parts, HasServices
    <3>5. CASE s.need # {}
      <4>1. Parts(s, gp)
          BY <2>1, <2>8, <3>3, <3>4 DEF Parts, Ok
      <4>2. Good(s, sn, gp, drawn, fixed)
          BY <2>1, <2>4, <2>8, <3>1, <4>1, FitIsGood DEF Extending
      <4>3. Onward(s) = s
          BY <3>5 DEF Onward
      <4>4. QED
          BY <4>2, <4>3, <1>1, <1>4, <2>3, StepKeeps DEF Part, r, s, sn, gp
    <3>6. CASE s.need = {}
      <4>1. HasServices(s, gp)
          BY <3>4, <3>6 DEF HasServices
      <4>2. Good(ToGuidelines(s), sn, gp, drawn, fixed)
          BY <2>4, <3>3, <4>1, ToGuidelinesGood
      <4>3. Onward(s) = ToGuidelines(s)
          BY <2>1, <2>8, <3>6 DEF Onward
      <4>4. QED
          BY <4>2, <4>3, <1>1, <1>4, <2>3, StepKeeps DEF Part, r, s, sn, gp
    <3>7. QED
        BY <3>5, <3>6
  <2>9. QED
    BY <1>1, <2>7, <2>8
<1>5. QED
    BY <1>3, <1>4 DEF GetPart

LEMMA ExtendedGood ==
    ASSUME NEW r, NEW sn, NEW gp, NEW D, NEW F, Fit(r, sn), NEW g,
           HasOffers(r, gp), HasServices(r, gp), r.need \subseteq Guideline \cap r.found
    PROVE  Good(Extended(r, g), sn, gp, D, F)
<1> DEFINE s == [r EXCEPT !.need = @ \ {g}, !.guideline = None, !.phase = "guidelines"]
<1>1. /\ s \in CallState
      /\ s.phase = "guidelines" /\ s.op = r.op /\ s.coll = r.coll /\ s.status = r.status
      /\ s.found = r.found /\ s.got = r.got /\ s.related = r.related
      /\ s.draw = r.draw /\ s.results = r.results /\ s.isRand = r.isRand /\ s.need = r.need \ {g}
    BY DEF Fit, Sound, CallState, Phases
<1> HIDE DEF s
<1>2. Fit(s, sn)
    BY <1>1 DEF Fit, Sound, HoldsSome
<1>3. HasOffers(s, gp) /\ HasServices(s, gp)
    BY <1>1 DEF HasOffers, HasServices, Offers
<1>4. Parts(s, gp)
    BY <1>1, <1>3 DEF Parts, Ok
<1>5. Good(s, sn, gp, D, F)
    BY <1>1, <1>2, <1>4, FitIsGood DEF Extending
<1>6. Good(Output(s), sn, gp, D, F)
    BY <1>2, <1>3, OutputGood
<1>7. QED
    BY <1>5, <1>6 DEF Extended, s

LEMMA RelatedStep ==
    ASSUME Inv, NEW c \in Call, NEW g \in Doc, GetRelated(c, g)
    PROVE  Inv'
<1> DEFINE r == call[c]
           sn == seen[c]
           gp == gap[c]
<1>1. r.phase = "guidelines" /\ g \in r.need /\ Running(c)
    BY DEF GetRelated, Running
<1>2. Good(r, sn, gp, drawn, fixed) /\ r \in CallState
    BY CallFacts
<1>3. Fit(r, sn)
    BY <1>1, <1>2, ExtendingFits DEF Extending
<1> HIDE DEF r, sn, gp
<1>4. /\ HasOffers(r, gp) /\ HasServices(r, gp)
      /\ r.need \subseteq Guideline \cap r.found
    BY <1>1, <1>2 DEF Good, Parts, Shape
<1>5. CASE Step(c, Extended(r, g))
  <2>1. Good(Extended(r, g), sn, gp, drawn, fixed)
    BY <1>3, <1>4, ExtendedGood
  <2>2. Kept(r, Extended(r, g))
    BY <1>2, ExtendedKeeps
  <2>3. QED
    BY <1>1, <1>5, <2>1, <2>2, StepKeeps DEF r, sn, gp
<1>6. ASSUME NEW pids \in SUBSET Service,
             Step(c, [r EXCEPT !.phase = "lookup", !.guideline = g, !.pids = pids])
      PROVE  Inv'
  <2> DEFINE s == [r EXCEPT !.phase = "lookup", !.guideline = g, !.pids = pids]
  <2>1. /\ s \in CallState
        /\ s.phase = "lookup" /\ s.op = r.op /\ s.coll = r.coll /\ s.status = r.status
        /\ s.found = r.found /\ s.got = r.got /\ s.related = r.related
        /\ s.draw = r.draw /\ s.results = r.results /\ s.isRand = r.isRand /\ s.need = r.need
        /\ s.guideline = g /\ Kept(r, s)
    BY <1>1, <1>2, <1>4 DEF Kept, CallState, Phases
  <2> HIDE DEF s
  <2>2. Fit(s, sn)
    BY <1>3, <2>1 DEF Fit, Sound, HoldsSome
  <2>3. Parts(s, gp)
    BY <1>4, <2>1 DEF Parts, HasOffers, HasServices, Offers, Ok
  <2>4. Good(s, sn, gp, drawn, fixed)
    BY <1>1, <1>4, <2>1, <2>2, <2>3, FitIsGood DEF Extending
  <2>5. QED
    BY <1>1, <1>6, <2>1, <2>4, StepKeeps DEF r, s, sn, gp
<1>7. QED
    BY <1>5, <1>6 DEF GetRelated, r

LEMMA LookUpStep ==
    ASSUME Inv, NEW c \in Call, NEW d \in Doc, LookUp(c, d)
    PROVE  Inv'
<1> DEFINE r == call[c]
           g == r.guideline
           sn == seen[c]
           gp == gap[c]
<1>1. r.phase = "lookup" /\ d \in r.pids /\ Running(c)
    BY DEF LookUp, Running
<1>2. Good(r, sn, gp, drawn, fixed) /\ r \in CallState /\ solr \subseteq sn
    BY <1>1, CallFacts
<1>3. Fit(r, sn)
    BY <1>1, <1>2, ExtendingFits DEF Extending
<1> HIDE DEF r, sn, gp
<1>4. /\ HasOffers(r, gp) /\ HasServices(r, gp)
      /\ r.need \subseteq Guideline \cap r.found
      /\ g \in Guideline \cap r.found /\ d \in Service
    BY <1>1, <1>2 DEF Good, Parts, Shape, CallState
<1>5. Kept(r, LookedUp(r, g, d)) /\ Kept(r, LookUpRaises(r, g))
    BY <1>2, <1>4, LookedUpKeeps
<1>6. CASE Step(c, LookedUp(r, g, d))
  <2> DEFINE n == [r EXCEPT !.pids = @ \ {d},
                            !.related = IF d \in solr THEN @ \cup {<<g, d>>} ELSE @]
  <2>1. /\ n \in CallState
        /\ n.phase = "lookup" /\ n.op = r.op /\ n.coll = r.coll /\ n.status = r.status
        /\ n.found = r.found /\ n.got = r.got
        /\ n.related = IF d \in solr THEN r.related \cup {<<g, d>>} ELSE r.related
        /\ n.draw = r.draw /\ n.results = r.results /\ n.isRand = r.isRand /\ n.need = r.need
        /\ n.guideline = g
    <3> DEFINE related == IF d \in solr THEN r.related \cup {<<g, d>>} ELSE r.related
    <3>1. <<g, d>> \in Guideline \X Service /\ r.related \subseteq Guideline \X Service
        BY <1>2, <1>4 DEF CallState
    <3>2. related \in SUBSET (Guideline \X Service)
        BY <3>1
    <3>3. n = [r EXCEPT !.pids = @ \ {d}, !.related = related]
        OBVIOUS
    <3> HIDE DEF related, n
    <3>4. /\ n \in CallState
          /\ n.phase = r.phase /\ n.op = r.op /\ n.coll = r.coll /\ n.status = r.status
          /\ n.found = r.found /\ n.got = r.got /\ n.related = related
          /\ n.draw = r.draw /\ n.results = r.results /\ n.isRand = r.isRand /\ n.need = r.need
          /\ n.guideline = r.guideline
        BY <1>2, <3>2, <3>3 DEF CallState
    <3>5. QED
        BY <1>1, <3>4 DEF related
  <2> HIDE DEF n
  <2>2. \A p \in n.related : p[1] \in n.found /\ p[2] \in sn
    BY <1>2, <1>3, <1>4, <2>1 DEF Fit, Sound
  <2>3. Fit(n, sn)
    BY <1>3, <2>1, <2>2 DEF Fit, Sound, HoldsSome
  <2>4. HasOffers(n, gp) /\ HasServices(n, gp)
    BY <1>4, <2>1 DEF HasOffers, HasServices, Offers
  <2>5. Parts(n, gp)
    BY <2>1, <2>4 DEF Parts, Ok
  <2>6. Good(n, sn, gp, drawn, fixed)
    BY <1>4, <2>1, <2>3, <2>5, FitIsGood DEF Extending
  <2>7. Good(Extended(n, g), sn, gp, drawn, fixed)
    BY <1>4, <2>1, <2>3, <2>4, ExtendedGood
  <2>8. Good(LookedUp(r, g, d), sn, gp, drawn, fixed)
    BY <2>6, <2>7 DEF LookedUp, n
  <2>9. QED
    BY <1>1, <1>6, <1>5, <2>8, StepKeeps DEF r, sn, gp
<1>7. CASE Step(c, LookUpRaises(r, g))
  <2> DEFINE n == [r EXCEPT !.pids = {}, !.guideline = None,
                            !.related = @ \ ({g} \X Service)]
  <2>1. /\ n \in CallState
        /\ n.op = r.op /\ n.coll = r.coll /\ n.status = r.status
        /\ n.found = r.found /\ n.got = r.got /\ n.related \subseteq r.related
        /\ n.draw = r.draw /\ n.results = r.results /\ n.isRand = r.isRand
    BY <1>2 DEF CallState
  <2> HIDE DEF n
  <2>2. Fit(n, sn)
    BY <1>3, <2>1 DEF Fit, Sound, HoldsSome
  <2>3. HasOffers(n, gp) /\ HasServices(n, gp)
    BY <1>4, <2>1 DEF HasOffers, HasServices, Offers
  <2>4. Good(Output(n), sn, gp, drawn, fixed)
    BY <2>2, <2>3, OutputGood
  <2>5. Good(LookUpRaises(r, g), sn, gp, drawn, fixed)
    BY <2>4 DEF LookUpRaises, n
  <2>6. QED
    BY <1>1, <1>7, <1>5, <2>5, StepKeeps DEF r, sn, gp
<1>8. QED
    BY <1>6, <1>7 DEF LookUp, r

LEMMA RelevanceStep ==
    ASSUME Inv, NEW c \in Call, SortByRelevance(c)
    PROVE  Inv'
<1> DEFINE r == call[c]
           sn == seen[c]
           gp == gap[c]
<1>1. r.phase = "relevance" /\ Running(c)
    BY DEF SortByRelevance, Running
<1>2. Good(r, sn, gp, drawn, fixed) /\ Sane(r, sn, drawn)
    BY CallFacts
<1>3. Fit(r, sn) /\ HasOffers(r, gp) /\ HasServices(r, gp)
    BY <1>1, <1>2, ExtendingFits DEF Extending, Good, Parts
<1> HIDE DEF sn, gp
<1>4. ASSUME NEW ids \in SUBSET (r.found \cap Candidates), Step(c, Ended(r, "ok", ids))
      PROVE  Inv'
  <2>1. ids \in SUBSET Doc /\ ids \subseteq sn /\ ids \subseteq r.found
    BY <1>3 DEF Fit, Sound, CallState
  <2>2. Good(Ended(r, "ok", ids), sn, gp, drawn, fixed)
    BY <1>2, <1>3, <2>1, OkGood DEF Fit
  <2>3. Kept(r, Ended(r, "ok", ids))
    BY <1>3, EndedKeeps DEF Fit, Sound
  <2>4. QED
    BY <1>1, <1>4, <2>2, <2>3, StepKeeps DEF sn, gp
<1>5. CASE Step(c, Failed(r, "crash"))
    BY <1>1, <1>5, RefusedStep
<1>6. QED
    BY <1>4, <1>5 DEF SortByRelevance

-----------------------------------------------------------------------------
(* Recommendations.                                                        *)

LEMMA RecommendingGood ==
    ASSUME NEW r, NEW sn, NEW gp, NEW D, NEW F, Sound(r, sn),
           r.phase \in {"recommender", "items", "drawing"}, r.op = "recommendations",
           ~r.isRand, r.status = "none", r.phase # "drawing" => r.draw = None
    PROVE  Good(r, sn, gp, D, F)
<1>1. Shape(r)
    BY DEF Shape, Recommending, Extending
<1>2. Parts(r, gp) /\ NonEmpty(r, sn)
    BY DEF Parts, NonEmpty, Ok, Extending
<1>3. Failure(r, gp, D, F) /\ FromCache(r, D, F)
    BY DEF Failure, FromCache
<1>4. QED
    BY <1>1, <1>2, <1>3 DEF Good

\* A call for recommendations, before it falls back.
LEMMA BeforeFallback ==
    ASSUME NEW r, NEW sn, NEW gp, NEW D, NEW F, Good(r, sn, gp, D, F),
           r.phase \in {"recommender", "items", "drawing"}
    PROVE  /\ Sound(r, sn) /\ Sane(r, sn, D)
           /\ r.op = "recommendations" /\ ~r.isRand /\ r.status = "none"
           /\ r.phase # "drawing" => r.draw = None
    BY GoodIsSane DEF Good, Shape, FromCache, Recommending

LEMMA NoneRecommended ==
    ASSUME NEW r, NEW sn, NEW gp, NEW D, NEW F, Sane(r, sn, D),
           r.op = "recommendations", ~r.isRand
    PROVE  Good(Ended(r, "ok", {}), sn, gp, D, F)
    BY OkGood

LEMMA FixedGood ==
    ASSUME NEW r, NEW sn, NEW gp, NEW D, NEW F, Sane(r, sn, D),
           r.op = "recommendations", ~r.isRand, r.status = "none",
           r.draw \in D, F[r.draw] \in SUBSET Doc
    PROVE  Good(Fixed(r, F[r.draw]), sn, gp, D, F)
<1> DEFINE ids == F[r.draw]
           s == [r EXCEPT !.phase = "fixed", !.need = ids, !.got = {}, !.isRand = TRUE]
<1>1. Good(Ended(r, "ok", {}), sn, gp, D, F)
    BY NoneRecommended
<1> HIDE DEF ids
<1>2. ids \in SUBSET Doc /\ ids = F[r.draw]
    BY DEF ids
<1>3. /\ s \in CallState
      /\ s.phase = "fixed" /\ s.op = r.op /\ s.coll = r.coll /\ s.status = r.status
      /\ s.found = r.found /\ s.got = {} /\ s.related = r.related /\ s.draw = r.draw
      /\ s.results = r.results /\ s.isRand = TRUE /\ s.need = ids
    BY <1>2 DEF Sane, Sound, CallState, Phases
<1> HIDE DEF s
<1>4. Sound(s, sn)
    BY <1>3 DEF Sane, Sound
<1>5. Shape(s)
    BY <1>3 DEF Shape, Recommending, Extending
<1>6. Parts(s, gp) /\ NonEmpty(s, sn) /\ Failure(s, gp, D, F)
    BY <1>3 DEF Parts, NonEmpty, Failure, Ok, Extending
<1>7. FromCache(s, D, F)
    BY <1>2, <1>3 DEF FromCache, Ok
<1>8. Good(s, sn, gp, D, F)
    BY <1>4, <1>5, <1>6, <1>7 DEF Good
<1>9. QED
    BY <1>1, <1>8 DEF Fixed, s, ids

\* A draw begins: its entry takes a place, and another may lose its own.
LEMMA ComputeCache ==
    ASSUME Inv, NEW c \in Call, NEW k, k = KeyOf(call[c]), entry[k] = None,
           call[c].draw = None, Compute(c, k),
           NEW s, call' = [call EXCEPT ![c] = s],
           s.coll = call[c].coll, s.scope = call[c].scope, s.draw = c
    PROVE  /\ drawn' = drawn /\ fixed' = fixed /\ drawing' \subseteq Call \ drawn
           /\ entry' \in [Key -> Call \cup {None}]
           /\ dropped' \subseteq Call
           /\ Cardinality(Held') <= CacheSize
           /\ Shared'
<1>1. /\ call'[c] = s
      /\ \A q \in Call : q # c => call'[q] = call[q]
      /\ drawn \cup drawing \subseteq Call /\ drawing \cap drawn = {}
      /\ \A q \in Call : call[q] \in CallState
      /\ entry \in [Key -> Call \cup {None}] /\ dropped \subseteq Call
    BY DEF Inv, TypeOK
<1>2. /\ \A q \in Call : KeyOf(call'[q]) = KeyOf(call[q]) /\ KeyOf(call[q]) \in Key
      /\ c # None /\ k \in Key
    BY <1>1, SearchServiceAssumption DEF KeyOf, Key, CallState
<1>3. c \notin drawn \cup drawing
    BY <1>2 DEF Inv, Shared, Own
<1>4. drawn' = drawn /\ fixed' = fixed /\ drawing' = drawing \cup {c}
    BY DEF Compute
<1>5. /\ IsFiniteSet(Held) /\ Cardinality(Held) \in Nat /\ Cardinality(Held) <= CacheSize
      /\ Held \ {k} = Held /\ k \notin Held /\ CacheSize \in Nat
    BY FS_CardinalityType, SearchServiceAssumption DEF Inv, Shared, TypeOK, Held
<1>6. /\ IsFiniteSet(Held') /\ Cardinality(Held') <= CacheSize
      /\ entry' \in [Key -> Call \cup {None}] /\ dropped' \subseteq Call
      /\ entry'[k] = c
      /\ dropped \subseteq dropped'
      /\ \A q \in Key \ {k} :
            \/ entry'[q] = entry[q]
            \/ entry'[q] = None /\ entry[q] \in dropped'
  <2>1. CASE /\ Cardinality(Held) < CacheSize
             /\ entry' = [entry EXCEPT ![k] = c]
             /\ UNCHANGED dropped
    <3>1. Held' = Held \cup {k}
        BY <1>1, <1>2, <2>1 DEF Held
    <3>2. IsFiniteSet(Held') /\ Cardinality(Held') = Cardinality(Held) + 1
        BY <1>5, <3>1, FS_AddElement
    <3>3. Cardinality(Held') <= CacheSize
        BY <1>5, <2>1, <3>2
    <3>4. QED
        BY <1>1, <1>2, <2>1, <3>2, <3>3
  <2>2. ASSUME NEW j \in Held, entry' = [entry EXCEPT ![k] = c, ![j] = None],
               dropped' = dropped \cup {entry[j]}
        PROVE  <1>6!:
    <3> DEFINE rest == Held \ {j}
    <3>1. j \in Key /\ j # k /\ entry[j] \in Call
        BY <1>1, <1>5 DEF Held
    <3>2. Held' = rest \cup {k} /\ k \notin rest
        BY <1>1, <1>2, <1>5, <2>2, <3>1 DEF Held
    <3>3. IsFiniteSet(rest) /\ Cardinality(rest) = Cardinality(Held) - 1
        BY <1>5, FS_RemoveElement
    <3> HIDE DEF rest
    <3>4. IsFiniteSet(Held') /\ Cardinality(Held') = Cardinality(rest) + 1
        BY <3>2, <3>3, FS_AddElement
    <3>5. Cardinality(Held') <= CacheSize
        BY <1>5, <3>3, <3>4
    <3>6. QED
        BY <1>1, <1>2, <2>2, <3>1, <3>4, <3>5
  <2>3. QED
    BY <1>5, <2>1, <2>2 DEF Compute
<1>7. Keyed'
  <2> SUFFICES ASSUME NEW q \in Key, entry'[q] # None
               PROVE  entry'[q] \in drawn' \cup drawing' /\ KeyOf(call'[entry'[q]]) = q
    BY DEF Keyed
  <2>1. CASE q = k
    BY <1>2, <1>4, <1>6, <2>1
  <2>2. CASE q # k
    <3>1. entry[q] \in drawn \cup drawing /\ KeyOf(call[entry[q]]) = q /\ entry'[q] = entry[q]
        BY <1>6, <2>2 DEF Inv, Shared, Keyed
    <3>2. QED
        BY <1>1, <1>2, <1>4, <3>1
  <2>3. QED
    BY <2>1, <2>2
<1>8. Own'
    BY <1>1, <1>4 DEF Inv, Shared, Own
<1>9. Given'
  <2> SUFFICES ASSUME NEW q \in Call, call'[q].draw # None
               PROVE  /\ KeyOf(call'[call'[q].draw]) = KeyOf(call'[q])
                      /\ \/ call'[q].draw \in dropped'
                         \/ entry'[KeyOf(call'[q])] = call'[q].draw
    BY DEF Given
  <2>1. CASE q = c
    BY <1>1, <1>2, <1>6, <2>1
  <2>2. CASE q # c
    <3>1. call[q].draw \in Call /\ call'[q].draw = call[q].draw
        BY <1>1, <2>2 DEF CallState
    <3>2. /\ KeyOf(call[call[q].draw]) = KeyOf(call[q])
          /\ call[q].draw \in dropped \/ entry[KeyOf(call[q])] = call[q].draw
        BY <3>1, SearchServiceAssumption DEF Inv, Shared, Given
    <3>3. entry[KeyOf(call[q])] = call[q].draw => KeyOf(call[q]) # k
        BY <3>1, SearchServiceAssumption
    <3>4. QED
        BY <1>2, <1>6, <3>1, <3>2, <3>3
  <2>3. QED
    BY <2>1, <2>2
<1>10. Shared'
    BY <1>6, <1>7, <1>8, <1>9 DEF Shared
<1>11. QED
    BY <1>1, <1>3, <1>4, <1>6, <1>10

\* A call that waits for a draw.
LEMMA WaitForGood ==
    ASSUME NEW r, NEW sn, NEW gp, NEW D, NEW F, Good(r, sn, gp, D, F),
           r.phase \in {"recommender", "items"}, NEW d \in Call
    PROVE  LET s == WaitFor(r, d)
           IN  /\ Good(s, sn, gp, D, F)
               /\ s \in CallState /\ s.draw = d /\ s.coll = r.coll /\ s.scope = r.scope
               /\ s.phase = "drawing"
<1> DEFINE s == WaitFor(r, d)
<1>1. /\ Sound(r, sn) /\ r \in CallState
      /\ r.op = "recommendations" /\ ~r.isRand /\ r.status = "none"
    BY BeforeFallback DEF Sound
<1>2. /\ s \in CallState
      /\ s.phase = "drawing" /\ s.op = r.op /\ s.coll = r.coll /\ s.status = r.status
      /\ s.found = r.found /\ s.got = {} /\ s.related = r.related
      /\ s.draw = d /\ s.results = r.results /\ s.isRand = r.isRand /\ s.scope = r.scope
    BY <1>1 DEF WaitFor, CallState, Phases
<1> HIDE DEF s
<1>3. Sound(s, sn)
    BY <1>1, <1>2 DEF Sound
<1>4. Good(s, sn, gp, D, F)
    BY <1>1, <1>2, <1>3, RecommendingGood
<1>5. QED
    BY <1>2, <1>4 DEF s

LEMMA FallbackStep ==
    ASSUME Inv, NEW c \in Call, call[c].phase \in {"recommender", "items"}, Fallback(c)
    PROVE  Inv'
<1> DEFINE r == call[c]
           d == entry[KeyOf(r)]
<1>1. /\ Good(r, seen[c], gap[c], drawn, fixed) /\ r \in CallState /\ Running(c)
      /\ KeyOf(r) \in Key /\ drawn \cup drawing \subseteq Call
    BY CallFacts DEF Running, CallState, KeyOf, Key, Inv, TypeOK
<1>2. /\ Sound(r, seen[c]) /\ Sane(r, seen[c], drawn)
      /\ r.op = "recommendations" /\ ~r.isRand /\ r.status = "none" /\ r.draw = None
    BY <1>1, BeforeFallback
<1>3. CASE Step(c, Ended(r, "ok", {}))
  <2>1. Good(Ended(r, "ok", {}), seen[c], gap[c], drawn, fixed)
    BY <1>2, NoneRecommended
  <2>2. QED
    BY <1>1, <1>3, <2>1, EndedKeeps, StepKeeps
<1>4. CASE d \in drawn /\ Step(c, Fixed([r EXCEPT !.draw = d], fixed[d]))
  <2> DEFINE s == [r EXCEPT !.draw = d]
  <2>1. d \in Call /\ d # None /\ fixed[d] \in SUBSET Doc
    BY <1>1, <1>4, SearchServiceAssumption DEF Inv, TypeOK
  <2> HIDE DEF d
  <2>2. /\ s \in CallState
        /\ s.phase = r.phase /\ s.op = r.op /\ s.coll = r.coll /\ s.status = r.status
        /\ s.found = r.found /\ s.got = r.got /\ s.related = r.related
        /\ s.draw = d /\ s.results = r.results /\ s.isRand = r.isRand /\ s.scope = r.scope
    BY <1>1, <2>1 DEF CallState
  <2> DEFINE F == fixed
  <2>3. Step(c, Fixed(s, F[s.draw])) /\ s.draw \in drawn /\ F[s.draw] \in SUBSET Doc
    BY <1>4, <2>1, <2>2
  <2> HIDE DEF s, F
  <2>4. Sound(s, seen[c])
    BY <1>2, <2>2 DEF Sound
  <2>5. Sane(s, seen[c], drawn)
    BY <1>2, <2>2, <2>4 DEF Sane
  <2>6. Good(Fixed(s, F[s.draw]), seen[c], gap[c], drawn, F)
    BY <1>2, <2>2, <2>3, <2>5, FixedGood
  <2>7. Kept(s, Fixed(s, F[s.draw]))
    BY <2>2, FixedKeeps
  <2> DEFINE t == Fixed(s, F[s.draw])
  <2>8. /\ t.coll = r.coll /\ t.scope = r.scope /\ t.draw # None
        /\ t.draw = entry[KeyOf(call[c])]
    BY <2>1, <2>2, <2>7 DEF Kept, d
  <2>9. Good(t, seen[c], gap[c], drawn, fixed) /\ Step(c, t)
    BY <2>3, <2>6 DEF F
  <2> HIDE DEF t
  <2>10. QED
    BY <1>1, <1>2, <2>8, <2>9, StepGiven
<1>5. CASE d \in drawing /\ Step(c, WaitFor(r, d))
  <2> DEFINE s == WaitFor(r, d)
  <2>1. /\ Good(s, seen[c], gap[c], drawn, fixed)
        /\ s.draw = d /\ s.coll = r.coll /\ s.scope = r.scope /\ d # None
    BY <1>1, <1>5, WaitForGood, SearchServiceAssumption
  <2> HIDE DEF s
  <2>2. QED
    BY <1>1, <1>2, <1>5, <2>1, StepGiven DEF s
<1>6. CASE /\ d = None
           /\ Compute(c, KeyOf(r))
           /\ call' = [call EXCEPT ![c] = WaitFor(r, c)]
           /\ UNCHANGED <<solr, changes, silent, seen, gap>>
  <2> DEFINE s == WaitFor(r, c)
  <2>1. /\ Good(s, seen[c], gap[c], drawn, fixed) /\ s \in CallState
        /\ s.draw = c /\ s.coll = r.coll /\ s.scope = r.scope /\ s.phase = "drawing"
    BY <1>1, WaitForGood
  <2>2. call' = [call EXCEPT ![c] = s]
    BY <1>6
  <2> HIDE DEF s
  <2>3. /\ call' \in [Call -> CallState]
        /\ call'[c] = s
        /\ \A q \in Call : q # c => call'[q] = call[q]
    BY <2>1, <2>2 DEF Inv, TypeOK
  <2>4. /\ drawn' = drawn /\ fixed' = fixed /\ drawing' \subseteq Call \ drawn
        /\ entry' \in [Key -> Call \cup {None}]
        /\ dropped' \subseteq Call
        /\ Cardinality(Held') <= CacheSize
        /\ Shared'
    BY <1>2, <1>6, <2>1, <2>2, ComputeCache
  <2>5. TypeOK'
    BY <1>6, <2>3, <2>4 DEF Inv, TypeOK
  <2>6. ASSUME NEW q \in Call
        PROVE  Good(call'[q], seen'[q], gap'[q], drawn', fixed')
    BY <1>6, <2>1, <2>3, <2>4 DEF Inv
  <2>7. ASSUME NEW q \in Call, Running(q)'
        PROVE  solr' \subseteq seen'[q] /\ Doc \ solr' \subseteq gap'[q]
    <3>1. Running(q)
        BY <1>1, <2>3, <2>7 DEF Running
    <3>2. QED
        BY <1>6, <3>1 DEF Inv
  <2>8. QED
    BY <2>4, <2>5, <2>6, <2>7 DEF Inv
<1>7. QED
    BY <1>3, <1>4, <1>5, <1>6 DEF Fallback, Entry

LEMMA UuidsStep ==
    ASSUME Inv, NEW c \in Call, GetRecommendedUuids(c)
    PROVE  Inv'
<1> DEFINE r == call[c]
<1>1. r.phase = "recommender" /\ Running(c)
    BY DEF GetRecommendedUuids, Running
<1>2. Good(r, seen[c], gap[c], drawn, fixed) /\ r \in CallState
    BY CallFacts
<1>3. /\ Sound(r, seen[c]) /\ Sane(r, seen[c], drawn)
      /\ r.op = "recommendations" /\ ~r.isRand /\ r.status = "none" /\ r.draw = None
    BY <1>1, <1>2, BeforeFallback
<1>4. ASSUME NEW ids \in SUBSET All,
             Step(c, IF ids = {} THEN Ended(r, "ok", {})
                     ELSE [r EXCEPT !.phase = "items", !.need = ids])
      PROVE  Inv'
  <2> DEFINE s == [r EXCEPT !.phase = "items", !.need = ids]
  <2>1. /\ s \in CallState
        /\ s.phase = "items" /\ s.op = r.op /\ s.coll = r.coll /\ s.status = r.status
        /\ s.found = r.found /\ s.got = r.got /\ s.related = r.related
        /\ s.draw = r.draw /\ s.results = r.results /\ s.isRand = r.isRand
        /\ Kept(r, s)
    BY <1>2 DEF Kept, CallState, Phases, Doc
  <2> HIDE DEF s
  <2>2. Sound(s, seen[c])
    BY <1>3, <2>1 DEF Sound
  <2>3. Good(s, seen[c], gap[c], drawn, fixed)
    BY <1>3, <2>1, <2>2, RecommendingGood
  <2>4. Good(Ended(r, "ok", {}), seen[c], gap[c], drawn, fixed)
    BY <1>3, NoneRecommended
  <2>5. CASE ids = {}
    BY <1>1, <1>2, <1>4, <2>4, <2>5, EndedKeeps, StepKeeps
  <2>6. CASE ids # {}
    BY <1>1, <1>4, <2>1, <2>3, <2>6, StepKeeps DEF s
  <2>7. QED
    BY <2>5, <2>6
<1>5. CASE Fallback(c)
    BY <1>1, <1>5, FallbackStep
<1>6. CASE Step(c, Failed(r, "crash"))
    BY <1>1, <1>6, RefusedStep
<1>7. QED
    BY <1>4, <1>5, <1>6 DEF GetRecommendedUuids

LEMMA GotGood ==
    ASSUME NEW r, NEW sn, NEW gp, NEW D, NEW F, Good(r, sn, gp, D, F),
           r.phase \in {"items", "fixed"}, NEW d \in r.need, d \in sn
    PROVE  Good(Got(r, d), sn, gp, D, F)
<1> DEFINE s == [r EXCEPT !.need = @ \ {d}, !.got = @ \cup {d}]
<1>1. r \in CallState /\ r.op = "recommendations" /\ r.status = "none"
    BY DEF Good, Sound, Shape, Recommending
<1>2. /\ s \in CallState
      /\ s.phase = r.phase /\ s.op = r.op /\ s.coll = r.coll /\ s.status = r.status
      /\ s.found = r.found /\ s.related = r.related
      /\ s.draw = r.draw /\ s.results = r.results /\ s.isRand = r.isRand
      /\ s.need = r.need \ {d} /\ s.got = r.got \cup {d}
    BY <1>1 DEF CallState
<1> HIDE DEF s
<1>3. Sound(s, sn)
    BY <1>2 DEF Good, Sound
<1>4. s.need \cup s.got = r.need \cup r.got
    BY <1>2
<1>5. FromCache(s, D, F)
    BY <1>1, <1>2, <1>4 DEF Good, FromCache, Ok
<1>6. Good(s, sn, gp, D, F)
  <2>1. Shape(s)
    BY <1>1, <1>2 DEF Shape, Recommending, Extending
  <2>2. Parts(s, gp) /\ NonEmpty(s, sn) /\ Failure(s, gp, D, F)
    BY <1>1, <1>2 DEF Parts, NonEmpty, Failure, Ok, Extending
  <2>3. QED
    BY <1>3, <1>5, <2>1, <2>2 DEF Good
<1>7. CASE s.need = {}
  <2>1. s.isRand => s.got = F[s.draw]
    BY <1>2, <1>5, <1>7 DEF Good, FromCache
  <2>2. Sane(s, sn, D) /\ s.got \subseteq sn /\ s.got \in SUBSET Doc
    BY <1>2, <1>3, <1>6, GoodIsSane DEF Sound, CallState
  <2>3. Good(Ended(s, "ok", s.got), sn, gp, D, F)
    BY <1>1, <1>2, <2>1, <2>2, OkGood
  <2>4. QED
    BY <1>7, <2>3 DEF Got, s
<1>8. CASE s.need # {}
    BY <1>6, <1>8 DEF Got, s
<1>9. QED
    BY <1>7, <1>8

LEMMA ItemStep ==
    ASSUME Inv, NEW c \in Call, NEW d \in Doc, GetRecommendedItem(c, d)
    PROVE  Inv'
<1> DEFINE r == call[c]
<1>1. r.phase = "items" /\ d \in r.need /\ Running(c)
    BY DEF GetRecommendedItem, Running
<1>2. /\ Good(r, seen[c], gap[c], drawn, fixed) /\ solr \subseteq seen[c]
      /\ r \in CallState
    BY <1>1, CallFacts
<1>3. CASE Step(c, Failed(r, "refused"))
    BY <1>1, <1>3, RefusedStep
<1>4. CASE d \in solr /\ Step(c, Got(r, d))
  <2>1. Good(Got(r, d), seen[c], gap[c], drawn, fixed)
    BY <1>1, <1>2, <1>4, GotGood
  <2>2. QED
    BY <1>1, <1>2, <1>4, <2>1, GotKeeps, StepKeeps
<1>5. CASE Fallback(c)
    BY <1>1, <1>5, FallbackStep
<1>6. QED
    BY <1>3, <1>4, <1>5 DEF GetRecommendedItem

LEMMA FixedItemStep ==
    ASSUME Inv, NEW c \in Call, NEW d \in Doc, GetFixedItem(c, d)
    PROVE  Inv'
<1> DEFINE r == call[c]
<1>1. r.phase = "fixed" /\ d \in r.need /\ Running(c)
    BY DEF GetFixedItem, Running
<1>2. /\ Good(r, seen[c], gap[c], drawn, fixed) /\ Sane(r, seen[c], drawn)
      /\ solr \subseteq seen[c] /\ Doc \ solr \subseteq gap[c] /\ r \in CallState
    BY <1>1, CallFacts
<1>3. CASE Step(c, Failed(r, "refused"))
    BY <1>1, <1>3, RefusedStep
<1>4. CASE d \in solr /\ Step(c, Got(r, d))
  <2>1. Good(Got(r, d), seen[c], gap[c], drawn, fixed)
    BY <1>1, <1>2, <1>4, GotGood
  <2>2. QED
    BY <1>1, <1>2, <1>4, <2>1, GotKeeps, StepKeeps
<1>5. CASE d \notin solr /\ Step(c, Failed(r, "gone"))
  <2>1. d \in fixed[r.draw] /\ r.draw \in drawn /\ r.op = "recommendations"
    BY <1>1, <1>2 DEF Good, FromCache, Shape, Recommending
  <2>2. Missing(r, gap[c], drawn, fixed)
    BY <1>2, <1>5, <2>1 DEF Missing
  <2>3. Good(Failed(r, "gone"), seen[c], gap[c], drawn, fixed)
    BY <1>2, <2>2, FailedGood
  <2>4. QED
    BY <1>1, <1>2, <1>5, <2>3, EndedKeeps, StepKeeps
<1>6. QED
    BY <1>3, <1>4, <1>5 DEF GetFixedItem

-----------------------------------------------------------------------------
(* The cache, the arrival of calls, and the changes in Solr.               *)

\* What is known of a call stays so when another draw than its own ends, or
\* while it does not rely on one.
LEMMA GoodWithEntry ==
    ASSUME NEW r, NEW sn, NEW gp, NEW D, NEW F, NEW E, NEW k, Good(r, sn, gp, D, F),
           k \notin D, \A j \in D : E[j] = F[j]
    PROVE  Good(r, sn, gp, D \cup {k}, E)
<1>1. Failure(r, gp, D \cup {k}, E)
    BY DEF Good, Failure, Missing
<1>2. FromCache(r, D \cup {k}, E)
    BY DEF Good, FromCache
<1>3. QED
    BY <1>1, <1>2 DEF Good

LEMMA GoodLater ==
    ASSUME NEW r, NEW sn, NEW gp, NEW sn2, NEW gp2, NEW D, NEW F, Good(r, sn, gp, D, F),
           sn \subseteq sn2, gp \subseteq gp2
    PROVE  Good(r, sn2, gp2, D, F)
<1>1. Sound(r, sn2)
    BY DEF Good, Sound
<1>2. Parts(r, gp2)
    BY DEF Good, Parts, HasOffers, HasServices
<1>3. NonEmpty(r, sn2)
    BY DEF Good, NonEmpty, HoldsSome
<1>4. Failure(r, gp2, D, F)
    BY DEF Good, Failure, Missing, Empty
<1>5. QED
    BY <1>1, <1>2, <1>3, <1>4 DEF Good

\* A step that changes the calls and the cache, and wakes no call that was not
\* running.
LEMMA CallsAndCache ==
    ASSUME Inv, UNCHANGED <<solr, changes, silent, seen, gap>>,
           drawn' \subseteq Call, drawing' \subseteq Call \ drawn',
           fixed' \in [Call -> SUBSET Doc], entry' \in [Key -> Call \cup {None}],
           Cardinality(Held') <= CacheSize, dropped' \subseteq Call, Shared',
           call' = [c \in Call |-> call'[c]],
           \A c \in Call : Good(call'[c], seen[c], gap[c], drawn', fixed'),
           \A c \in Call : call'[c] = call[c] \/ Running(c)
    PROVE  Inv'
<1>1. \A c \in Call : call'[c] \in CallState
    BY DEF Good, Sound
<1>2. TypeOK'
    BY <1>1 DEF Inv, TypeOK
<1>3. \A c \in Call : Good(call'[c], seen'[c], gap'[c], drawn', fixed')
    OBVIOUS
<1>4. ASSUME NEW c \in Call, Running(c)'
      PROVE  solr' \subseteq seen'[c] /\ Doc \ solr' \subseteq gap'[c]
  <2>1. Running(c)
    BY <1>4 DEF Running
  <2>2. QED
    BY <2>1 DEF Inv
<1>5. QED
    BY <1>2, <1>3, <1>4 DEF Inv

\* A call that waits for a draw.
LEMMA WaitingFacts ==
    ASSUME Inv, NEW d, NEW c \in Waiting(d)
    PROVE  /\ c \in Call /\ Running(c) /\ call[c].draw = d /\ call[c] \in CallState
           /\ Good(call[c], seen[c], gap[c], drawn, fixed)
           /\ Sane(call[c], seen[c], drawn)
           /\ call[c].op = "recommendations" /\ ~call[c].isRand /\ call[c].status = "none"
<1>1. c \in Call /\ call[c].phase = "drawing" /\ call[c].draw = d
    BY DEF Waiting
<1>2. Good(call[c], seen[c], gap[c], drawn, fixed) /\ call[c] \in CallState
    BY <1>1, CallFacts
<1>3. QED
    BY <1>1, <1>2, BeforeFallback DEF Running

\* The entry of a draw that failed is removed, or that of a later one of its key.
LEMMA ForgetCache ==
    ASSUME Inv, NEW d \in drawing, Forget(KeyOf(call[d])),
           drawing' = drawing \ {d}, drawn' = drawn,
           \A q \in Call : Kept(call[q], call'[q])
    PROVE  /\ entry' \in [Key -> Call \cup {None}]
           /\ dropped' \subseteq Call
           /\ Cardinality(Held') <= CacheSize
           /\ Shared'
<1> DEFINE k == KeyOf(call[d])
<1>1. /\ drawn \cup drawing \subseteq Call /\ d \in Call
      /\ \A q \in Call : call[q] \in CallState
      /\ entry \in [Key -> Call \cup {None}] /\ dropped \subseteq Call
    BY DEF Inv, TypeOK
<1>2. /\ \A q \in Call : KeyOf(call'[q]) = KeyOf(call[q]) /\ KeyOf(call[q]) \in Key
      /\ \A q \in Call : call'[q].draw = call[q].draw
      /\ k \in Key
    BY <1>1 DEF Kept, KeyOf, Key, CallState
<1>3. /\ entry' = [entry EXCEPT ![k] = None]
      /\ dropped' = dropped \cup ({entry[k]} \ {None})
    BY DEF Forget
<1>4. k = KeyOf(call[d])
    OBVIOUS
<1> HIDE DEF k
<1>5. /\ entry' \in [Key -> Call \cup {None}] /\ dropped' \subseteq Call
      /\ entry'[k] = None /\ \A q \in Key \ {k} : entry'[q] = entry[q]
      /\ Held' = Held \ {k}
    BY <1>1, <1>2, <1>3 DEF Held
<1>6. IsFiniteSet(Held') /\ Cardinality(Held') <= CacheSize
  <2>1. IsFiniteSet(Held) /\ Cardinality(Held) \in Nat /\ Cardinality(Held) <= CacheSize
    BY FS_CardinalityType DEF Inv, Shared, TypeOK
  <2>2. /\ IsFiniteSet(Held \ {k})
        /\ Cardinality(Held \ {k}) = IF k \in Held THEN Cardinality(Held) - 1
                                     ELSE Cardinality(Held)
    BY <2>1, FS_RemoveElement
  <2>3. QED
    BY <1>5, <2>1, <2>2, SearchServiceAssumption
<1>7. Keyed'
  <2> SUFFICES ASSUME NEW q \in Key, entry'[q] # None
               PROVE  entry'[q] \in drawn' \cup drawing' /\ KeyOf(call'[entry'[q]]) = q
    BY DEF Keyed
  <2>1. q # k /\ entry'[q] = entry[q]
    BY <1>5
  <2>2. entry[q] \in drawn \cup drawing /\ KeyOf(call[entry[q]]) = q
    BY <2>1 DEF Inv, Shared, Keyed
  <2>3. entry[q] # d
    BY <1>4, <2>1, <2>2
  <2>4. QED
    BY <1>1, <1>2, <2>1, <2>2, <2>3
<1>8. Own'
    BY <1>1, <1>2 DEF Inv, Shared, Own
<1>9. Given'
  <2> SUFFICES ASSUME NEW q \in Call, call[q].draw # None
               PROVE  /\ KeyOf(call[call[q].draw]) = KeyOf(call[q])
                      /\ \/ call[q].draw \in dropped'
                         \/ entry'[KeyOf(call[q])] = call[q].draw
    <3>1. \A q \in Call : call[q].draw # None => call[q].draw \in Call
        BY <1>1 DEF CallState
    <3>2. QED
        BY <1>2, <3>1 DEF Given
  <2>1. /\ KeyOf(call[call[q].draw]) = KeyOf(call[q])
        /\ call[q].draw \in dropped \/ entry[KeyOf(call[q])] = call[q].draw
    BY DEF Inv, Shared, Given
  <2>2. CASE KeyOf(call[q]) = k
    BY <1>3, <2>1, <2>2
  <2>3. CASE KeyOf(call[q]) # k
    BY <1>2, <1>3, <1>5, <2>1, <2>3
  <2>4. QED
    BY <2>1, <2>2, <2>3
<1>10. QED
    BY <1>5, <1>6, <1>7, <1>8, <1>9 DEF Shared

LEMMA RaiseStep ==
    ASSUME Inv, NEW d \in drawing, NEW status \in {"empty", "refused"},
           status = "empty" => solr \cap All = {},
           call' = Raised(d, status), drawing' = drawing \ {d}, Forget(KeyOf(call[d])),
           UNCHANGED <<solr, changes, silent, seen, gap, drawn, fixed>>
    PROVE  Inv'
<1> DEFINE N(c) == IF c \in Waiting(d) THEN Failed(call[c], status) ELSE call[c]
<1>1. ASSUME NEW c \in Waiting(d), status = "empty"
      PROVE  Empty(call[c], gap[c])
  <2>1. Doc \ solr \subseteq gap[c]
    BY <1>1, WaitingFacts, CallFacts
  <2>2. All \subseteq gap[c]
    BY <1>1, <2>1 DEF Doc
  <2>3. QED
    BY <1>1, <2>2, WaitingFacts DEF Empty
<1>2. ASSUME NEW c \in Call
      PROVE  /\ Good(N(c), seen[c], gap[c], drawn', fixed')
             /\ N(c) = call[c] \/ Running(c)
             /\ Kept(call[c], N(c))
  <2>1. CASE c \in Waiting(d)
    <3>1. Good(Failed(call[c], status), seen[c], gap[c], drawn, fixed)
        BY <1>1, <2>1, WaitingFacts, FailedGood
    <3>2. Kept(call[c], Failed(call[c], status))
        BY <2>1, WaitingFacts, EndedKeeps
    <3>3. QED
        BY <2>1, <3>1, <3>2, WaitingFacts
  <2>2. CASE c \notin Waiting(d)
    BY <2>2, CallFacts DEF Kept
  <2>3. QED
    BY <2>1, <2>2
<1>3. call' = [c \in Call |-> N(c)]
    BY DEF Raised
<1>4. /\ drawn' \subseteq Call /\ drawing' \subseteq Call \ drawn'
      /\ fixed' \in [Call -> SUBSET Doc]
    BY DEF Inv, TypeOK
<1> HIDE DEF N
<1>5. \A c \in Call : call'[c] = N(c)
    BY <1>3
<1>6. \A c \in Call : Kept(call[c], call'[c])
    BY <1>2, <1>5
<1>7. /\ entry' \in [Key -> Call \cup {None}] /\ dropped' \subseteq Call
      /\ Cardinality(Held') <= CacheSize /\ Shared'
    BY <1>6, ForgetCache
<1>8. QED
    BY <1>2, <1>3, <1>4, <1>5, <1>7, CallsAndCache

LEMMA DrawnStep ==
    ASSUME Inv, NEW d \in drawing, NEW ids \in SUBSET Doc,
           drawn' = drawn \cup {d}, fixed' = [fixed EXCEPT ![d] = ids],
           call' = Resumed(d, ids), drawing' = drawing \ {d},
           UNCHANGED <<solr, changes, silent, entry, dropped, seen, gap>>
    PROVE  Inv'
<1> DEFINE N(c) == IF c \in Waiting(d) THEN Fixed(call[c], ids) ELSE call[c]
<1>1. /\ d \in Call /\ d \notin drawn
      /\ drawn' \subseteq Call /\ drawing' \subseteq Call \ drawn'
      /\ fixed' \in [Call -> SUBSET Doc]
      /\ fixed'[d] = ids
      /\ \A j \in drawn : fixed'[j] = fixed[j]
      /\ drawn' \cup drawing' = drawn \cup drawing
    BY DEF Inv, TypeOK
<1>2. ASSUME NEW c \in Call
      PROVE  /\ Good(N(c), seen[c], gap[c], drawn', fixed')
             /\ N(c) = call[c] \/ Running(c)
             /\ Kept(call[c], N(c))
  <2>1. Good(call[c], seen[c], gap[c], drawn \cup {d}, fixed')
    BY <1>1, CallFacts, GoodWithEntry
  <2>2. CASE c \in Waiting(d)
    <3>1. Sane(call[c], seen[c], drawn \cup {d}) /\ call[c].draw = d
        BY <2>1, <2>2, GoodIsSane, WaitingFacts
    <3>2. /\ call[c].draw \in drawn \cup {d} /\ fixed'[call[c].draw] = ids
          /\ fixed'[call[c].draw] \in SUBSET Doc
        BY <1>1, <3>1
    <3>3. /\ call[c].op = "recommendations" /\ ~call[c].isRand
          /\ call[c].status = "none" /\ Running(c) /\ call[c] \in CallState
        BY <2>2, WaitingFacts
    <3> DEFINE r == call[c]
               F == fixed'
    <3>4. Sane(r, seen[c], drawn \cup {d}) /\ r.draw \in drawn \cup {d}
          /\ F[r.draw] \in SUBSET Doc
          /\ r.op = "recommendations" /\ ~r.isRand /\ r.status = "none"
        BY <3>1, <3>2, <3>3
    <3>5. Kept(r, Fixed(r, ids))
        BY <3>3, FixedKeeps
    <3> HIDE DEF r, F
    <3>6. Good(Fixed(r, F[r.draw]), seen[c], gap[c], drawn \cup {d}, F)
        BY <3>4, FixedGood
    <3>7. QED
        BY <2>2, <3>2, <3>3, <3>5, <3>6 DEF r, F
  <2>3. CASE c \notin Waiting(d)
    BY <2>1, <2>3 DEF Kept
  <2>4. QED
    BY <2>2, <2>3
<1>3. call' = [c \in Call |-> N(c)]
    BY DEF Resumed
<1> HIDE DEF N
<1>4. \A c \in Call : call'[c] = N(c)
    BY <1>3
<1>5. \A c \in Call : Kept(call[c], call'[c])
    BY <1>2, <1>4
<1>6. Shared'
    BY <1>1, <1>5, SharedStays DEF Inv
<1>7. /\ entry' \in [Key -> Call \cup {None}] /\ dropped' \subseteq Call
      /\ Cardinality(Held') <= CacheSize
    BY DEF Inv, TypeOK, Held
<1>8. QED
    BY <1>1, <1>2, <1>3, <1>4, <1>6, <1>7, CallsAndCache

LEMMA DrawStep ==
    ASSUME Inv, NEW d \in Call, Draw(d)
    PROVE  Inv'
<1>1. /\ d \in drawing /\ drawing' = drawing \ {d}
      /\ UNCHANGED <<solr, changes, silent, seen, gap>>
    BY DEF Draw
<1>2. ASSUME NEW ids \in SUBSET (solr \cap Index[FixedOf(call[d].coll)]),
             drawn' = drawn \cup {d}, fixed' = [fixed EXCEPT ![d] = ids],
             call' = Resumed(d, ids), UNCHANGED <<entry, dropped>>
      PROVE  Inv'
  <2>1. ids \in SUBSET Doc
    BY DEF Inv, TypeOK
  <2>2. QED
    BY <1>1, <1>2, <2>1, DrawnStep
<1>3. ASSUME NEW status \in {"empty", "refused"}, status = "empty" => solr \cap All = {},
             call' = Raised(d, status), Forget(KeyOf(call[d])), UNCHANGED <<drawn, fixed>>
      PROVE  Inv'
    BY <1>1, <1>3, RaiseStep
<1>4. QED
    BY <1>2, <1>3 DEF Draw

LEMMA BeginStep ==
    ASSUME Inv, NEW c \in Call, Begin(c)
    PROVE  Inv'
<1> DEFINE i == call[c]
           r == [i EXCEPT !.asked = Branches(i.op, i.coll)]
           searching == [r EXCEPT !.phase = "search"]
           asking == [r EXCEPT !.phase = "recommender"]
           sn == solr
           gp == Doc \ solr
<1>1. /\ i.phase = "idle" /\ i \in CallState
      /\ seen' = [seen EXCEPT ![c] = sn] /\ gap' = [gap EXCEPT ![c] = gp]
      /\ UNCHANGED <<solr, changes, silent, entry, drawing, drawn, fixed, dropped>>
    BY CallFacts DEF Begin, cache
<1>2. call' = [call EXCEPT ![c] =
          IF r.op # "recommendations" THEN searching
          ELSE IF r.coll \in WithPanel THEN asking
          ELSE Failed(r, "crash")]
    BY DEF Begin
<1>3. /\ i.found = {} /\ i.got = {} /\ i.results = {} /\ i.related = {}
      /\ i.status = "none" /\ ~i.isRand /\ i.op \in Operations /\ i.coll \in Collection
      /\ i.draw = None
    BY <1>1, CallFacts DEF Good, Shape, FromCache, CallState
<1>4. Branches(i.op, i.coll) \subseteq Collection \cup Facet
    BY <1>3, BranchFacts
<1> HIDE DEF i, sn, gp
<1>5. /\ r \in CallState /\ r.op = i.op /\ r.coll = i.coll
      /\ r.found = {} /\ r.got = {} /\ r.results = {} /\ r.related = {} /\ ~r.isRand
      /\ r.status = "none" /\ r.asked = Branches(i.op, i.coll)
      /\ r.sanity = i.sanity /\ r.draw = None /\ Kept(i, r)
    BY <1>1, <1>3, <1>4 DEF Kept, CallState
<1> HIDE DEF r
<1>6. Good(Failed(r, "crash"), sn, gp, drawn, fixed)
  <2>1. Sane(r, sn, drawn)
    BY <1>5 DEF Sane, Sound
  <2>2. QED
    BY <2>1, FailedGood
<1>7. ASSUME r.op = "recommendations"
      PROVE  Good(asking, sn, gp, drawn, fixed)
  <2>1. /\ asking \in CallState /\ asking.op = r.op /\ asking.phase = "recommender"
        /\ asking.found = {} /\ asking.got = {} /\ asking.results = {}
        /\ asking.related = {} /\ ~asking.isRand /\ asking.status = "none"
        /\ asking.draw = None
    BY <1>5 DEF CallState, Phases
  <2> HIDE DEF asking
  <2>2. Sound(asking, sn)
    BY <2>1 DEF Sound
  <2>3. QED
    BY <1>7, <2>1, <2>2, RecommendingGood
<1>8. ASSUME r.op # "recommendations"
      PROVE  Good(searching, sn, gp, drawn, fixed)
  <2>1. /\ searching \in CallState /\ searching.phase = "search"
        /\ searching.op = r.op /\ searching.coll = r.coll
        /\ searching.found = {} /\ searching.got = {} /\ searching.results = {}
        /\ searching.related = {} /\ ~searching.isRand /\ searching.status = "none"
        /\ searching.asked = r.asked /\ searching.sanity = r.sanity
        /\ searching.draw = None
    BY <1>5 DEF CallState, Phases
  <2> HIDE DEF searching
  <2>2. Sound(searching, sn)
    BY <2>1 DEF Sound
  <2>3. searching.sanity = {}
    BY <1>1, <1>5, <2>1, CallFacts DEF i, Good, Shape
  <2>4. Shape(searching)
    BY <1>5, <1>8, <2>1, <2>3 DEF Shape, Recommending, Extending
  <2>5. /\ Parts(searching, gp) /\ NonEmpty(searching, sn)
        /\ Failure(searching, gp, drawn, fixed) /\ FromCache(searching, drawn, fixed)
    BY <2>1 DEF Parts, NonEmpty, Failure, FromCache, Ok, Extending
  <2>6. QED
    BY <2>2, <2>4, <2>5 DEF Good
<1> DEFINE n == IF r.op # "recommendations" THEN searching
                ELSE IF r.coll \in WithPanel THEN asking
                ELSE Failed(r, "crash")
<1>9. Good(n, sn, gp, drawn, fixed)
    BY <1>6, <1>7, <1>8
<1>10. Kept(i, n)
  <2>1. Kept(r, searching) /\ Kept(r, asking)
    BY <1>5 DEF Kept, CallState
  <2>2. Kept(r, Failed(r, "crash"))
    BY <1>5, EndedKeeps
  <2>3. Kept(r, n)
    BY <2>1, <2>2, Zenon
  <2>4. QED
    BY <1>5, <2>3, KeptTwice
<1>11. call' = [call EXCEPT ![c] = n]
    BY <1>2
<1> HIDE DEF n
<1>12. n \in CallState /\ sn \subseteq Doc /\ gp \subseteq Doc
    BY <1>9, CallFacts DEF Good, Sound, sn, gp
<1>13. /\ call' \in [Call -> CallState] /\ seen' \in [Call -> SUBSET Doc]
       /\ gap' \in [Call -> SUBSET Doc]
       /\ call'[c] = n /\ seen'[c] = sn /\ gap'[c] = gp
       /\ \A q \in Call : q # c =>
             call'[q] = call[q] /\ seen'[q] = seen[q] /\ gap'[q] = gap[q]
    BY <1>1, <1>11, <1>12 DEF Inv, TypeOK
<1>14. TypeOK'
    BY <1>1, <1>13 DEF Inv, TypeOK, Held
<1>15. Shared'
  <2>1. \A q \in Call : Kept(call[q], call'[q])
    BY <1>13, <1>10 DEF Kept, i
  <2>2. QED
    BY <1>1, <2>1, SharedStays DEF Inv
<1>16. ASSUME NEW q \in Call
       PROVE  Good(call'[q], seen'[q], gap'[q], drawn', fixed')
    BY <1>1, <1>9, <1>13 DEF Inv
<1>17. ASSUME NEW q \in Call, Running(q)'
       PROVE  solr' \subseteq seen'[q] /\ Doc \ solr' \subseteq gap'[q]
  <2>1. CASE q = c
    BY <1>1, <1>13, <2>1 DEF sn, gp
  <2>2. CASE q # c
    BY <1>1, <1>13, <1>17, <2>2 DEF Inv, Running
  <2>3. QED
    BY <2>1, <2>2
<1>18. QED
    BY <1>14, <1>16, <1>17, <1>15 DEF Inv

LEMMA ChangeStep ==
    ASSUME Inv, NEW d \in Doc, Change(d)
    PROVE  Inv'
<1>1. /\ solr' = IF d \in solr THEN solr \ {d} ELSE solr \cup {d}
      /\ seen' = [c \in Call |-> IF Running(c) THEN seen[c] \cup solr' ELSE seen[c]]
      /\ gap' = [c \in Call |-> IF Running(c) THEN gap[c] \cup (Doc \ solr') ELSE gap[c]]
      /\ UNCHANGED <<call, silent, entry, drawing, drawn, fixed, dropped>>
    BY DEF Change, cache
<1>2. changes' \in Nat
    BY DEF Change, Inv, TypeOK
<1>3. solr' \subseteq Doc
    BY <1>1, CallFacts DEF Inv, TypeOK
<1>4. ASSUME NEW c \in Call
      PROVE  /\ seen'[c] \in SUBSET Doc /\ seen[c] \subseteq seen'[c]
             /\ gap'[c] \in SUBSET Doc /\ gap[c] \subseteq gap'[c]
             /\ Running(c) => solr' \subseteq seen'[c] /\ Doc \ solr' \subseteq gap'[c]
    BY <1>1, <1>3 DEF Inv, TypeOK
<1>5. seen' \in [Call -> SUBSET Doc] /\ gap' \in [Call -> SUBSET Doc]
    BY <1>1, <1>4
<1>6. TypeOK'
    BY <1>1, <1>2, <1>3, <1>5 DEF Inv, TypeOK, Held
<1>7. ASSUME NEW c \in Call
      PROVE  Good(call'[c], seen'[c], gap'[c], drawn', fixed')
  <2>1. Good(call[c], seen[c], gap[c], drawn, fixed)
    BY CallFacts
  <2>2. Good(call[c], seen'[c], gap'[c], drawn, fixed)
    BY <1>4, <2>1, GoodLater
  <2>3. QED
    BY <1>1, <2>2
<1>8. \A c \in Call : Running(c)' => Running(c)
    BY <1>1 DEF Running
<1>9. Shared'
    BY <1>1, SharedStays DEF Inv, Kept
<1>10. QED
    BY <1>4, <1>6, <1>7, <1>8, <1>9 DEF Inv

\* A step that leaves the calls, Solr and the cache alone.
LEMMA RestStays ==
    ASSUME Inv, UNCHANGED <<solr, call, cache, seen, gap>>,
           changes' \in Nat, silent' \subseteq Call
    PROVE  Inv'
<1>1. UNCHANGED <<solr, call, entry, drawing, drawn, fixed, dropped, seen, gap>>
    BY DEF cache
<1>2. TypeOK'
    BY <1>1 DEF Inv, TypeOK, Held
<1>3. \A c \in Call : Running(c)' => Running(c)
    BY <1>1 DEF Running
<1>4. Shared'
    BY <1>1, SharedStays DEF Inv, Kept
<1>5. QED
    BY <1>1, <1>2, <1>3, <1>4 DEF Inv

LEMMA NeverStep ==
    ASSUME Inv, NEW c \in Call, NeverAnswered(c)
    PROVE  Inv'
<1>1. changes' \in Nat /\ silent' \subseteq Call /\ UNCHANGED <<solr, call, cache, seen, gap>>
    BY DEF NeverAnswered, Inv, TypeOK
<1>2. QED
    BY <1>1, RestStays

-----------------------------------------------------------------------------
(* The invariant holds at first, and every step keeps it.                  *)

LEMMA InitInv == Init => Inv
<1> SUFFICES ASSUME Init PROVE Inv
    OBVIOUS
<1>1. PICK q \in Requests : /\ call = [c \in Call |-> Idle(q.of[c])]
                           /\ changes = q.maxChanges
    BY DEF Init
<1>2. q.of \in [Call -> Request] /\ q.maxChanges \in Nat
    BY SearchServiceAssumption
<1>3. ASSUME NEW c \in Call
      PROVE  Good(call[c], {}, {}, {}, fixed)
  <2> DEFINE r == call[c]
  <2>1. q.of[c] \in [op : Operations, coll : Collection, scope : Scope, byRelevance : BOOLEAN]
    BY <1>2 DEF Request
  <2>2. r = Idle(q.of[c])
    BY <1>1
  <2> HIDE DEF r
  <2>3. /\ r \in CallState /\ r.phase = "idle" /\ r.found = {} /\ r.got = {}
        /\ r.results = {} /\ r.related = {} /\ r.sanity = {} /\ r.status = "none"
        /\ ~r.isRand /\ r.draw = None
    BY <2>1, <2>2 DEF Idle, CallState, Phases, Statuses
  <2>4. Sound(r, {})
    BY <2>3 DEF Sound
  <2>5. Shape(r)
    BY <2>3 DEF Shape, Recommending, Extending
  <2>6. Parts(r, {}) /\ NonEmpty(r, {}) /\ Failure(r, {}, {}, fixed) /\ FromCache(r, {}, fixed)
    BY <2>3 DEF Parts, NonEmpty, Failure, FromCache, Ok, Extending
  <2>7. QED
    BY <2>4, <2>5, <2>6 DEF Good, r
<1>4. call \in [Call -> CallState]
    BY <1>1, <1>3 DEF Good, Sound
<1>5. Held = {}
    BY DEF Init, Held
<1>6. IsFiniteSet(Held) /\ Cardinality(Held) <= CacheSize
    BY <1>5, FS_EmptySet, SearchServiceAssumption
<1>7. TypeOK
    BY <1>1, <1>4, <1>2, <1>6 DEF Init, TypeOK
<1>8. Shared
  <2>1. \A c \in Call : call[c].draw = None
    BY <1>1 DEF Idle
  <2>2. QED
    BY <1>6, <2>1 DEF Shared, Keyed, Own, Given, Init
<1>9. \A c \in Call : ~Running(c)
    BY <1>1 DEF Idle, Running
<1>10. QED
    BY <1>3, <1>7, <1>9, <1>8 DEF Init, Inv

LEMMA NextInv == Inv /\ [Next]_vars => Inv'
<1> SUFFICES ASSUME Inv, [Next]_vars PROVE Inv'
    OBVIOUS
<1>1. ASSUME NEW d \in Doc, Change(d) PROVE Inv'
    BY <1>1, ChangeStep
<1>2. ASSUME NEW c \in Call, Begin(c) PROVE Inv'
    BY <1>2, BeginStep
<1>3. ASSUME NEW c \in Call, Coroutine(c) PROVE Inv'
  <2>1. ASSUME NEW b \in Collection \cup Facet, Search(c, b) \/ CheckCollectionSanity(c, b)
        PROVE  Inv'
    BY <2>1, SearchStep, SanityStep
  <2>2. ASSUME NEW d \in Doc, GetPart(c, d) \/ GetRelated(c, d) \/ LookUp(c, d)
        PROVE  Inv'
    BY <2>2, PartStep, RelatedStep, LookUpStep
  <2>3. ASSUME NEW d \in Doc, GetRecommendedItem(c, d) \/ GetFixedItem(c, d)
        PROVE  Inv'
    BY <2>3, ItemStep, FixedItemStep
  <2>4. CASE SortByRelevance(c) \/ GetRecommendedUuids(c)
    BY <2>4, RelevanceStep, UuidsStep
  <2>5. QED
    BY <1>3, <2>1, <2>2, <2>3, <2>4 DEF Coroutine
<1>4. ASSUME NEW d \in Call, Draw(d) PROVE Inv'
    BY <1>4, DrawStep
<1>5. ASSUME NEW c \in Call, NeverAnswered(c) PROVE Inv'
    BY <1>5, NeverStep
<1>6. CASE UNCHANGED vars
    BY <1>6, RestStays DEF vars, Inv, TypeOK
<1>7. QED
    BY <1>1, <1>2, <1>3, <1>4, <1>5, <1>6 DEF Next

LEMMA Invariance == Spec => []Inv
    BY InitInv, NextInv, PTL DEF Spec

-----------------------------------------------------------------------------
(* What it says of the answers.                                            *)

\* The index, the calls and the cache stay what they are declared to be.
THEOREM TypeCorrect == Spec => []TypeOK
<1>1. Inv => TypeOK
    BY DEF Inv
<1>2. QED
    BY <1>1, Invariance, PTL

\* Every answer is put together from documents that were in Solr during the
\* call, and nothing is left out of it but what was missing during the call.
THEOREM AnswersAreCurrent == Spec => []PartsAreCurrent
<1>1. Inv => PartsAreCurrent
  <2> SUFFICES ASSUME Inv, NEW c \in Call, Answered(c)
               PROVE  LET r == call[c]
                          bundles == IF r.op \in {"results", "advanced"}
                                       THEN r.results \cap Bundle ELSE {}
                          offers == UNION {OffersOf[b] : b \in bundles}
                      IN  /\ r.results \cup r.got \subseteq seen[c]
                          /\ \A o \in offers : o \in r.got \/ o \in gap[c]
                          /\ \A o \in offers \cap r.got : ServiceOf[o] \in r.got \cup gap[c]
                          /\ \A p \in r.related : p[1] \in r.found /\ p[2] \in seen[c]
    BY DEF PartsAreCurrent
  <2> DEFINE r == call[c]
             bundles == IF r.op \in {"results", "advanced"} THEN r.results \cap Bundle ELSE {}
             offers == UNION {OffersOf[b] : b \in bundles}
  <2>1. Sound(r, seen[c]) /\ Parts(r, gap[c]) /\ Ok(r)
    BY CallFacts DEF Good, Answered, Ok
  <2>2. /\ r.results \cup r.got \subseteq seen[c]
        /\ \A p \in r.related : p[1] \in r.found /\ p[2] \in seen[c]
    BY <2>1 DEF Sound
  <2>3. CASE r.op \in {"results", "advanced"}
    <3>1. r.results \subseteq r.found /\ HasOffers(r, gap[c]) /\ HasServices(r, gap[c])
        BY <2>1, <2>3 DEF Parts
    <3>2. offers \subseteq Offers(r)
        BY <3>1 DEF Offers
    <3> HIDE DEF offers, r
    <3>3. /\ \A o \in offers : o \in r.got \/ o \in gap[c]
          /\ \A o \in offers \cap r.got : ServiceOf[o] \in r.got \cup gap[c]
        BY <3>1, <3>2 DEF HasOffers, HasServices
    <3>4. QED
        BY <2>2, <3>3 DEF offers, r
  <2>4. CASE r.op \notin {"results", "advanced"}
    <3>1. offers = {}
        BY <2>4
    <3>2. QED
        BY <2>2, <3>1
  <2>5. QED
    BY <2>3, <2>4
<1>2. QED
    BY <1>1, Invariance, PTL

\* A missing document fails a call only if the cache still names it, and an
\* empty collection only a call that could see none of its documents.
THEOREM FailuresAreLocal == Spec => []MissingIsLocal
<1>1. Inv => MissingIsLocal
  <2> SUFFICES ASSUME Inv, NEW c \in Call
               PROVE  /\ call[c].status = "gone" => Missing(call[c], gap[c], drawn, fixed)
                      /\ call[c].status = "empty" => Empty(call[c], gap[c])
    BY DEF MissingIsLocal, Missing, Empty
  <2>1. QED
    BY CallFacts DEF Good, Failure
<1>2. QED
    BY <1>1, Invariance, PTL

\* Results and facets that found nothing are answered only for a collection
\* that was seen to hold something.
THEOREM NoneIsChecked == Spec => []EmptyIsReported
<1>1. Inv => EmptyIsReported
  <2> SUFFICES ASSUME Inv, NEW c \in Call, Answered(c), call[c].op \in {"results", "filters"}
               PROVE  Index[call[c].coll] \cap seen[c] # {}
    BY DEF EmptyIsReported
  <2>1. QED
    BY CallFacts DEF Good, NonEmpty, HoldsSome, Answered, Ok
<1>2. QED
    BY <1>1, Invariance, PTL

\* Two calls of one key that fall back are recommended the same documents, unless
\* the cache lost the draw of one of them; and no draw serves two keys.
THEOREM FallbackIsShared == Spec => []SameForEveryone
<1>1. ASSUME Inv, NEW c \in Call, Served(c)
      PROVE  LET d == call[c].draw
             IN  /\ call[c].results = fixed[d]
                 /\ KeyOf(call[d]) = KeyOf(call[c])
                 /\ d # None
                 /\ d \in dropped \/ entry[KeyOf(call[c])] = d
  <2>1. /\ call[c].results = fixed[call[c].draw]
        /\ call[c].draw \in drawn
    BY <1>1, CallFacts DEF Good, FromCache, Served, Answered, Ok
  <2>2. call[c].draw # None
    BY <1>1, <2>1, SearchServiceAssumption DEF Inv, TypeOK
  <2>3. QED
    BY <1>1, <2>1, <2>2 DEF Inv, Shared, Given
<1>2. Inv => SameForEveryone
  <2> SUFFICES ASSUME Inv, NEW c1 \in Call, NEW c2 \in Call, Served(c1), Served(c2)
               PROVE  LET d1 == call[c1].draw
                          d2 == call[c2].draw
                          same == /\ call[c1].coll = call[c2].coll
                                  /\ call[c1].scope = call[c2].scope
                      IN  IF d1 = d2 THEN same /\ call[c1].results = call[c2].results
                          ELSE same => d1 \in dropped \/ d2 \in dropped
    BY DEF SameForEveryone
  <2> DEFINE d1 == call[c1].draw
             d2 == call[c2].draw
  <2>1. /\ call[c1].results = fixed[d1] /\ KeyOf(call[d1]) = KeyOf(call[c1]) /\ d1 # None
        /\ d1 \in dropped \/ entry[KeyOf(call[c1])] = d1
    BY <1>1
  <2>2. /\ call[c2].results = fixed[d2] /\ KeyOf(call[d2]) = KeyOf(call[c2]) /\ d2 # None
        /\ d2 \in dropped \/ entry[KeyOf(call[c2])] = d2
    BY <1>1
  <2>3. \A r1, r2 : KeyOf(r1) = KeyOf(r2) <=> r1.coll = r2.coll /\ r1.scope = r2.scope
    BY DEF KeyOf
  <2>4. CASE d1 = d2
    <3>1. KeyOf(call[c1]) = KeyOf(call[c2])
        BY <2>1, <2>2, <2>4
    <3>2. QED
        BY <2>1, <2>2, <2>3, <2>4, <3>1
  <2>5. CASE d1 # d2
    BY <2>1, <2>2, <2>3, <2>5
  <2>6. QED
    BY <2>4, <2>5
<1>3. QED
    BY <1>2, Invariance, PTL

-----------------------------------------------------------------------------
(* Why every call ends: a call always waits for something that is under    *)
(* way, and what ends a wait brings it nearer to its answer.               *)

\* What call r waits for, when the draws of dr are under way.
Awaits(r, dr) ==
    /\ r.phase = "search" => r.asked \cup r.sanity # {}
    /\ r.phase \in {"offers", "services", "guidelines", "items", "fixed"} => r.need # {}
    /\ r.phase = "lookup" => r.pids # {} /\ r.guideline \in r.need
    /\ r.phase = "drawing" => r.draw \in dr

\* No call waits for nothing: for a search that has been answered, a document
\* that has been got, or a draw that is not under way (the calls that came for
\* its entry meanwhile are all resumed, whatever became of the entry).
NoneWaitsForNothing == \A c \in Call : Awaits(call[c], drawing)

PhaseRank(phase) ==
    CASE phase = "idle"                              -> 0
      [] phase \in {"search", "recommender"}         -> 1
      [] phase \in {"offers", "items"}               -> 2
      [] phase \in {"services", "drawing"}           -> 3
      [] phase \in {"guidelines", "lookup", "fixed"} -> 4
      [] phase = "relevance"                         -> 5
      [] phase = "done"                              -> 6

Fewer(S, T) == S \subseteq T /\ S # T

\* One branch of the search has been answered, or goes on to the check of the
\* collection, and none begins anew.
FewerSearches(r, s) ==
    /\ s.asked \cup s.sanity \subseteq r.asked \cup r.sanity
    /\ s.asked \subseteq r.asked
    /\ s.asked # r.asked \/ Fewer(s.sanity, r.sanity)

\* The services of one more guideline are asked for, or those still to look up
\* are fewer, or the guideline at hand is dealt with.
FewerGuidelines(r, s) ==
    \/ Fewer(s.need, r.need)
    \/ /\ s.need = r.need
       /\ \/ r.phase = "guidelines" /\ s.phase = "lookup"
          \/ r.phase = "lookup" /\ s.phase = "lookup" /\ Fewer(s.pids, r.pids)

\* Call s is nearer to its answer than r.
Nearer(r, s) ==
    \/ PhaseRank(s.phase) > PhaseRank(r.phase)
    \/ r.phase = "search" /\ s.phase = "search" /\ FewerSearches(r, s)
    \/ /\ r.phase \in {"guidelines", "lookup"}
       /\ s.phase \in {"guidelines", "lookup"}
       /\ FewerGuidelines(r, s)
    \/ /\ r.phase \in {"offers", "services", "items", "fixed"}
       /\ s.phase = r.phase
       /\ Fewer(s.need, r.need)

\* Every step of a call's own coroutine, and the end of the draw that it waits
\* for, brings it nearer to its answer; no other step takes it away from it.
AlwaysNearer ==
    [][\A c \in Call :
          /\ Coroutine(c) => Nearer(call[c], call'[c])
          /\ \A d \in Call : Draw(d) /\ c \in Waiting(d) => Nearer(call[c], call'[c])
          /\ Running(c) => call'[c] = call[c] \/ Nearer(call[c], call'[c])]_vars

\* The rank of each phase.
LEMMA RankOfPhases ==
    /\ PhaseRank("idle") = 0
    /\ PhaseRank("search") = 1 /\ PhaseRank("recommender") = 1
    /\ PhaseRank("offers") = 2 /\ PhaseRank("items") = 2
    /\ PhaseRank("services") = 3 /\ PhaseRank("drawing") = 3
    /\ PhaseRank("guidelines") = 4 /\ PhaseRank("lookup") = 4 /\ PhaseRank("fixed") = 4
    /\ PhaseRank("relevance") = 5
    /\ PhaseRank("done") = 6
    BY DEF PhaseRank

\* A call that has reached phase n or a later one, and waits for something.
Later(s, n, dr) ==
    /\ s.phase \in Phases
    /\ PhaseRank(s.phase) >= n
    /\ Awaits(s, dr)

\* An ended call is at the last phase and waits for nothing.
LEMMA EndedLater ==
    ASSUME NEW r \in CallState, NEW status, NEW results, NEW dr, NEW n \in 0..6
    PROVE  /\ Ended(r, status, results).phase = "done"
           /\ Later(Ended(r, status, results), n, dr)
<1>1. Ended(r, status, results).phase = "done"
    BY DEF Ended, CallState
<1> DEFINE e == Ended(r, status, results)
<1> HIDE DEF e
<1>2. ASSUME e.phase = "done" PROVE Later(e, n, dr)
    BY <1>2, RankOfPhases DEF Later, Awaits, Phases
<1>3. QED
    BY <1>1, <1>2 DEF e

\* So is a failed one.
LEMMA FailedLater ==
    ASSUME NEW r \in CallState, NEW status, NEW dr, NEW n \in 0..6
    PROVE  Later(Failed(r, status), n, dr)
    BY EndedLater DEF Failed

\* What is left after the guidelines is the sorting, or nothing.
LEMMA OutputLater ==
    ASSUME NEW r \in CallState, NEW dr, NEW n \in 0..5
    PROVE  Later(Output(r), n, dr)
<1>1. Later(Failed(r, "crash"), n, dr) /\ Later(Ended(r, "ok", r.found), n, dr)
    BY EndedLater, FailedLater
<1>2. Later([r EXCEPT !.phase = "relevance"], n, dr)
  <2> DEFINE s == [r EXCEPT !.phase = "relevance"]
  <2>1. s.phase = "relevance"
    BY DEF CallState
  <2> HIDE DEF s
  <2>2. Later(s, n, dr)
    BY <2>1, RankOfPhases DEF Later, Awaits, Phases
  <2>3. QED
    BY <2>2 DEF s
<1>3. QED
    BY <1>1, <1>2, Zenon DEF Output

\* After the search, the offers or the services, guidelines may follow ...
LEMMA ToGuidelinesLater ==
    ASSUME NEW r \in CallState, NEW dr, NEW n \in 0..4
    PROVE  Later(ToGuidelines(r), n, dr)
<1>1. Later(Output(r), n, dr)
    BY OutputLater
<1>2. ASSUME r.found \cap Guideline # {}
      PROVE  Later([r EXCEPT !.phase = "guidelines", !.need = r.found \cap Guideline], n, dr)
  <2> DEFINE s == [r EXCEPT !.phase = "guidelines", !.need = r.found \cap Guideline]
  <2>1. s.phase = "guidelines" /\ s.need # {}
    BY <1>2 DEF CallState
  <2> HIDE DEF s
  <2>2. Later(s, n, dr)
    BY <2>1, RankOfPhases DEF Later, Awaits, Phases
  <2>3. QED
    BY <2>2 DEF s
<1>3. QED
    BY <1>1, <1>2, Zenon DEF ToGuidelines

\* ... before them the services of the offers ...
LEMMA ToServicesLater ==
    ASSUME NEW r \in CallState, NEW dr, NEW n \in 0..3
    PROVE  Later(ToServices(r), n, dr)
<1> DEFINE services == {ServiceOf[o] : o \in r.got \cap Offer}
<1>1. Later(ToGuidelines(r), n, dr)
    BY ToGuidelinesLater
<1>2. ASSUME r.got \cap Offer # {}
      PROVE  Later([r EXCEPT !.phase = "services", !.need = services], n, dr)
  <2>0. services # {}
    BY <1>2
  <2> HIDE DEF services
  <2> DEFINE s == [r EXCEPT !.phase = "services", !.need = services]
  <2>1. s.phase = "services" /\ s.need # {}
    BY <2>0 DEF CallState
  <2> HIDE DEF s
  <2>2. Later(s, n, dr)
    BY <2>1, RankOfPhases DEF Later, Awaits, Phases
  <2>3. QED
    BY <2>2 DEF s
<1>3. QED
    BY <1>1, <1>2, Zenon DEF ToServices

\* ... and before these the offers of the bundles.
LEMMA ToOffersLater ==
    ASSUME NEW r \in CallState, NEW dr, NEW n \in 0..2
    PROVE  Later(ToOffers(r), n, dr)
<1> DEFINE offers == UNION {OffersOf[b] : b \in r.found \cap Bundle}
<1>1. Later(ToGuidelines(r), n, dr)
    BY ToGuidelinesLater
<1>2. ASSUME offers # {}
      PROVE  Later([r EXCEPT !.phase = "offers", !.need = offers], n, dr)
  <2> HIDE DEF offers
  <2> DEFINE s == [r EXCEPT !.phase = "offers", !.need = offers]
  <2>1. s.phase = "offers" /\ s.need # {}
    BY <1>2 DEF CallState
  <2> HIDE DEF s
  <2>2. Later(s, n, dr)
    BY <2>1, RankOfPhases DEF Later, Awaits, Phases
  <2>3. QED
    BY <2>2 DEF s
<1>3. QED
    BY <1>1, <1>2, Zenon DEF ToOffers

\* What a step of call r leads to: a call s that is nearer, and waits.
Goes(r, s, dr) == Nearer(r, s) /\ Awaits(s, dr)

\* A later phase is nearer.
LEMMA LaterGoes ==
    ASSUME NEW r, NEW s, NEW dr, NEW n \in 1..6, r.phase \in Phases,
           PhaseRank(r.phase) < n, Later(s, n, dr)
    PROVE  Goes(r, s, dr)
<1>1. /\ PhaseRank(r.phase) \in 0..6
      /\ PhaseRank(s.phase) \in 0..6
    BY RankOfPhases DEF Later, Phases
<1>2. QED
    BY <1>1 DEF Later, Goes, Nearer

\* A failed or an ended call is nearer than any running one.
LEMMA FailedGoes ==
    ASSUME NEW r \in CallState, NEW dr, r.phase # "done", NEW status
    PROVE  /\ Goes(r, Failed(r, status), dr)
           /\ \A results : Goes(r, Ended(r, status, results), dr)
<1>1. r.phase \in Phases /\ PhaseRank(r.phase) < 6
    BY RankOfPhases DEF CallState, Phases
<1>2. Later(Failed(r, status), 6, dr)
    BY FailedLater
<1>3. ASSUME NEW results PROVE Goes(r, Ended(r, status, results), dr)
  <2>1. Later(Ended(r, status, results), 6, dr)
    BY EndedLater
  <2>2. QED
    BY <1>1, <2>1, LaterGoes
<1>4. QED
    BY <1>1, <1>2, <1>3, LaterGoes

\* A call whose branches have all been answered leaves the search.
LEMMA GatheredLater ==
    ASSUME NEW r \in CallState, NEW dr, r.phase = "search"
    PROVE  IF r.asked \cup r.sanity # {} THEN Gathered(r) = r
           ELSE Later(Gathered(r), 2, dr)
<1>1. Later(ToOffers(r), 2, dr) /\ \A results : Later(Ended(r, "ok", results), 2, dr)
    BY ToOffersLater, EndedLater
<1> DEFINE results == IF r.op = "filters" THEN {} ELSE r.found
<1>2. Later(Ended(r, "ok", results), 2, dr)
    BY <1>1
<1> HIDE DEF results
<1>3. Gathered(r) = IF r.asked \cup r.sanity # {} THEN r
                    ELSE IF r.op \in {"results", "advanced"} THEN ToOffers(r)
                    ELSE Ended(r, "ok", results)
    BY DEF Gathered, results
<1>4. QED
    BY <1>1, <1>2, <1>3, Zenon

\* An answered branch is one less to wait for.
LEMMA SearchedGoes ==
    ASSUME NEW r \in CallState, NEW dr, r.phase = "search",
           NEW b \in r.asked \cup r.sanity, NEW docs \in SUBSET Doc
    PROVE  Goes(r, Searched(r, b, docs), dr)
<1> DEFINE s == [r EXCEPT !.asked = @ \ {b}, !.sanity = @ \ {b}, !.found = @ \cup docs]
<1>1. /\ s \in CallState /\ s.phase = "search"
      /\ s.asked = r.asked \ {b} /\ s.sanity = r.sanity \ {b}
    BY DEF CallState
<1> HIDE DEF s
<1>2. CASE s.asked \cup s.sanity # {}
  <2>1. Gathered(s) = s
    BY <1>1, <1>2, GatheredLater
  <2>2. FewerSearches(r, s)
    BY <1>1 DEF FewerSearches, Fewer
  <2>3. Goes(r, s, dr)
    BY <1>1, <1>2, <2>2 DEF Goes, Nearer, Awaits
  <2>4. QED
    BY <2>1, <2>3 DEF Searched, s
<1>3. CASE s.asked \cup s.sanity = {}
  <2>1. Later(Gathered(s), 2, dr)
    BY <1>1, <1>3, GatheredLater
  <2>2. PhaseRank(r.phase) < 2 /\ r.phase \in Phases
    BY RankOfPhases DEF Phases
  <2>3. Goes(r, Gathered(s), dr)
    BY <2>1, <2>2, LaterGoes
  <2>4. QED
    BY <2>3 DEF Searched, s
<1>4. QED
    BY <1>2, <1>3

\* A branch that checks its collection searches no more.
LEMMA ToSanityGoes ==
    ASSUME NEW r \in CallState, NEW dr, r.phase = "search", NEW b \in r.asked
    PROVE  Goes(r, ToSanity(r, b), dr)
<1> DEFINE s == ToSanity(r, b)
<1>1. /\ s.phase = "search"
      /\ s.asked = r.asked \ {b} /\ s.sanity = r.sanity \cup {b}
    BY DEF CallState, ToSanity
<1> HIDE DEF s
<1>2. FewerSearches(r, s)
    BY <1>1 DEF FewerSearches
<1>3. Goes(r, s, dr)
    BY <1>1, <1>2 DEF Goes, Nearer, Awaits
<1>4. QED
    BY <1>3 DEF s

\* An offer or service got, or missing, is one less to get.
LEMMA PartGoes ==
    ASSUME NEW r \in CallState, NEW dr, r.phase \in {"offers", "services"},
           NEW d \in r.need
    PROVE  Goes(r, Part(r, d), dr)
<1> DEFINE s == [r EXCEPT !.need = @ \ {d}, !.got = IF d \in solr THEN @ \cup {d} ELSE @]
<1>1. /\ s \in CallState /\ s.phase = r.phase /\ s.need = r.need \ {d}
    BY DEF CallState
<1>2. Part(r, d) = Onward(s)
    BY DEF Part
<1> HIDE DEF s
<1>3. CASE s.need # {}
  <2>1. Onward(s) = s
    BY <1>3 DEF Onward
  <2>2. Goes(r, s, dr)
    BY <1>1, <1>3 DEF Goes, Nearer, Awaits, Fewer
  <2>3. QED
    BY <1>2, <2>1, <2>2
<1>4. CASE s.need = {} /\ r.phase = "offers"
  <2>1. Onward(s) = ToServices(s)
    BY <1>1, <1>4 DEF Onward
  <2>2. Later(ToServices(s), 3, dr)
    BY <1>1, ToServicesLater
  <2>3. PhaseRank(r.phase) < 3 /\ r.phase \in Phases
    BY <1>4, RankOfPhases DEF Phases
  <2>4. QED
    BY <1>2, <2>1, <2>2, <2>3, LaterGoes
<1>5. CASE s.need = {} /\ r.phase = "services"
  <2>1. Onward(s) = ToGuidelines(s)
    BY <1>1, <1>5 DEF Onward
  <2>2. Later(ToGuidelines(s), 4, dr)
    BY <1>1, ToGuidelinesLater
  <2>3. PhaseRank(r.phase) < 4 /\ r.phase \in Phases
    BY <1>5, RankOfPhases DEF Phases
  <2>4. QED
    BY <1>2, <2>1, <2>2, <2>3, LaterGoes
<1>6. QED
    BY <1>3, <1>4, <1>5

\* The guideline at hand is one of those to extend, so that it leaves them.
LEMMA ExtendedGoes ==
    ASSUME NEW r \in CallState, NEW q \in CallState, NEW dr,
           q.phase \in {"guidelines", "lookup"}, r.need = q.need,
           r.phase \in {"guidelines", "lookup"}, NEW g \in r.need
    PROVE  Goes(q, Extended(r, g), dr)
<1> DEFINE s == [r EXCEPT !.need = @ \ {g}, !.guideline = None, !.phase = "guidelines"]
<1>1. /\ s \in CallState /\ s.phase = "guidelines" /\ s.need = r.need \ {g}
    BY DEF CallState, Phases
<1>2. Extended(r, g) = IF s.need # {} THEN s ELSE Output(s)
    BY DEF Extended
<1> HIDE DEF s
<1>3. CASE s.need # {}
  <2>1. Goes(q, s, dr)
    BY <1>1, <1>3 DEF Goes, Nearer, Awaits, FewerGuidelines, Fewer
  <2>2. QED
    BY <1>2, <1>3, <2>1
<1>4. CASE s.need = {}
  <2>1. Later(Output(s), 5, dr)
    BY <1>1, OutputLater
  <2>2. PhaseRank(q.phase) < 5 /\ q.phase \in Phases
    BY RankOfPhases DEF Phases
  <2>3. QED
    BY <1>2, <1>4, <2>1, <2>2, LaterGoes
<1>5. QED
    BY <1>3, <1>4

\* A service looked up is one less, and an error ends the guidelines.
LEMMA LookedUpGoes ==
    ASSUME NEW r \in CallState, NEW dr, r.phase = "lookup", Awaits(r, dr), NEW s \in r.pids
    PROVE  /\ Goes(r, LookedUp(r, r.guideline, s), dr)
           /\ Goes(r, LookUpRaises(r, r.guideline), dr)
<1> DEFINE related == IF s \in solr THEN r.related \cup {<<r.guideline, s>>} ELSE r.related
           n == [r EXCEPT !.pids = @ \ {s}, !.related = related]
           x == [r EXCEPT !.pids = {}, !.guideline = None,
                          !.related = @ \ ({r.guideline} \X Service)]
<1>1. r.guideline \in r.need /\ r.need \subseteq Doc /\ r.guideline # None
    BY SearchServiceAssumption DEF Awaits, CallState
<1>2. r.guideline \in Guideline /\ s \in Service
    BY <1>1 DEF CallState
<1>3. related \in SUBSET (Guideline \X Service)
    BY <1>2 DEF CallState
<1>4. LookedUp(r, r.guideline, s) = IF n.pids # {} THEN n ELSE Extended(n, r.guideline)
    BY DEF LookedUp
<1> HIDE DEF related
<1>5. n \in CallState /\ n.phase = "lookup" /\ n.need = r.need /\ n.pids = r.pids \ {s}
      /\ n.guideline = r.guideline
    BY <1>3 DEF CallState
<1>6. x \in CallState
    BY DEF CallState
<1>7. LookUpRaises(r, r.guideline) = Output(x)
    BY DEF LookUpRaises
<1> HIDE DEF n, x
<1>8. Goes(r, Output(x), dr)
  <2>1. Later(Output(x), 5, dr)
    BY <1>6, OutputLater
  <2>2. PhaseRank(r.phase) < 5 /\ r.phase \in Phases
    BY RankOfPhases DEF Phases
  <2>3. QED
    BY <2>1, <2>2, LaterGoes
<1>9. CASE n.pids # {}
  <2>1. Goes(r, n, dr)
    BY <1>1, <1>5, <1>9 DEF Goes, Nearer, Awaits, FewerGuidelines, Fewer
  <2>2. QED
    BY <1>4, <1>7, <1>8, <1>9, <2>1
<1>10. CASE n.pids = {}
  <2>1. Goes(r, Extended(n, r.guideline), dr)
    BY <1>1, <1>5, ExtendedGoes
  <2>2. QED
    BY <1>4, <1>7, <1>8, <1>10, <2>1
<1>11. QED
    BY <1>9, <1>10

\* A call that has the ids of the entry gets their documents, if there are any.
LEMMA FixedLater ==
    ASSUME NEW r \in CallState, NEW ids \in SUBSET Doc, NEW dr
    PROVE  Later(Fixed(r, ids), 4, dr)
<1>1. Later(Ended(r, "ok", {}), 4, dr)
    BY EndedLater
<1>2. ASSUME ids # {}
      PROVE  Later([r EXCEPT !.phase = "fixed", !.need = ids, !.got = {}, !.isRand = TRUE], 4, dr)
  <2> DEFINE s == [r EXCEPT !.phase = "fixed", !.need = ids, !.got = {}, !.isRand = TRUE]
  <2>1. s.phase = "fixed" /\ s.need = ids
    BY DEF CallState
  <2> HIDE DEF s
  <2>2. Later(s, 4, dr)
    BY <1>2, <2>1, RankOfPhases DEF Later, Awaits, Phases
  <2>3. QED
    BY <2>2 DEF s
<1>3. QED
    BY <1>1, <1>2, Zenon DEF Fixed

\* A document got is one less to get.
LEMMA GotGoes ==
    ASSUME NEW r \in CallState, NEW dr, r.phase \in {"items", "fixed"}, NEW d \in r.need
    PROVE  Goes(r, Got(r, d), dr)
<1> DEFINE s == [r EXCEPT !.need = @ \ {d}, !.got = @ \cup {d}]
<1>1. s \in CallState /\ s.phase = r.phase /\ s.need = r.need \ {d}
    BY DEF CallState
<1>2. Got(r, d) = IF s.need # {} THEN s ELSE Ended(s, "ok", s.got)
    BY DEF Got
<1> HIDE DEF s
<1>3. CASE s.need # {}
  <2>1. Goes(r, s, dr)
    BY <1>1, <1>3 DEF Goes, Nearer, Awaits, Fewer
  <2>2. QED
    BY <1>2, <1>3, <2>1
<1>4. CASE s.need = {}
  <2>1. Later(Ended(s, "ok", s.got), 6, dr)
    BY <1>1, EndedLater
  <2>2. PhaseRank(r.phase) < 6 /\ r.phase \in Phases
    BY RankOfPhases DEF Phases
  <2>3. QED
    BY <1>2, <1>4, <2>1, <2>2, LaterGoes
<1>5. QED
    BY <1>3, <1>4

-----------------------------------------------------------------------------
(* The steps.                                                              *)

\* What a step of call c does to it and to the others.
CallGoes(c) ==
    /\ Goes(call[c], call'[c], drawing')
    /\ \A q \in Call \ {c} : call'[q] = call[q]
    /\ drawing \subseteq drawing'

\* A step of call c moves no other call and ends no draw.
LEMMA StepGoes ==
    ASSUME TypeOK, NEW c \in Call, NEW s, Step(c, s), Goes(call[c], s, drawing)
    PROVE  CallGoes(c)
<1>1. call' = [call EXCEPT ![c] = s] /\ drawing' = drawing
    BY DEF Step, cache
<1>2. call'[c] = s /\ \A q \in Call \ {c} : call'[q] = call[q]
    BY <1>1 DEF TypeOK
<1>3. QED
    BY <1>1, <1>2 DEF CallGoes

\* An error ends the call.
LEMMA StepFails ==
    ASSUME TypeOK, NEW c \in Call, Running(c), NEW status, Step(c, Failed(call[c], status))
    PROVE  CallGoes(c)
<1>1. call[c] \in CallState /\ call[c].phase # "done"
    BY DEF TypeOK, Running
<1>2. Goes(call[c], Failed(call[c], status), drawing)
    BY <1>1, FailedGoes
<1>3. QED
    BY <1>2, StepGoes

\* The searches and the checks of the collections.
LEMMA SearchGoes ==
    ASSUME TypeOK, NEW c \in Call, NEW b \in Collection \cup Facet,
           Search(c, b) \/ CheckCollectionSanity(c, b)
    PROVE  CallGoes(c)
<1> DEFINE r == call[c]
<1>1. /\ r \in CallState /\ r.phase = "search" /\ b \in r.asked \cup r.sanity
      /\ solr \subseteq Doc /\ Running(c)
    BY DEF TypeOK, Search, CheckCollectionSanity, Running
<1>2. \/ \E status : Step(c, Failed(r, status))
      \/ \E docs \in SUBSET Doc : Step(c, Searched(r, b, docs))
      \/ b \in r.asked /\ Step(c, ToSanity(r, b))
  <2>1. CASE Search(c, b)
    BY <1>1, <2>1 DEF Search
  <2>2. CASE CheckCollectionSanity(c, b)
    BY <2>2 DEF CheckCollectionSanity, EmptyCollection
  <2>3. QED
    BY <2>1, <2>2
<1>3. ASSUME NEW status, Step(c, Failed(r, status)) PROVE CallGoes(c)
    BY <1>1, <1>3, StepFails
<1> HIDE DEF r
<1>4. ASSUME NEW docs \in SUBSET Doc, Step(c, Searched(r, b, docs)) PROVE CallGoes(c)
  <2>1. Goes(r, Searched(r, b, docs), drawing)
    BY <1>1, SearchedGoes
  <2>2. QED
    BY <1>4, <2>1, StepGoes DEF r
<1>5. CASE b \in r.asked /\ Step(c, ToSanity(r, b))
  <2>1. Goes(r, ToSanity(r, b), drawing)
    BY <1>1, <1>5, ToSanityGoes
  <2>2. QED
    BY <1>5, <2>1, StepGoes DEF r
<1>6. QED
    BY <1>2, <1>3, <1>4, <1>5

\* The offers and services of the bundles.
LEMMA GetPartGoes ==
    ASSUME TypeOK, NEW c \in Call, NEW d \in Doc, GetPart(c, d)
    PROVE  CallGoes(c)
<1>1. /\ call[c] \in CallState /\ Running(c) /\ d \in call[c].need
      /\ call[c].phase \in {"offers", "services"}
    BY DEF TypeOK, GetPart, Running
<1>2. CASE Step(c, Failed(call[c], "refused"))
    BY <1>1, <1>2, StepFails
<1>3. CASE Step(c, Part(call[c], d))
  <2>1. Goes(call[c], Part(call[c], d), drawing)
    BY <1>1, PartGoes
  <2>2. QED
    BY <1>3, <2>1, StepGoes
<1>4. QED
    BY <1>2, <1>3 DEF GetPart

\* The guidelines, one after the other.
LEMMA GetRelatedGoes ==
    ASSUME TypeOK, NEW c \in Call, NEW g \in Doc, GetRelated(c, g)
    PROVE  CallGoes(c)
<1> DEFINE r == call[c]
<1>1. r \in CallState /\ r.phase = "guidelines" /\ g \in r.need
    BY DEF TypeOK, GetRelated
<1>2. CASE Step(c, Extended(r, g))
  <2> HIDE DEF r
  <2>1. Goes(r, Extended(r, g), drawing)
    BY <1>1, ExtendedGoes
  <2>2. QED
    BY <1>2, <2>1, StepGoes DEF r
<1>3. ASSUME NEW pids \in SUBSET Service, pids # {},
             Step(c, [r EXCEPT !.phase = "lookup", !.guideline = g, !.pids = pids])
      PROVE  CallGoes(c)
  <2> HIDE DEF r
  <2> DEFINE s == [r EXCEPT !.phase = "lookup", !.guideline = g, !.pids = pids]
  <2>1. s.phase = "lookup" /\ s.guideline = g /\ s.pids = pids /\ s.need = r.need
    BY DEF CallState
  <2>2. Step(c, s)
    BY <1>3
  <2> HIDE DEF s
  <2>3. Goes(r, s, drawing)
    BY <1>1, <1>3, <2>1 DEF Goes, Nearer, Awaits, FewerGuidelines
  <2>4. QED
    BY <2>2, <2>3, StepGoes DEF r
<1>4. QED
    BY <1>2, <1>3 DEF GetRelated

\* The services of a guideline, all at once.
LEMMA LookUpGoes ==
    ASSUME TypeOK, NoneWaitsForNothing, NEW c \in Call, NEW s \in Doc, LookUp(c, s)
    PROVE  CallGoes(c)
<1>1. /\ call[c] \in CallState /\ call[c].phase = "lookup" /\ s \in call[c].pids
      /\ Awaits(call[c], drawing)
    BY DEF TypeOK, LookUp, NoneWaitsForNothing
<1>2. /\ Goes(call[c], LookedUp(call[c], call[c].guideline, s), drawing)
      /\ Goes(call[c], LookUpRaises(call[c], call[c].guideline), drawing)
    BY <1>1, LookedUpGoes
<1>3. \/ Step(c, LookedUp(call[c], call[c].guideline, s))
      \/ Step(c, LookUpRaises(call[c], call[c].guideline))
    BY DEF LookUp
<1>4. QED
    BY <1>2, <1>3, StepGoes

\* The sorting ends the call.
LEMMA RelevanceGoes ==
    ASSUME TypeOK, NEW c \in Call, SortByRelevance(c)
    PROVE  CallGoes(c)
<1>1. call[c] \in CallState /\ call[c].phase # "done" /\ Running(c)
    BY DEF TypeOK, SortByRelevance, Running
<1>2. ASSUME NEW ids, Step(c, Ended(call[c], "ok", ids)) PROVE CallGoes(c)
  <2>1. Goes(call[c], Ended(call[c], "ok", ids), drawing)
    BY <1>1, FailedGoes
  <2>2. QED
    BY <1>2, <2>1, StepGoes
<1>3. CASE Step(c, Failed(call[c], "crash"))
    BY <1>1, <1>3, StepFails
<1>4. QED
    BY <1>2, <1>3 DEF SortByRelevance

\* A call falls back to a draw that has ended, is under way, or begins for it.
LEMMA FallbackGoes ==
    ASSUME TypeOK, NEW c \in Call, call[c].phase \in {"recommender", "items"}, Fallback(c)
    PROVE  CallGoes(c)
<1> DEFINE r == call[c]
           d == entry[KeyOf(r)]
<1>1. /\ r \in CallState /\ r.phase # "done" /\ d \in Call \cup {None}
      /\ r.phase \in Phases /\ PhaseRank(r.phase) < 3
    BY RankOfPhases DEF TypeOK, CallState, Key, KeyOf
<1>2. CASE Step(c, Ended(r, "ok", {}))
  <2>1. Goes(r, Ended(r, "ok", {}), drawing)
    BY <1>1, FailedGoes
  <2>2. QED
    BY <1>2, <2>1, StepGoes
<1>3. CASE d \in drawn /\ Step(c, Fixed([r EXCEPT !.draw = d], fixed[d]))
  <2> DEFINE s == [r EXCEPT !.draw = d]
  <2>1. fixed[d] \in SUBSET Doc
    BY <1>1, <1>3 DEF TypeOK
  <2> HIDE DEF d
  <2>2. s \in CallState
    BY <1>1 DEF CallState
  <2> HIDE DEF s
  <2>3. Later(Fixed(s, fixed[d]), 4, drawing)
    BY <2>1, <2>2, FixedLater
  <2>4. PhaseRank(r.phase) < 4
    BY <1>1, RankOfPhases DEF Phases
  <2>5. Goes(r, Fixed(s, fixed[d]), drawing)
    BY <1>1, <2>3, <2>4, LaterGoes
  <2>6. QED
    BY <1>3, <2>5, StepGoes DEF s
<1>4. ASSUME NEW e \in Call, NEW dr, e \in dr
      PROVE  Goes(r, WaitFor(r, e), dr)
  <2> DEFINE s == WaitFor(r, e)
  <2>1. s.phase = "drawing" /\ s.draw = e
    BY <1>1 DEF WaitFor, CallState
  <2> HIDE DEF s
  <2>2. Later(s, 3, dr)
    BY <1>4, <2>1, RankOfPhases DEF Later, Awaits, Phases
  <2>3. Goes(r, s, dr)
    BY <1>1, <2>2, LaterGoes
  <2>4. QED
    BY <2>3 DEF s
<1>5. CASE d \in drawing /\ Step(c, WaitFor(r, d))
  <2>1. Goes(r, WaitFor(r, d), drawing)
    BY <1>4, <1>5 DEF TypeOK
  <2>2. QED
    BY <1>5, <2>1, StepGoes
<1>6. CASE /\ Compute(c, KeyOf(r))
           /\ call' = [call EXCEPT ![c] = WaitFor(r, c)]
  <2> DEFINE s == WaitFor(r, c)
  <2>1. call'[c] = s /\ \A q \in Call \ {c} : call'[q] = call[q]
    BY <1>6 DEF TypeOK
  <2>2. drawing' = drawing \cup {c}
    BY <1>6 DEF Compute
  <2>3. Goes(r, s, drawing')
    BY <1>4, <2>2
  <2> HIDE DEF s
  <2>4. QED
    BY <2>1, <2>2, <2>3 DEF CallGoes
<1>7. QED
    BY <1>2, <1>3, <1>5, <1>6 DEF Fallback, Entry

\* The recommender.
LEMMA UuidsGoes ==
    ASSUME TypeOK, NEW c \in Call, GetRecommendedUuids(c)
    PROVE  CallGoes(c)
<1> DEFINE r == call[c]
<1>1. r \in CallState /\ r.phase = "recommender" /\ Running(c)
    BY DEF TypeOK, GetRecommendedUuids, Running
<1>2. CASE Step(c, Ended(r, "ok", {}))
  <2>1. Goes(r, Ended(r, "ok", {}), drawing)
    BY <1>1, FailedGoes
  <2>2. QED
    BY <1>2, <2>1, StepGoes
<1>3. ASSUME NEW ids, ids # {}, Step(c, [r EXCEPT !.phase = "items", !.need = ids])
      PROVE  CallGoes(c)
  <2> HIDE DEF r
  <2> DEFINE s == [r EXCEPT !.phase = "items", !.need = ids]
  <2>1. s.phase = "items" /\ s.need = ids
    BY <1>1 DEF CallState
  <2>2. Step(c, s)
    BY <1>3
  <2> HIDE DEF s
  <2>3. Goes(r, s, drawing)
    BY <1>1, <1>3, <2>1, RankOfPhases DEF Goes, Nearer, Awaits
  <2>4. QED
    BY <2>2, <2>3, StepGoes DEF r
<1>4. CASE Fallback(c)
    BY <1>1, <1>4, FallbackGoes
<1>5. CASE Step(c, Failed(r, "crash"))
    BY <1>1, <1>5, StepFails
<1>6. QED
    BY <1>2, <1>3, <1>4, <1>5 DEF GetRecommendedUuids

\* The documents of the recommender and of the cache.
LEMMA ItemGoes ==
    ASSUME TypeOK, NEW c \in Call, NEW d \in Doc,
           GetRecommendedItem(c, d) \/ GetFixedItem(c, d)
    PROVE  CallGoes(c)
<1>1. /\ call[c] \in CallState /\ call[c].phase \in {"items", "fixed"}
      /\ d \in call[c].need /\ Running(c)
    BY DEF TypeOK, GetRecommendedItem, GetFixedItem, Running
<1>2. \/ \E status : Step(c, Failed(call[c], status))
      \/ Step(c, Got(call[c], d))
      \/ call[c].phase = "items" /\ Fallback(c)
    BY DEF GetRecommendedItem, GetFixedItem
<1>3. ASSUME NEW status, Step(c, Failed(call[c], status)) PROVE CallGoes(c)
    BY <1>1, <1>3, StepFails
<1>4. CASE Step(c, Got(call[c], d))
  <2>1. Goes(call[c], Got(call[c], d), drawing)
    BY <1>1, GotGoes
  <2>2. QED
    BY <1>4, <2>1, StepGoes
<1>5. CASE call[c].phase = "items" /\ Fallback(c)
    BY <1>5, FallbackGoes
<1>6. QED
    BY <1>2, <1>3, <1>4, <1>5

\* Together: the steps of a coroutine.
LEMMA CoroutineGoes ==
    ASSUME TypeOK, NoneWaitsForNothing, NEW c \in Call, Coroutine(c)
    PROVE  CallGoes(c)
<1>1. ASSUME NEW b \in Collection \cup Facet, Search(c, b) \/ CheckCollectionSanity(c, b)
      PROVE  CallGoes(c)
    BY <1>1, SearchGoes
<1>2. ASSUME NEW d \in Doc, GetPart(c, d) \/ GetRelated(c, d) \/ LookUp(c, d)
      PROVE  CallGoes(c)
    BY <1>2, GetPartGoes, GetRelatedGoes, LookUpGoes
<1>3. ASSUME NEW d \in Doc, GetRecommendedItem(c, d) \/ GetFixedItem(c, d)
      PROVE  CallGoes(c)
    BY <1>3, ItemGoes
<1>4. CASE SortByRelevance(c) \/ GetRecommendedUuids(c)
    BY <1>4, RelevanceGoes, UuidsGoes
<1>5. QED
    BY <1>1, <1>2, <1>3, <1>4 DEF Coroutine

\* The end of a draw resumes all who wait for it, and nobody else.
DrawGoes(d) ==
    /\ \A c \in Waiting(d) : Goes(call[c], call'[c], drawing')
    /\ \A c \in Call \ Waiting(d) : call'[c] = call[c]
    /\ drawing' = drawing \ {d}

\* The steps of a draw.
LEMMA DrawResumes ==
    ASSUME TypeOK, NEW d \in Call, Draw(d)
    PROVE  DrawGoes(d)
<1>1. /\ drawing' = drawing \ {d} /\ solr \subseteq Doc
      /\ \A c \in Call : call[c] \in CallState
    BY DEF TypeOK, Draw
<1>2. \A c \in Waiting(d) :
         /\ c \in Call /\ call[c].phase \in Phases
         /\ PhaseRank(call[c].phase) < 4 /\ call[c].phase # "done"
    BY RankOfPhases DEF Waiting, Phases
<1>3. ASSUME NEW ids \in SUBSET Doc, call' = Resumed(d, ids) PROVE DrawGoes(d)
  <2>1. ASSUME NEW c \in Waiting(d) PROVE Goes(call[c], call'[c], drawing')
    <3>1. call'[c] = Fixed(call[c], ids)
        BY <1>2, <1>3, <2>1 DEF Resumed
    <3>2. Later(Fixed(call[c], ids), 4, drawing')
        BY <1>1, <1>2, <2>1, FixedLater
    <3>3. QED
        BY <1>2, <2>1, <3>1, <3>2, LaterGoes
  <2>2. \A c \in Call \ Waiting(d) : call'[c] = call[c]
    BY <1>3 DEF Resumed
  <2>3. QED
    BY <1>1, <2>1, <2>2 DEF DrawGoes
<1>4. ASSUME NEW status, call' = Raised(d, status) PROVE DrawGoes(d)
  <2>1. ASSUME NEW c \in Waiting(d) PROVE Goes(call[c], call'[c], drawing')
    <3>1. call'[c] = Failed(call[c], status)
        BY <1>2, <1>4, <2>1 DEF Raised
    <3>2. Goes(call[c], Failed(call[c], status), drawing')
        BY <1>1, <1>2, <2>1, FailedGoes
    <3>3. QED
        BY <3>1, <3>2
  <2>2. \A c \in Call \ Waiting(d) : call'[c] = call[c]
    BY <1>4 DEF Raised
  <2>3. QED
    BY <1>1, <2>1, <2>2 DEF DrawGoes
<1>5. \/ \E ids \in SUBSET Doc : call' = Resumed(d, ids)
      \/ \E status : call' = Raised(d, status)
    BY <1>1 DEF Draw
<1>6. QED
    BY <1>3, <1>4, <1>5

\* A request that arrives has something to wait for, or has failed.
LEMMA BeginAwaits ==
    ASSUME TypeOK, NEW c \in Call, Begin(c)
    PROVE  /\ call[c].phase = "idle"
           /\ Awaits(call'[c], drawing')
           /\ \A q \in Call \ {c} : call'[q] = call[q]
           /\ drawing' = drawing
<1> DEFINE r == [call[c] EXCEPT !.asked = Branches(call[c].op, call[c].coll)]
           s == IF r.op # "recommendations" THEN [r EXCEPT !.phase = "search"]
                ELSE IF r.coll \in WithPanel THEN [r EXCEPT !.phase = "recommender"]
                ELSE Failed(r, "crash")
<1>1. /\ call[c].phase = "idle" /\ call[c] \in CallState
      /\ call' = [call EXCEPT ![c] = s] /\ drawing' = drawing
    BY DEF TypeOK, Begin, cache
<1>2. call'[c] = s /\ \A q \in Call \ {c} : call'[q] = call[q]
    BY <1>1 DEF TypeOK
<1>3. /\ call[c].op \in Operations /\ call[c].coll \in Collection
    BY <1>1 DEF CallState
<1>4. Branches(call[c].op, call[c].coll) \subseteq Collection \cup Facet
    BY <1>3, BranchFacts
<1>5. /\ r \in CallState /\ r.op = call[c].op /\ r.coll = call[c].coll
      /\ r.asked = Branches(r.op, r.coll)
    BY <1>1, <1>4 DEF CallState
<1>6. r.op # "recommendations" => Branches(r.op, r.coll) # {}
    BY <1>3, <1>5, FacetsAssumption DEF Branches, Operations, AllCollectionList
<1> HIDE DEF r
<1>7. Awaits(s, drawing)
  <2>1. CASE r.op # "recommendations"
    <3> DEFINE t == [r EXCEPT !.phase = "search"]
    <3>1. t.phase = "search" /\ t.asked # {}
        BY <1>5, <1>6, <2>1 DEF CallState
    <3> HIDE DEF t
    <3>2. Awaits(t, drawing)
        BY <3>1 DEF Awaits
    <3>3. QED
        BY <2>1, <3>2 DEF t
  <2>2. CASE r.op = "recommendations" /\ r.coll \in WithPanel
    <3> DEFINE t == [r EXCEPT !.phase = "recommender"]
    <3>1. t.phase = "recommender"
        BY <1>5 DEF CallState
    <3> HIDE DEF t
    <3>2. Awaits(t, drawing)
        BY <3>1 DEF Awaits
    <3>3. QED
        BY <2>2, <3>2 DEF t
  <2>3. CASE r.op = "recommendations" /\ r.coll \notin WithPanel
    <3>1. Awaits(Failed(r, "crash"), drawing)
        BY <1>5, FailedLater DEF Later
    <3>2. QED
        BY <2>3, <3>1
  <2>4. QED
    BY <2>1, <2>2, <2>3
<1>8. QED
    BY <1>1, <1>2, <1>7

\* A draw that starts ends no wait.
LEMMA AwaitsMore ==
    ASSUME NEW r, NEW dr, NEW de, dr \subseteq de, Awaits(r, dr)
    PROVE  Awaits(r, de)
    BY DEF Awaits

\* Nothing has been asked yet.
LEMMA AwaitsInit == Init => NoneWaitsForNothing
<1> SUFFICES ASSUME Init, NEW c \in Call PROVE Awaits(call[c], drawing)
    BY DEF NoneWaitsForNothing
<1>1. PICK q \in Requests : call = [x \in Call |-> Idle(q.of[x])]
    BY DEF Init
<1>2. call[c].phase = "idle"
    BY <1>1 DEF Idle
<1>3. QED
    BY <1>2 DEF Awaits

\* No step leaves a call that waits for nothing.
LEMMA AwaitsNext == TypeOK /\ NoneWaitsForNothing /\ [Next]_vars => NoneWaitsForNothing'
<1> SUFFICES ASSUME TypeOK, NoneWaitsForNothing, [Next]_vars, NEW q \in Call
             PROVE  Awaits(call'[q], drawing')
    BY DEF NoneWaitsForNothing
<1>0. Awaits(call[q], drawing)
    BY DEF NoneWaitsForNothing
<1>1. ASSUME NEW d \in Doc, Change(d) PROVE Awaits(call'[q], drawing')
    BY <1>0, <1>1 DEF Change, cache
<1>2. ASSUME NEW c \in Call, Begin(c) PROVE Awaits(call'[q], drawing')
    BY <1>0, <1>2, BeginAwaits
<1>3. ASSUME NEW c \in Call, Coroutine(c) PROVE Awaits(call'[q], drawing')
  <2>1. CallGoes(c)
    BY <1>3, CoroutineGoes
  <2>2. QED
    BY <1>0, <2>1, AwaitsMore DEF CallGoes, Goes
<1>4. ASSUME NEW d \in Call, Draw(d) PROVE Awaits(call'[q], drawing')
  <2>1. DrawGoes(d)
    BY <1>4, DrawResumes
  <2>2. CASE q \in Waiting(d)
    BY <2>1, <2>2 DEF DrawGoes, Goes
  <2>3. CASE q \notin Waiting(d)
    <3>1. call'[q] = call[q] /\ drawing' = drawing \ {d}
        BY <2>1, <2>3 DEF DrawGoes
    <3>2. call[q].phase = "drawing" => call[q].draw # d
        BY <2>3 DEF Waiting
    <3>3. QED
        BY <1>0, <3>1, <3>2 DEF Awaits
  <2>4. QED
    BY <2>2, <2>3
<1>5. ASSUME NEW c \in Call, NeverAnswered(c) PROVE Awaits(call'[q], drawing')
    BY <1>0, <1>5 DEF NeverAnswered, cache
<1>6. CASE UNCHANGED vars
    BY <1>0, <1>6 DEF vars, cache
<1>7. QED
    BY <1>1, <1>2, <1>3, <1>4, <1>5, <1>6 DEF Next

\* A call that is not answered waits for something that was asked for: a search,
\* a document, a lookup, or a draw under way that will resume it.  No call is
\* forgotten by gather, by the loops over bundles and guidelines, or by the
\* cache, not even when the entry that it waits for is evicted meanwhile.
THEOREM CallsAreServed == Spec => []NoneWaitsForNothing
    BY AwaitsInit, AwaitsNext, TypeCorrect, PTL DEF Spec

\* However documents come and go and whatever Solr and the recommender answer,
\* each step of a call brings it nearer to its answer, and no step of another
\* call takes it back: a fallback happens once, no guideline is extended twice,
\* and no branch is searched again.
THEOREM CallsDoNotCircle == Spec => AlwaysNearer
<1> DEFINE Progress ==
        \A c \in Call :
            /\ Coroutine(c) => Nearer(call[c], call'[c])
            /\ \A d \in Call : Draw(d) /\ c \in Waiting(d) => Nearer(call[c], call'[c])
            /\ Running(c) => call'[c] = call[c] \/ Nearer(call[c], call'[c])
<1>1. ASSUME TypeOK, NoneWaitsForNothing, Next PROVE Progress
  <2> SUFFICES ASSUME NEW c \in Call
               PROVE  /\ Coroutine(c) => Nearer(call[c], call'[c])
                      /\ \A d \in Call :
                            Draw(d) /\ c \in Waiting(d) => Nearer(call[c], call'[c])
                      /\ Running(c) => call'[c] = call[c] \/ Nearer(call[c], call'[c])
    BY Zenon
  <2>1. ASSUME NEW q \in Call, Coroutine(q)
        PROVE  Nearer(call[q], call'[q]) /\ (c # q => call'[c] = call[c])
    BY <1>1, <2>1, CoroutineGoes DEF CallGoes, Goes
  <2>2. ASSUME NEW d \in Call, Draw(d)
        PROVE  IF c \in Waiting(d) THEN Nearer(call[c], call'[c]) ELSE call'[c] = call[c]
    BY <1>1, <2>2, DrawResumes DEF DrawGoes, Goes
  <2>3. ASSUME NEW q \in Call, Begin(q), Running(c)
        PROVE  call'[c] = call[c]
    BY <1>1, <2>3, BeginAwaits DEF Running
  <2>4. ASSUME NEW d \in Doc, Change(d)
        PROVE  call'[c] = call[c]
    BY <2>4 DEF Change
  <2>5. ASSUME NEW q \in Call, NeverAnswered(q)
        PROVE  call'[c] = call[c]
    BY <2>5 DEF NeverAnswered
  <2>6. QED
    BY <1>1, <2>1, <2>2, <2>3, <2>4, <2>5 DEF Next
<1>2. TypeOK /\ NoneWaitsForNothing /\ [Next]_vars => [Progress]_vars
    BY <1>1
<1>3. QED
    BY <1>2, TypeCorrect, CallsAreServed, PTL DEF Spec, AlwaysNearer
=============================================================================
