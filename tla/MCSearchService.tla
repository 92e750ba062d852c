-------------------------- MODULE MCSearchService --------------------------
(***************************************************************************)
(* Instances of SearchService for TLC: a bundle of two offers of one       *)
(* service, and a document of each of the other collections.               *)
(***************************************************************************)
EXTENDS SearchService, TLC

CONSTANTS c1, c2, c3, p1, s1, g1, b1, o1, o2, n1, unscoped, scoped

Ask(op, coll, scope) == [op |-> op, coll |-> coll, scope |-> scope, byRelevance |-> FALSE]

Recommend(k, scope) == Ask("recommendations", k, scope)

\* Guidelines have no panel: a call for recommendations of them fails at once.
FailsAtOnce == Recommend("guideline", unscoped)

\* Any request beside two that fail at once, and two requests for recommendations
\* of the same or of different keys, while one thing changes; and three, two of
\* them of the same key, while nothing changes.
AnyAlone ==
    {[of |-> c1 :> q @@ c2 :> FailsAtOnce @@ c3 :> FailsAtOnce,
      maxChanges |-> 1] :
        q \in {r \in Request : r.scope = unscoped}}
TwoRecommend ==
    {[of |-> c1 :> Recommend("all_collection", unscoped) @@ c2 :> q @@ c3 :> FailsAtOnce,
      maxChanges |-> 1] :
        q \in {Recommend("all_collection", unscoped), Recommend("service", scoped)}}
ThreeRecommend ==
    {[of |-> c1 :> Recommend("service", unscoped) @@ c2 :> Recommend("service", scoped)
               @@ c3 :> Recommend("service", unscoped),
      maxChanges |-> 0]}
AllRequests == AnyAlone \cup TwoRecommend \cup ThreeRecommend

BundleOfTwo == b1 :> {o1, o2}
OneService == o1 :> s1 @@ o2 :> s1
=============================================================================
