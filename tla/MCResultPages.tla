--------------------------- MODULE MCResultPages ---------------------------
(***************************************************************************)
(* Instances of ResultPages for TLC: a query with three chunks of results, *)
(* the last one short, and a query that has less than one chunk.           *)
(***************************************************************************)
EXTENDS ResultPages, TLC

CONSTANTS long, short

TwoQueries == long :> 12 @@ short :> 2
=============================================================================
