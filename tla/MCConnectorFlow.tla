-------------------------- MODULE MCConnectorFlow --------------------------
(***************************************************************************)
(* Instances of ConnectorFlow for TLC.                                     *)
(***************************************************************************)
EXTENDS ConnectorAccess, TLC

CONSTANTS b1, b2, t1, t2

\* Two tabs of one browser, one tab of each of two browsers, a single tab.
TwoTabs == t1 :> b1 @@ t2 :> b1
TwoBrowsers == t1 :> b1 @@ t2 :> b2
OneTab == t1 :> b1

Ids == Permutations(Session)
==================================================
