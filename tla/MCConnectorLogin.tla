-------------------------- MODULE MCConnectorLogin -------------------------
(* Instances of ConnectorLogin for TLC.                                    *)
EXTENDS ConnectorLogin, TLC

CONSTANTS l1, l2, l3, q1, q2, c1, p1, ann, bob

Symmetric == Permutations(Login) \cup Permutations(Return) \cup Permutations(Person)
=============================================================================
