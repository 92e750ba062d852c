--------------------------- MODULE MCUserActions ---------------------------
(***************************************************************************)
(* Instances of UserActions for TLC.  There are as many sessions as calls   *)
(* and sign-ins can make.                                                  *)
(***************************************************************************)
EXTENDS UserActions

CONSTANTS r1, r2, b1, s1, s2, s3, s4, ann
=============================================================================
