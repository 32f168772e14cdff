--------------------------- MODULE MCOAuthRefresh ---------------------------
(***************************************************************************)
(* Small instances of OAuthRefresh: three requests, so that one can read   *)
(* between two others, and a login.                                        *)
(***************************************************************************)
EXTENDS OAuthRefresh

CONSTANTS q1, q2, q3, l1, f0
=============================================================================
