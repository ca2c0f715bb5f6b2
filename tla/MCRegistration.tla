--------------------------- MODULE MCRegistration ---------------------------
(***************************************************************************)
(* Registration for one request after another at an app.                   *)
(***************************************************************************)
EXTENDS Registration

CONSTANT req1
=============================================================================
