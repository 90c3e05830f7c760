-------------------------- MODULE MCGlobalRateLimit --------------------------
(***************************************************************************)
(* The instances of GlobalRateLimit that TLC checks.                       *)
(***************************************************************************)
EXTENDS GlobalRateLimit
=============================================================================
