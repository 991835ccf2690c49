---------------------------- MODULE MCRateLimit -----------------------------
(***************************************************************************)
(* Two tasks and time for a pause, a ban that outlasts it, and the return. *)
(***************************************************************************)
EXTENDS RateLimit
=============================================================================
