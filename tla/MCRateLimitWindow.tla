-------------------------- MODULE MCRateLimitWindow -------------------------
(***************************************************************************)
(* TLC instances of RateLimitWindow.                                       *)
(***************************************************************************)
EXTENDS RateLimitWindow

=============================================================================
