--------------------------- MODULE MCRateLimiter ---------------------------
(***************************************************************************)
(* Two addresses; two requests in three seconds, so that a token takes a   *)
(* second and a half.                                                      *)
(***************************************************************************)
EXTENDS RateLimiter, TLC

Symmetry == Permutations(IPs)
=============================================================================
