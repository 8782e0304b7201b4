--------------------------- MODULE MCRateLimiter ---------------------------
(* Values of the constants of RateLimiter for TLC. *)
EXTENDS RateLimiter

CONSTANTS v1
=============================================================================
