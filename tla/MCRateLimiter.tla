--------------------------- MODULE MCRateLimiter ---------------------------
(* Three requests at a time. *)
EXTENDS RateLimiter

CONSTANTS r1, r2, r3

MCTask == {r1, r2, r3}
=============================================================================
