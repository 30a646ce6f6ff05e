--------------------------- MODULE MCRateLimiter ---------------------------
(* Instance of RateLimiter for TLC: limits below, at and above one.        *)
EXTENDS RateLimiter

MCLimits == {-1, 0, 1, 3}
=============================================================================
