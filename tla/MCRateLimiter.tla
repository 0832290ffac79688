--------------------------- MODULE MCRateLimiter ---------------------------
(* A small instance of RateLimiter, and variants of its definitions that    *)
(* stand for plausible mistakes in rate_limit.rs.                           *)
EXTENDS RateLimiter
=============================================================================
