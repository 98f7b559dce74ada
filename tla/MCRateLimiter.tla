--------------------------- MODULE MCRateLimiter ---------------------------
(* Three callers on a bucket of two tokens of three ticks each: five calls   *)
(* drain it, queue three deep, and refill part of a token in between.       *)
EXTENDS RateLimiter
=============================================================================
