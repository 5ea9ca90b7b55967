--------------------------- MODULE MCRateLimiter ---------------------------
(* Small instances of RateLimiter; keys are interchangeable. *)
EXTENDS RateLimiter, TLC

Symmetric == Permutations(Key)
=============================================================================
