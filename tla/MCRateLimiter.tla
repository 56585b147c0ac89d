---------------------------- MODULE MCRateLimiter ----------------------------
(* Instances of RateLimiter for TLC: keys are interchangeable.             *)
EXTENDS RateLimiter, TLC

Symmetry == Permutations(Keys)

=============================================================================
