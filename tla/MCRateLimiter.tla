---------------------------- MODULE MCRateLimiter ----------------------------
(* Instances of RateLimiter for TLC. *)
EXTENDS RateLimiter, TLC

\* Safety runs only: calls and keys are interchangeable.
LimiterSymmetry == Permutations(Calls) \cup Permutations(Keys)
=============================================================================
