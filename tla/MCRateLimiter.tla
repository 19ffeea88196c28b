----------------------------- MODULE MCRateLimiter -----------------------------
(* One name, as buckets of different names share nothing, and two fetches, so   *)
(* that one can hold the limit of a credential since replaced.  Limits of one   *)
(* and three a minute are worth a token every 60 and 20 seconds; steps of 10    *)
(* and 30 seconds reach, miss and overshoot them.                               *)
EXTENDS RateLimiter, TLC

Symmetric == Permutations(Fetches)
===============================================================================
