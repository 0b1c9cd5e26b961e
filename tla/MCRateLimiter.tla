--------------------------- MODULE MCRateLimiter ----------------------------
(* Instances of RateLimiter for TLC, in units of half a minute: a pace of   *)
(* 4 is WhatsApp's 120 seconds, drawn between 3 (96 s) and 5 (150 s).       *)
EXTENDS RateLimiter, TLC

MCSymmetry == Permutations(Loops) \cup Permutations(Operators)
=============================================================================
