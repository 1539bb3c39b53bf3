--------------------------- MODULE MCRateLimiter ---------------------------
(***************************************************************************)
(* Instances of RateLimiter for TLC.                                       *)
(***************************************************************************)
EXTENDS RateLimiter, TLC

CONSTANTS c1, c2

Symmetry == Permutations(Clients)

Lowest == -4
============================================================================
