---------------------------- MODULE MCRateLimiter ---------------------------
(* A TLC instance of RateLimiter: two tokens a minute for the whole system, *)
(* one for each domain.                                                     *)
EXTENDS RateLimiter, TLC

CostOf(global, domain) ==
    [b \in Buckets |-> IF b = Global THEN global ELSE domain]

CostValue == CostOf(1, 2)

Symmetry == Permutations(Workers) \cup Permutations(Domains)

=============================================================================
