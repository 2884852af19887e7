---------------------------- MODULE MCRateLimits ----------------------------
EXTENDS RateLimits, TLC

CONSTANTS k1, k2

\* The first key's minute does not come back in whole seconds; the second
\* key is unlimited.
MCCapacity == [b \in Budgets |-> IF b[2] = k2 THEN 0 ELSE IF b[1] = "minute" THEN 2 ELSE 1]

MCPeriod == [b \in Budgets |-> IF b[1] \in {"minute", "day"} THEN 3 ELSE 2]

Symmetry == Permutations(Addresses) \cup Permutations(Requests)
=============================================================================
