\* A contract for sale and one that is bought, sharing two miners that may both
\* disconnect.  All terms end in the end, hence CHECK_DEADLOCK FALSE.
SPECIFICATION Spec
CONSTANTS
    k1 = k1
    k2 = k2
    Contracts = {k1,k2}
    Buyers = {k2}
    Target <- Shared
    MaxTerms = 1
    Outsiders = {k2}
    Late = {}
    Leaving = {1, 2}
    AfterDamage = FALSE
    Miners = {1, 2}
    Rate <- TwoMiners
    PoolMin = 4
    PoolMax = 10
    Whole = 14
    MinPct = 1
INVARIANTS
    
    TracksMiners
CHECK_DEADLOCK FALSE
