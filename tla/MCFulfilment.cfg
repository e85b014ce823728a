\* One contract, purchased twice, that needs most of a miner of 14 GHS; the miner
\* may be vetted late and may disconnect.  A contract that is not purchased again
\* rests, hence CHECK_DEADLOCK FALSE.
SPECIFICATION FairSpec
CONSTANTS
    k1 = k1
    k2 = k2
    Contracts = {k1}
    Buyers = {}
    Target <- MostOfOne
    MaxTerms = 2
    Outsiders = {k1}
    Late = {2}
    Leaving = {2}
    AfterDamage = FALSE
    Miners = {2}
    Rate <- OneMiner
    PoolMin = 4
    PoolMax = 10
    Whole = 14
    MinPct = 1
INVARIANTS
    TypeOK
    StopReleases

    
CHECK_DEADLOCK FALSE
