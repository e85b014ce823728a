\* The comment on Stop (contractmanager/contract_model.go:287): a contract that was
\* stopped and on which nobody works any more is served by no miner.
SPECIFICATION Spec
CONSTANTS
    k1 = k1
    k2 = k2
    Contracts = {k1}
    Buyers = {}
    Target <- MostOfTwo
    MaxTerms = 1
    Outsiders = {k1}
    Late = {}
    Leaving = {1}
    AfterDamage = FALSE
    Miners = {1, 2}
    Rate <- TwoMiners
    PoolMin = 4
    PoolMax = 10
    Whole = 14
    MinPct = 1
INVARIANT
    StopReleasesMiners
CHECK_DEADLOCK FALSE
