\* The comment on minerIDs (contractmanager/contract_model.go:41): it names the
\* miners that serve the contract.
SPECIFICATION Spec
CONSTANTS
    k1 = k1
    k2 = k2
    Contracts = {k1}
    Buyers = {}
    Target <- MostOfTwo
    MaxTerms = 1
    Outsiders = {k1}
    Late = {}
    Leaving = {}
    AfterDamage = FALSE
    Miners = {1, 2}
    Rate <- TwoMiners
    PoolMin = 4
    PoolMax = 10
    Whole = 14
    MinPct = 1
INVARIANT
    InvolvedMiners
CHECK_DEADLOCK FALSE
