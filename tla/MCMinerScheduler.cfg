\* The scheduler and its callers; see MCMinerScheduler.tla.  A process that has
\* panicked, or callers left behind by Run, do stop: no deadlock check.
SPECIFICATION FairSpec
CONSTANTS
    c1 = c1
    c2 = c2
    t1 = t1
    t2 = t2
    Callers = {t1, t2}
    Contracts = {c1, c2}
    Default = Default
    Api = Default
    Shares = {1, 2}
    Whole = 2
    MinPct = 1
    AfterIrregular = FALSE
INVARIANTS
    TypeOK
    MethodsInv
    
    CycleCoversMiner
    RestartNotLost
PROPERTIES
    ImplementsAtomicSplit
    ServedC1
    LeftC1
    ReturnsT1
CHECK_DEADLOCK FALSE
