\* Two goroutines allocate at once: the comment on DestSplit.split
\* (miner/dest_split.go:20) says the total stays below 100%.
SPECIFICATION Spec
CONSTANTS
    c1 = c1
    c2 = c2
    t1 = t1
    t2 = t2
    Callers = {t1, t2}
    Contracts = {c1, c2}
    Default = Default
    Api = Default
    Shares = {1, 2}
    Whole = 2
    MinPct = 1
    AfterIrregular = FALSE
INVARIANT
    TotalWithinWhole
CHECK_DEADLOCK FALSE
