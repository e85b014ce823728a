\* Three goroutines closing contracts, at most three transactions of the account; two
\* miners and two requests; two readers and three shares; every text of each kind; lists of up to
\* five numbers and two long ones.
\* Handlers return and programs are configured once, hence CHECK_DEADLOCK FALSE.
SPECIFICATION ServicesSpec
CONSTANTS
    Callers = {a, b, c}
    Foreign = Foreign
    NoJob = NoJob
    MaxTx = 3
    Rigs = {1, 2}
    Requests = {1, 2}
    Readers = {g1, g2}
    Intervals = {1, 2, 4}
    Diffs = {1, 7}
    HashesPerDiff = 43
    PerGHS = 10
    TotalLimit = 8
    MaxSubmits = 3
    MaxTicks = 2
    Minima = {"absent", "zero", "negative", "short"}
    Maxima = {"garbled", "negative", "long"}
    Attempts = 9
    HalfRates = {0, 1, 3, 5}
    HalfSizes = {1, 2, 3, 4, 5}
    LongLists <- MCLists
    HalfGoals = {0, 3, 4, 9}
    MaxInt = 2147483647
    Branches <- MCBranches
INVARIANTS  ServicesSound 
PROPERTIES  EveryCallReturns 
CHECK_DEADLOCK FALSE
