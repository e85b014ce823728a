\* A miner that says three lines and a pool that pushes one; three switches, one
\* share and a change of difficulty.
\* Sessions end, hence CHECK_DEADLOCK FALSE.
SPECIFICATION Spec
CONSTANTS
    MaxLines = 3
    MaxPushes = 1
    Hosts = {h1, h2}
    First = h1
    MaxCalls = 3
    MaxShares = 1
    MaxRetunes = 1
    Difficulties = {1, 2}
INVARIANTS TypeOK  SwitchesSettle SharesCredited
PROPERTIES SessionEnds
CHECK_DEADLOCK FALSE
