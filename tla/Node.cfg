\* One clone, two purchases, one lost connection; three publications, four accesses to
\* the repository; the search of SubsetSum with two trials.  Terms end and processes stop,
\* hence CHECK_DEADLOCK FALSE.
SPECIFICATION Spec
CONSTANTS
    MaxConnections = 1
    Contracts = {c1}
    MaxObjects = 2
    MaxRentals = 2
    MaxDrops = 1
    MaxLogs = 0
    buyer = buyer
    titan = titan
    factory = factory
    rental = rental
    None = None
    Users = {buyer, titan}
    Clones = {rental}
    Factory = factory
    Owner = buyer
    Supply = 8
    Amounts = {4}
    Grants <- MCGrants
    Terms <- MCTerms
    Destinations = {d}
    TitanFund = titan
    CutNum = 1
    CutDen = 4
    Genesis = 4
    MaxTime = 7
    Subscribers = {s1, s2}
    Publishers = {p1, p2}
    Names = {n1}
    BufferSize = 1
    MaxEvents = 2
    Clients = {k1, k2}
    Ids = {i1, i2}
    Items = {v1, v2}
    Absent = Absent
    MaxOps = 4
    Sizes = {1, 2, 3}
    Rates = {0, 1, 2, 3, 5}
    Targets = {0, 1, 3, 4, 7, 12}
    Trials = 2
INVARIANTS TypeOK OncePerRental  EscrowCovers 
PROPERTIES Known Exits ImplementsRental  KeepsTarget
CHECK_DEADLOCK FALSE
