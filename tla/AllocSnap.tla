------------------------------ MODULE AllocSnap ------------------------------
(***************************************************************************)
(* contractmanager/alloc_snap.go: the snapshot the global scheduler plans  *)
(* from.  It lists twice who holds which fraction of which miner, once for *)
(* each contract and once for each miner, and once the miners' hashrates.  *)
(* A map of the code is a function whose domain grows.  Hashrates are      *)
(* whole GHS, fractions integer parts of Whole (see DestSplit).            *)
(***************************************************************************)
EXTENDS DestSplit, FiniteSets, FiniteSetsExt, Functions

AllocItem(m, c, p, ghs) == [MinerID |-> m, ContractID |-> c, Fraction |-> p, TotalGHS |-> ghs]

\* Conversion to int drops the rest.
AllocatedGHS(item) ==
    IF item.Fraction >= 0 THEN (item.TotalGHS * item.Fraction) \div Whole
    ELSE -((item.TotalGHS * (-item.Fraction)) \div Whole)

NewAllocCollection == <<>>

\* An item replaces the former one of its id.
Add(items, id, item) ==
    [k \in {id} \cup DOMAIN items |-> IF k = id THEN item ELSE items[k]]

\* AllocatedGHS of all items together.
TotalAllocated(items) == SumFunction([id \in DOMAIN items |-> AllocatedGHS(items[id])])

IDs(items) == DOMAIN items

FilterFullyAvailable(items) ==
    Restrict(items, {id \in DOMAIN items : items[id].Fraction = Whole})

\* AllocCollection.GetUnallocatedGHS: what the items of a miner leave of it.
Unallocated(items) == Whole - SumFunction([id \in DOMAIN items |-> items[id].Fraction])
-----------------------------------------------------------------------------
NewAllocSnap == [contracts |-> NewAllocCollection, miners |-> NewAllocCollection,
                 hashrates |-> NewAllocCollection]

Collection(map, id) == IF id \in DOMAIN map THEN map[id] ELSE NewAllocCollection

Miner(snap, m) == Collection(snap.miners, m)
Contract(snap, c) == Collection(snap.contracts, c)

SetMiner(snap, m, ghs) ==
    [contracts |-> snap.contracts,
     miners |-> Add(snap.miners, m, Miner(snap, m)),
     hashrates |-> Add(snap.hashrates, m, ghs)]

Set(snap, m, c, p, ghs) ==
    LET item == AllocItem(m, c, p, ghs)
        known == SetMiner(snap, m, ghs)
    IN [contracts |-> Add(known.contracts, c, Add(Contract(known, c), m, item)),
        miners |-> Add(known.miners, m, Add(Miner(known, m), c, item)),
        hashrates |-> known.hashrates]

\* AllocSnap.GetUnallocatedGHS: the miners that are not allocated fully.
Unreserved(snap) ==
    LET free == [m \in DOMAIN snap.miners |-> Unallocated(snap.miners[m])]
    IN [m \in {n \in DOMAIN free : free[n] > 0} |->
           AllocItem(m, "", free[m], snap.hashrates[m])]

\* One miner after the other, and the shares of each in their order: of two shares
\* of one contract in a miner the snapshot keeps the one that comes last.
CreateMinerSnapshot(splits, vetted, rates) ==
    LET Shares(m, snap) ==
            FoldLeft(LAMBDA s, share : Set(s, m, share.id, share.pct, rates[m]),
                     SetMiner(snap, m, rates[m]), splits[m])
    IN FoldSet(Shares, NewAllocSnap, vetted)
=============================================================================
