------------------------------ MODULE AllocPlan ------------------------------
(***************************************************************************)
(* What contractmanager/global_scheduler_service.go computes from a        *)
(* snapshot of the miners (AllocSnap) before it touches any of them: which *)
(* miners a contract is given, and by how much the share of one miner is   *)
(* raised or lowered.  Every hashrate divides Whole, so that fractions are *)
(* exact.                                                                  *)
(***************************************************************************)
EXTENDS AllocSnap, ClosestSubset

CONSTANTS Miners,   \* numbers: the order of the miners' ids
          Rate,     \* GetHashRateGHS of each miner
          PoolMin,  \* poolMinFraction, in parts
          PoolMax   \* poolMaxFraction, in parts

ASSUME MinersAssumption == /\ Miners \subseteq Nat /\ IsFiniteSet(Miners)
                           /\ Rate \in [Miners -> Nat \ {0}]
                           /\ \A m \in Miners : Whole % Rate[m] = 0
ASSUME PoolAssumption == /\ PoolMax \in Nat /\ PoolMin \in 1..PoolMax
                          /\ PoolMin + PoolMax = Whole /\ Whole % 2 = 0

\* The GHS that a fraction p of miner m makes, and the fraction that makes ghs.
GHS(m, p) == AllocatedGHS(AllocItem(m, "", p, Rate[m]))
Parts(m, ghs) == (ghs * Whole) \div Rate[m]
-----------------------------------------------------------------------------
(* Choosing miners for a new share, from the items of their free fractions.  *)

\* All combinations the randomised search may lead to.
FindCombinations(items, target) ==
    {Restrict(items, x) :
        x \in Outcomes([m \in DOMAIN items |-> AllocatedGHS(items[m])], target)}

\* Fully available miners that can give up `over` GHS of what they were asked.
Reducible(items, over) ==
    {m \in DOMAIN items : items[m].Fraction = Whole
                          /\ Parts(m, over) > PoolMin /\ Parts(m, over) < PoolMax}

\* Those for which that fraction is the closest to a half.
getBestMinerToReduceHashrate(items, over) ==
    LET off(m) == absInt(2 * Parts(m, over) - Whole)
    IN {m \in Reducible(items, over) : \A n \in Reducible(items, over) : off(m) <= off(n)}

ReduceMinerAllocation(items, m, over) == [items EXCEPT ![m].Fraction = @ - Parts(m, over)]

\* What one combination that makes `over` GHS too much becomes, with its verdict.
Trimmed(items, over) ==
    LET best == getBestMinerToReduceHashrate(items, over)
    IN IF over > 0 /\ best # {}
       THEN {[comb |-> ReduceMinerAllocation(items, m, over), accurate |-> TRUE] : m \in best}
       ELSE {[comb |-> items, accurate |-> over <= 0]}

getAllocateComb(items, target) ==
    UNION {Trimmed(comb, TotalAllocated(comb) - target) : comb \in FindCombinations(items, target)}

\* The second attempt is made on the fully available miners only, and is taken
\* whatever its verdict.
Combinations(items, target) ==
    UNION {IF r.accurate THEN {r.comb}
           ELSE {q.comb : q \in getAllocateComb(FilterFullyAvailable(items), target)} :
              r \in getAllocateComb(items, target)}
-----------------------------------------------------------------------------
(* Adjusting the share of a miner that serves the contract already: `have`   *)
(* is its fraction and `room` the miner's free fraction in the snapshot,     *)
(* `rest` the GHS still to be added or removed.                              *)

\* incAllocation, :233-261: the fraction to be added; 0 leaves the miner alone.
ToAdd(m, have, room, rest) ==
    LET ghs == IF rest < GHS(m, room) THEN rest ELSE GHS(m, room)
        new == have + Parts(m, ghs)
    IN IF rest <= 0 \/ ghs = 0 \/ new < PoolMin THEN 0
       ELSE IF new > PoolMax /\ new < Whole THEN PoolMax - have ELSE Parts(m, ghs)

\* decrAllocation, :302-331: what becomes of the share and how many GHS that is
\* taken to remove.
TakesAll(m, have, rest) == rest >= GHS(m, have)

Lowered(m, have, rest) == have - Parts(m, rest)

NewFraction(m, have, rest) ==
    IF Lowered(m, have, rest) > PoolMax THEN Whole \div 2 ELSE Lowered(m, have, rest)

Removed(m, have, rest) ==
    IF TakesAll(m, have, rest) \/ Lowered(m, have, rest) < PoolMin THEN GHS(m, have)
    ELSE IF Lowered(m, have, rest) > PoolMax THEN GHS(m, Whole \div 2) ELSE rest

Decreased(s, id, m, have, rest) ==
    IF TakesAll(m, have, rest) THEN RemoveByID(s, id)
    ELSE SetFractionByID(IF Lowered(m, have, rest) < PoolMin THEN RemoveByID(s, id) ELSE s,
                         id, NewFraction(m, have, rest))
=============================================================================
