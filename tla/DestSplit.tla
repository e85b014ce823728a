----------------------------- MODULE DestSplit ------------------------------
(***************************************************************************)
(* miner/dest_split.go: how the hashpower of one miner is divided.  A      *)
(* split is a sequence of shares [id, pct]: `id` names the contract the    *)
(* share belongs to and stands for its destination too, `pct` is the       *)
(* percentage, counted in integer parts of Whole (the code's 1.0).         *)
(***************************************************************************)
EXTENDS Integers, Sequences, SequencesExt

CONSTANTS Whole,    \* the parts that make 100% of a miner
          MinPct    \* MinPercentage, in parts

ASSUME WholeAssumption == /\ Whole \in Nat \ {0}
                          /\ MinPct \in Nat \ {0}
                          /\ 2 * MinPct <= Whole

Share(id, pct) == [id |-> id, pct |-> pct]

GetAllocated(split) ==
    LET total[i \in 0..Len(split)] == IF i = 0 THEN 0 ELSE total[i - 1] + split[i].pct
    IN total[Len(split)]

GetUnallocated(split) == Whole - GetAllocated(split)

adjustPercentage(p) == IF p < MinPct THEN MinPct
                       ELSE IF p > Whole - MinPct THEN Whole ELSE p

\* The conditions under which allocate refuses a share; `room` is what
\* GetUnallocated returned, by the time the share is inserted it may be less.
Refused(p, room) == p > Whole \/ p = 0 \/ p > room

insert(split, id, p) == <<Share(id, p)>> \o split

\* First position of a share of id at or after `from`, 0 if there is none.
IndexFrom(split, id, from) ==
    SelectInSubSeq(split, from, Len(split), LAMBDA share : share.id = id)

\* AllocateRemaining as used on a copy: no other goroutine sees the copy.
AllocateRemaining(split, id) ==
    LET remaining == GetUnallocated(split)
    IN IF remaining = 0 \/ Refused(remaining, remaining)
       THEN split ELSE insert(split, id, remaining)

\* The three mutators that work on the first share of an id.
IncreaseAllocation(split, id, p) ==
    LET i == IndexFrom(split, id, 1)
    IN IF i = 0 THEN split ELSE [split EXCEPT ![i].pct = @ + p]

SetFractionByID(split, id, p) ==
    LET i == IndexFrom(split, id, 1)
    IN IF i = 0 THEN split ELSE [split EXCEPT ![i].pct = p]

RemoveByID(split, id) ==
    LET i == IndexFrom(split, id, 1)
    IN IF i = 0 THEN split ELSE RemoveAt(split, i)

Holders(split) == {split[i].id : i \in DOMAIN split}

NoDuplicates(split) == \A i, j \in DOMAIN split : split[i].id = split[j].id => i = j
AllPositive(split) == \A i \in DOMAIN split : split[i].pct > 0
=============================================================================
