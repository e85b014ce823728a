-------------------------- MODULE MeetInTheMiddle ---------------------------
(***************************************************************************)
(* ClosestSubsetSum (contractmanager/closest_subset_sum.go), the exact     *)
(* search that the random one of SubsetSum replaced: the numbers are cut   *)
(* in two halves, every subset of each is summed up, and the two sorted    *)
(* lists are walked from opposite ends.  A subset is a set of positions.   *)
(***************************************************************************)
EXTENDS Integers, Sequences, FiniteSets, FiniteSetsExt, SequencesExt, Functions

CONSTANTS HalfRates,   \* numbers that are tried
          HalfSizes,   \* how many of them are given
          LongLists,   \* lists too long to try every number
          HalfGoals,   \* goals that are tried
          MaxInt       \* the delta of no subset

ASSUME HalfAssumption ==
    /\ HalfRates \subseteq Int
    /\ HalfSizes \subseteq 0..8
    /\ LongLists \subseteq Seq(Int)
    /\ HalfGoals \subseteq Int
    /\ MaxInt \in Nat

sumIndexed(s, numbers) == SumFunctionOnSet(numbers, s)

\* The slices of a recursion share their array until append has to grow it, when they
\* have 1, 2, 4, 8 elements: what comes after the last growth is overwritten by siblings,
\* which in the end leave the positions that follow the last one of their own.
Kept(s) ==
    LET own == Max({k \in {1, 2, 3, 5, 9, 17} : k <= Cardinality(s)})
        first == {i \in s : Cardinality({k \in s : k <= i}) <= own}
    IN first \cup {Max(first) + k : k \in 1..(Cardinality(s) - own)}

\* What the subsets with an element end up as, for each sum one of them (sort.Slice
\* leaves those of equal sums in any order).
getAllSumArr(half, numbers) ==
    LET subsets == {Kept(s) : s \in (SUBSET half) \ {{}}}
        sums == {sumIndexed(s, numbers) : s \in subsets}
        sorted(k) == CHOOSE v \in sums : Cardinality({u \in sums : u < v}) = k - 1
    IN [k \in 1..Cardinality(sums) |->
           CHOOSE s \in subsets : sumIndexed(s, numbers) = sorted(k)]

\* A turn of the loop: a pair with a smaller overshoot is kept, the list to step along
\* depends on the sum; a loop that has met the goal, or used up a list, stays as it is.
Turn(loop, left, right, numbers, goal) ==
    LET sumx == sumIndexed(left[loop.i], numbers) + sumIndexed(right[loop.j], numbers)
        closer == IF sumx >= goal /\ sumx - goal < loop.delta
                  THEN [loop EXCEPT !.indexes = left[loop.i] \cup right[loop.j],
                                    !.delta = sumx - goal]
                  ELSE loop
    IN IF loop.i > Len(left) \/ loop.j = 0 THEN loop
       ELSE IF sumx < goal THEN [closer EXCEPT !.i = @ + 1]
            ELSE IF sumx > goal THEN [closer EXCEPT !.j = @ - 1] ELSE closer

\* The least overshoot that the loop meets; no turn is left to take after as many as the
\* lists are long together.
getMinValArr(left, right, numbers, goal) ==
    FoldLeft(LAMBDA loop, n : Turn(loop, left, right, numbers, goal),
             [i |-> 1, j |-> Len(right), indexes |-> {}, delta |-> MaxInt],
             [n \in 1..(Len(left) + Len(right)) |-> n])

LeftHalf(numbers) == 1..(Len(numbers) \div 2)
RightHalf(numbers) == DOMAIN numbers \ LeftHalf(numbers)

ClosestSubsetSum(numbers, goal) ==
    getMinValArr(getAllSumArr(LeftHalf(numbers), numbers),
                 getAllSumArr(RightHalf(numbers), numbers), numbers, goal)
-----------------------------------------------------------------------------
\* The subsets that could be chosen: both halves have a part in them.
FromBoth(numbers) ==
    {s \in SUBSET DOMAIN numbers : /\ s \cap LeftHalf(numbers) # {}
                                   /\ s \cap RightHalf(numbers) # {}}

\* Whatever is returned sums up to the goal and the delta.
DeltaFits(numbers, goal) ==
    LET res == ClosestSubsetSum(numbers, goal)
    IN IF res.indexes = {} THEN res.delta = MaxInt
       ELSE res.delta >= 0 /\ sumIndexed(res.indexes, numbers) = goal + res.delta

\* "The resulting sum is larger or equal to the goal", and of the subsets with a part in
\* both halves none is closer, as long as a half has at most four numbers
\* (closest_subset_sum.go:8-14); the delta is that of the subset whatever their number.
FindsClosest ==
    /\ \A n \in HalfSizes : \A numbers \in [1..n -> HalfRates] : \A goal \in HalfGoals :
          LET over == {sumIndexed(s, numbers) - goal : s \in FromBoth(numbers)} \cap Nat
          IN /\ DeltaFits(numbers, goal)
             /\ ClosestSubsetSum(numbers, goal).delta = Min(over \cup {MaxInt})
    /\ \A numbers \in LongLists : \A goal \in HalfGoals : DeltaFits(numbers, goal)
=============================================================================
