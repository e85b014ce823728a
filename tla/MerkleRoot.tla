----------------------------- MODULE MerkleRoot ------------------------------
(***************************************************************************)
(* ConvertMerkleBranchesToRoot (hashrate/utils.go): the root of a Merkle   *)
(* tree kept in one array, leaves first, every level after the one it is   *)
(* made from.  The n-th branch is <<n>>, the hash of two nodes the pair of *)
(* them, and a place without a node is Nil.                                *)
(***************************************************************************)
EXTENDS Integers, Sequences, FiniteSets, FiniteSetsExt

CONSTANT Branches      \* how many branches are tried

ASSUME BranchesAssumption == Branches \subseteq Nat

Nil == <<>>

\* The least 1 << exponent that is not less than n.
nextPowerOfTwo(n) ==
    LET shifted[exponent \in 0..n] == IF exponent = 0 THEN 1 ELSE 2 * shifted[exponent - 1]
    IN Min({shifted[exponent] : exponent \in 0..n} \ (0..(n - 1)))

\* Mutant: a node without a right sibling is hashed with nothing.
ParentAlone(left, right) == IF left = Nil THEN Nil ELSE <<left, right>>

\* A node without a right sibling is hashed with itself.
Parent(left, right) ==
    IF left = Nil THEN Nil ELSE <<left, IF right = Nil THEN left ELSE right>>

ConvertMerkleBranchesToRoot(n) ==
    LET leaves == nextPowerOfTwo(n)
        node[k \in 0..(2 * leaves - 2)] ==
            IF k < n THEN <<k>>
            ELSE IF k < leaves THEN Nil
                 ELSE Parent(node[2 * (k - leaves)], node[2 * (k - leaves) + 1])
    IN IF n = 0 THEN Nil ELSE node[2 * leaves - 2]
-----------------------------------------------------------------------------
\* The definition: level upon level, the last node of an odd level taken twice.
LevelAbove(level) ==
    IF Len(level) = 1 THEN level
    ELSE [k \in 1..((Len(level) + 1) \div 2) |->
             <<level[2 * k - 1], IF 2 * k <= Len(level) THEN level[2 * k] ELSE level[2 * k - 1]>>]

RootOf(n) ==
    LET level[h \in 0..n] == IF h = 0 THEN [k \in 1..n |-> <<k - 1>>] ELSE LevelAbove(level[h - 1])
    IN IF n = 0 THEN Nil ELSE level[n][1]

\* The array holds the tree of the definition, whatever the number of branches
\* (hashrate/utils.go:17-50).
RootIsDefined == \A n \in Branches : ConvertMerkleBranchesToRoot(n) = RootOf(n)
=============================================================================
