---------------------------- MODULE ClosestSubset ----------------------------
(***************************************************************************)
(* The arithmetic of contractmanager/closest_subset_sum_rgli.go: which     *)
(* miners to pick so that their hashrates come close to a target.  `a`     *)
(* maps the miners offered (numbers: the position of their sorted keys) to *)
(* GHS, B is the target and x the set of selected ones (the bit mask).     *)
(***************************************************************************)
EXTENDS Integers, Sequences, FiniteSets, SequencesExt, FiniteSetsExt, Functions

absInt(n) == IF n < 0 THEN -n ELSE n

\* What the selected miners fall short of the target (below 0: exceed it by).
delta(x, a, B) == B - SumFunctionOnSet(a, x)

\* First phase: a miner is added while the target is not reached.
Pick(x, v, a, B) == IF delta(x, a, B) > 0 THEN x \cup {v} ELSE x

\* Second phase: what may replace miner i; none if the target is met exactly.
Candidates(x, i, a, B) ==
    {j \in DOMAIN a \ x :
        absInt(a[j] - a[i] + delta(x, a, B)) < absInt(delta(x, a, B))}

\* Mutant: the sign of the difference is the intended one.
ReplaceCloser(x, i, a, B) ==
    LET better == {j \in DOMAIN a \ x :
                      absInt(delta(x, a, B) - (a[j] - a[i])) < absInt(delta(x, a, B))}
    IN IF better = {} THEN x ELSE (x \ {i}) \cup {Max(better)}

\* The last candidate is taken.
Replace(x, i, a, B) ==
    IF Candidates(x, i, a, B) = {} THEN x ELSE (x \ {i}) \cup {Max(Candidates(x, i, a, B))}

\* The orders in which a trial may go over some indices.
shuffle(indices) == SetToSeqs(indices)

\* Everything one trial may return, over the orders of the two shuffles.
Selections(a, B) ==
    {FoldLeft(LAMBDA x, v : Pick(x, v, a, B), {}, order) : order \in shuffle(DOMAIN a)}

Outcomes(a, B) ==
    UNION {{FoldLeft(LAMBDA x, i : Replace(x, i, a, B), x0, order) :
               order \in shuffle(x0)} : x0 \in Selections(a, B)}
=============================================================================
