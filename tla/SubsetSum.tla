------------------------------ MODULE SubsetSum ------------------------------
(***************************************************************************)
(* ClosestSubsetSumRGLI (contractmanager/closest_subset_sum_rgli.go): a    *)
(* randomised search for the miners whose hashrates add up to a target.    *)
(* The operators of ClosestSubset say what one choice does; here the       *)
(* trials are run choice by choice and the best one is kept.               *)
(***************************************************************************)
EXTENDS ClosestSubset

CONSTANTS Sizes,     \* numbers of miners offered
          Rates,     \* their hashrates
          Targets,   \* the targets asked for
          Trials     \* RGLI_TRIALS

ASSUME RatesAssumption == /\ Rates \subseteq Nat /\ Sizes \subseteq Nat \ {0}
                          /\ Targets \subseteq Int
ASSUME TrialsAssumption == Trials \in Nat \ {0}

VARIABLES arr, sum,  \* the arguments
          x, todo,   \* the mask of this trial and the indices still to go over
          phase, trials,
          best       \* resBestMask, meaningless until a trial has ended

searchVars == <<arr, sum, x, todo, phase, trials, best>>
args == <<arr, sum>>

SearchTypeOK ==
    /\ DOMAIN arr \in {1..n : n \in Sizes}
    /\ x \subseteq DOMAIN arr /\ todo \subseteq DOMAIN arr
    /\ phase \in {"select", "improve", "done"}
    /\ trials \in 0..Trials
    /\ best \subseteq DOMAIN arr

SearchInit ==
    /\ \E n \in Sizes : arr \in [1..n -> Rates]
    /\ sum \in Targets
    /\ x = {} /\ todo = DOMAIN arr
    /\ phase = "select"
    /\ trials = 0
    /\ best = {}

\* One step of the loop over a random order of all miners.
Select == /\ phase = "select"
          /\ \E v \in todo : x' = Pick(x, v, arr, sum) /\ todo' = todo \ {v}
          /\ UNCHANGED <<args, phase, trials, best>>

\* The second phase goes over the miners that are selected now.
Selected == /\ phase = "select" /\ todo = {}
            /\ phase' = "improve"
            /\ todo' = x
            /\ UNCHANGED <<args, x, trials, best>>

Improve == /\ phase = "improve"
           /\ \E i \in todo : x' = Replace(x, i, arr, sum) /\ todo' = todo \ {i}
           /\ UNCHANGED <<args, phase, trials, best>>

\* Mutant: the latest trial is kept instead of the best.
BetterLatest(mask) == TRUE

\* resBestDelta is math.MaxInt before the first trial ends.
Better(mask) == trials = 0 \/ absInt(delta(mask, arr, sum)) < absInt(delta(best, arr, sum))

\* The bound of the loop over the trials.
Over(n) == n = Trials

\* The trial is over: the next one begins unless the target is met exactly.
EndTrial == /\ phase = "improve" /\ todo = {}
            /\ best' = IF Better(x) THEN x ELSE best
            /\ trials' = trials + 1
            /\ IF delta(best', arr, sum) = 0 \/ Over(trials')
               THEN phase' = "done" /\ x' = {} /\ todo' = {}
               ELSE phase' = "select" /\ x' = {} /\ todo' = DOMAIN arr
            /\ UNCHANGED args

-----------------------------------------------------------------------------
Enough == SumFunction(arr) >= sum

\* If the miners together reach the target, the result reaches it; otherwise
\* it is all of them (closest_subset_sum_rgli.go:12-14, :54, :70).
ReachesTarget ==
    phase = "done" => IF Enough THEN delta(best, arr, sum) <= 0 ELSE best = DOMAIN arr

\* Each trial's outcome is one of those the scheduling service has to reckon
\* with, whichever trial wins (:29-36).
ReturnsAnOutcome == phase = "done" => best \in Outcomes(arr, sum)

\* A later trial never makes the result worse (:33).
NeverForgetsBest ==
    [][trials > 0 => absInt(delta(best', arr, sum)) <= absInt(delta(best, arr, sum))]_searchVars

\* The second phase never gives up a target that was reached (:59-79, the sign in :70).
KeepsTarget ==
    [][phase = "improve" /\ phase' = "improve" /\ delta(x, arr, sum) <= 0
          => delta(x', arr, sum) <= 0]_searchVars

\* The comments in trial (:58, :65) say of the second phase that it is a "local
\* improvement" looking for "potential elements to improve current solution": no
\* replacement leaves the sum further from the target than it was.
LocalImprovement ==
    [][phase = "improve" /\ phase' = "improve"
          => absInt(delta(x', arr, sum)) <= absInt(delta(x, arr, sum))]_searchVars
=============================================================================
