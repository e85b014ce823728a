---------------------------- MODULE MCFulfilment ----------------------------
(* Fulfilment for TLC: miners of 7 and 14 GHS; one contract for most of them *)
(* or two that have to share them.                                           *)
EXTENDS Fulfilment

CONSTANTS k1, k2

OneMiner == [m \in {2} |-> 14]
TwoMiners == [m \in {1, 2} |-> IF m = 1 THEN 7 ELSE 14]

MostOfOne == [c \in {k1} |-> 12]
MostOfTwo == [c \in {k1} |-> 19]
Shared == [c \in {k1, k2} |-> IF c = k1 THEN 6 ELSE 13]
=============================================================================
