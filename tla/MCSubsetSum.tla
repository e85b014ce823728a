---------------------------- MODULE MCSubsetSum -----------------------------
(* The search for miners alone, for the comments that describe its phases.   *)
EXTENDS SubsetSum

Spec == SearchInit /\ [][Select \/ Selected \/ Improve \/ EndTrial]_searchVars
=============================================================================
