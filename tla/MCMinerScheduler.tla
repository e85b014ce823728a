-------------------------- MODULE MCMinerScheduler --------------------------
(* MinerScheduler for TLC: two goroutines, two contracts, a miner in two     *)
(* parts.  The specification treats all contracts alike and all callers      *)
(* alike, so its liveness is checked for one of each.                        *)
EXTENDS MinerScheduler

CONSTANTS c1, c2, t1, t2

\* The share of a contract is served (miner/on_demand_miner_scheduler.go:42-81).
ServedC1 == ShareIsServed(c1)

\* The miner leaves a contract that was deallocated (same lines).
LeftC1 == DeallocatedIsLeft(c1)

\* Allocate does not block for ever while Run runs (:103-114).
ReturnsT1 == AllocateReturns(t1)
=============================================================================
