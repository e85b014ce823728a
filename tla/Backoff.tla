------------------------------- MODULE Backoff -------------------------------
(***************************************************************************)
(* lib/retry.go: how long a subscription waits before it is tried again.   *)
(* The two limits are pointers: a set of one number, or none for nil.      *)
(***************************************************************************)
EXTENDS Naturals

CONSTANTS Attempts    \* bound: the attempts looked at, 0..Attempts

ASSUME BackoffAssumption == Attempts \in Nat

NewLinearBackoff(attempt, delay, maxAttempts, maxDelay) ==
    IF \E n \in maxAttempts : attempt > n THEN [wait |-> 0, done |-> TRUE]
    ELSE IF \E d \in maxDelay : attempt * delay > d
         THEN [wait |-> CHOOSE d \in maxDelay : TRUE, done |-> FALSE]
         ELSE [wait |-> attempt * delay, done |-> FALSE]

\* wire_gen.go:138: 2 seconds more each time, 15 at most, and no end.
backoff(attempt) == NewLinearBackoff(attempt, 2, {}, {15})
-----------------------------------------------------------------------------
\* A subscription is tried for ever, waits before every attempt but the first, no
\* shorter than before the last one and no longer than 15 seconds (ethereum_gateway.go:107
\* counts from 1); with a limit, every attempt up to it is made and none after it.
BackoffSound ==
    /\ \A k \in 1..Attempts : LET b == backoff(k) IN
          ~b.done /\ b.wait > 0 /\ b.wait <= 15 /\ b.wait >= backoff(k - 1).wait
    /\ \A n, k \in 0..Attempts : NewLinearBackoff(k, 2, {n}, {15}).done <=> k > n
=============================================================================
