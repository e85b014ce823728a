--------------------------- MODULE HashrateCounter ---------------------------
(***************************************************************************)
(* hashrate/hashrate.go, ema.go: the work of a miner or of a contract,     *)
(* counted by the goroutines that read the pools' answers - two of them    *)
(* while a miner is moved from one pool to another.  A share is added to   *)
(* three averages and a total, each under a lock of its own, and what is   *)
(* reported is rounded twice.  An average is a value that decays; here     *)
(* time goes by in ticks, an interval is a number of ticks, and a value    *)
(* that is h/(h+1) of itself after a tick stands for the exponential.      *)
(***************************************************************************)
EXTENDS Integers, FiniteSets, FiniteSetsExt

CONSTANTS Readers,     \* goroutines that call OnSubmit
          Intervals,   \* the averaging intervals: 5 min, 30 min, 1 h
          Diffs,       \* difficulties of shares
          HashesPerDiff, PerGHS,  \* 2^32 hashes for difficulty 1; 10^9 hashes per GH
          TotalLimit,  \* 2^64
          MaxSubmits, MaxTicks    \* bounds

ASSUME HashrateAssumption ==
    /\ IsFiniteSet(Readers) /\ Diffs \subseteq Nat
    /\ IsFiniteSet(Intervals) /\ Intervals \subseteq Nat \ {0}
    /\ {HashesPerDiff, PerGHS, TotalLimit} \subseteq Nat \ {0}
    /\ {MaxSubmits, MaxTicks} \subseteq Nat

VARIABLES ema,         \* of each interval: lastValue and lastTime
          totalHashes,
          clock,       \* getNow
          reader,      \* the share each reader has in hand, and what it has still to be added to
          submits,
          \* history:
          recent,      \* of each interval: what was added to it since the last tick
          work         \* all that was submitted

hashrateVars == <<ema, totalHashes, clock, reader, submits, recent, work>>

Total == 0    \* the total, beside the intervals
NoShare == [diff |-> 0, to |-> {}]

HashrateTypeOK ==
    /\ \A i \in Intervals : ema[i].lastValue \in Nat /\ ema[i].lastTime \in 0..clock
    /\ totalHashes \in 0..(TotalLimit - 1) /\ clock \in 0..MaxTicks
    /\ \A r \in Readers : reader[r].diff \in Diffs \cup {0} /\ reader[r].to \subseteq Intervals \cup {Total}
    /\ submits \in 0..MaxSubmits /\ recent \in [Intervals -> Nat] /\ work \in Nat

NewHashrate ==
    /\ ema = [i \in Intervals |-> [lastValue |-> 0, lastTime |-> 0]]
    /\ totalHashes = 0 /\ clock = 0
    /\ reader = [r \in Readers |-> NoShare]
    /\ submits = 0 /\ recent = [i \in Intervals |-> 0] /\ work = 0

\* valueAfter: the value that is left of v after a number of ticks.
valueAfter(v, elapsed, i) ==
    LET left[n \in 0..elapsed] == IF n = 0 THEN v ELSE (left[n - 1] * i) \div (i + 1)
    IN left[elapsed]

Value(i) == valueAfter(ema[i].lastValue, clock - ema[i].lastTime, i)

\* ValuePer(time.Second), rounded down: a tick has one second.
AveragePerSecond(i) == Value(i) \div i

\* averageSubmitDiffToGHS, HSToGHS
averageSubmitDiffToGHS(average) == (average * HashesPerDiff) \div PerGHS

GetHashrateGHS(i) == averageSubmitDiffToGHS(AveragePerSecond(i))
-----------------------------------------------------------------------------
\* OnSubmit begins.
OnSubmit(r, diff) ==
    /\ reader[r].to = {} /\ submits < MaxSubmits
    /\ submits' = submits + 1 /\ work' = work + diff
    /\ reader' = [reader EXCEPT ![r] = [diff |-> diff, to |-> Intervals \cup {Total}]]
    /\ UNCHANGED <<ema, totalHashes, clock, recent>>

\* The intervals in their order, then the total.
Counter(r) == IF reader[r].to = {Total} THEN Total ELSE Min(reader[r].to \ {Total})

Adds(r, i, value) ==
    /\ reader[r].to # {} /\ Counter(r) = i
    /\ reader' = [reader EXCEPT ![r].to = @ \ {i}]
    /\ ema' = [ema EXCEPT ![i] = [lastValue |-> value + reader[r].diff, lastTime |-> clock]]
    /\ recent' = [recent EXCEPT ![i] = @ + reader[r].diff]
    /\ UNCHANGED <<totalHashes, clock, submits, work>>

\* Mutant: the time of the last value is forgotten.
AddUndecayed(r, i) == Adds(r, i, ema[i].lastValue)

\* Counter.Add: what is left of the value, and the share.
Add(r, i) == Adds(r, i, Value(i))

AddTotal(r) ==
    /\ reader[r].to = {Total}
    /\ reader' = [reader EXCEPT ![r] = NoShare]
    /\ totalHashes' = (totalHashes + reader[r].diff) % TotalLimit
    /\ UNCHANGED <<ema, clock, submits, recent, work>>

ClockTicks ==
    /\ clock < MaxTicks
    /\ clock' = clock + 1
    /\ recent' = [i \in Intervals |-> 0]
    /\ UNCHANGED <<ema, totalHashes, reader, submits, work>>

HashrateNext == \/ ClockTicks
                \/ \E r \in Readers :
                      \/ \E diff \in Diffs : OnSubmit(r, diff)
                      \/ \E i \in Intervals : Add(r, i)
                      \/ AddTotal(r)
-----------------------------------------------------------------------------
Idle == \A r \in Readers : reader[r].to = {}

\* No share is lost or counted twice, whoever adds it: the total is all the work (modulo
\* its width), an average has what was added since the last tick and of the rest of the
\* work no more than one tick leaves, and the average over the longer interval forgets less.  What is reported in GHS
\* is less than the average by one step of the rounding at most, 2^32 hashes a second
\* (hashrate.go:58), and 1.
HashrateCounted ==
    /\ Idle => totalHashes = work % TotalLimit
    /\ \A i \in Intervals :
          /\ Value(i) >= recent[i]
          /\ Value(i) <= recent[i] + ((work - recent[i]) * i) \div (i + 1)
    /\ Idle => \A i, j \in Intervals : i < j => Value(i) <= Value(j)
    /\ \A i \in Intervals :
          LET exact == Value(i) * HashesPerDiff    \* times i * PerGHS
          IN /\ GetHashrateGHS(i) * i * PerGHS <= exact
             /\ exact < (GetHashrateGHS(i) + 1) * i * PerGHS + i * HashesPerDiff
=============================================================================
