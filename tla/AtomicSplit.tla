----------------------------- MODULE AtomicSplit -----------------------------
(***************************************************************************)
(* What a miner's scheduler promises those who divide its hashpower: while *)
(* calls are regular, each takes effect at one moment between its begin    *)
(* and its end, as one operation of DestSplit on the split as it is then.  *)
(* Calls are regular until two are under way at once, or one allocates to  *)
(* a contract that holds a share; then nothing is promised any more.       *)
(* Fulfilment, where a call on a miner is one step, rests on this.         *)
(***************************************************************************)
EXTENDS DestSplit

CONSTANTS Callers, Contracts, Shares

VARIABLES split,   \* the shares of the miner
          call,    \* the call of each caller: none, waiting to take effect, or done
          regular

splitVars == <<split, call, regular>>

NoCall == [st |-> "none"]
Done == [st |-> "done"]
Waiting(kind, id, p) == [st |-> "waiting", kind |-> kind, id |-> id, pct |-> p]

Requests ==
    {Waiting("allocate", id, adjustPercentage(p)) : id \in Contracts, p \in Shares}
    \cup {Waiting(k, id, p) : k \in {"increase", "set"}, id \in Contracts, p \in Shares}
    \cup {Waiting(k, id, 0) : k \in {"remove", "deallocate"}, id \in Contracts}

\* What an operation makes of a split.  Where no contract holds two shares, Deallocate
\* cuts out what RemoveByID does.
Effect(o, s) ==
    CASE o.kind = "allocate" -> IF Refused(o.pct, GetUnallocated(s)) THEN s
                                ELSE insert(s, o.id, o.pct)
      [] o.kind = "increase" -> IncreaseAllocation(s, o.id, o.pct)
      [] o.kind = "set" -> SetFractionByID(s, o.id, o.pct)
      [] OTHER -> RemoveByID(s, o.id)

SplitInit == split = <<>> /\ call = [t \in Callers |-> NoCall] /\ regular = TRUE

\* A call begins.
Ask(t) ==
    \E o \in Requests :
        /\ regular /\ call[t] = NoCall
        /\ UNCHANGED split
        /\ regular' <=> /\ \A u \in Callers : call[u] = NoCall
                        /\ ~(o.kind = "allocate" /\ o.id \in Holders(split))
        /\ regular' => call' = [call EXCEPT ![t] = o]

\* A call takes effect, and may return at once.
Take(t) ==
    /\ regular /\ regular'
    /\ call[t].st = "waiting"
    /\ split' = Effect(call[t], split)
    /\ \E after \in {Done, NoCall} : call' = [call EXCEPT ![t] = after]

Return(t) == /\ regular /\ regular'
             /\ call[t] = Done /\ call' = [call EXCEPT ![t] = NoCall]
             /\ UNCHANGED split

Unpromised == ~regular /\ ~regular'

SplitNext == Unpromised \/ \E t \in Callers : Ask(t) \/ Take(t) \/ Return(t)

SplitSpec == SplitInit /\ [][SplitNext]_splitVars
=============================================================================
