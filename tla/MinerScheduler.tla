--------------------------- MODULE MinerScheduler ---------------------------
(***************************************************************************)
(* miner/on_demand_miner_scheduler.go and the DestSplit it owns: one       *)
(* connected miner, its Run loop, and the goroutines that divide its       *)
(* hashpower (contract loops, the contract event listener, the HTTP API).  *)
(*                                                                         *)
(* Run takes a copy of the split with the default destination added, goes  *)
(* through it share by share (change the destination if it differs, wait   *)
(* for the share's part of the cycle) and starts over.  Callers change the *)
(* split meanwhile.  Their methods hold no lock from the first read to the *)
(* last write, so each is cut where another goroutine can come between:    *)
(*   Allocate        copy the split / check the room / insert / signal     *)
(*   Increase, Set, Remove, Deallocate       find the share / write at it  *)
(* The shift inside append and the store of the shorter slice are one      *)
(* step, and so are the search for a share and the copy that Run makes.    *)
(***************************************************************************)
EXTENDS DestSplit, FiniteSets

CONSTANTS Callers,    \* goroutines that call the scheduler's methods
          Contracts,  \* the ids shares are kept under
          Default,    \* the id and destination of the default pool
          Api,        \* a destination forced through the HTTP API
          Shares,     \* the percentages callers ask for
          AfterIrregular \* bound: do methods begin once calls were irregular?

ASSUME DestAssumption == Default \notin Contracts /\ Api \notin Contracts
ASSUME SharesAssumption == Shares \subseteq Nat /\ AfterIrregular \in BOOLEAN

VARIABLES split,     \* destSplit.split
          restart,   \* tokens in the channel restartDestCycle (capacity 1)
          sched,     \* where Run stands
          cycle,     \* the destinations Run goes through
          pos,       \* the one it is at
          dest,      \* the destination of the miner's pool connection
          pc,        \* where each caller stands in its method
          op,        \* the caller's method, arguments and local variables
          crashed,   \* a slice operation was out of range: the process is gone
          irregular  \* history: two methods have been under way at once, or
                     \* Allocate was called for a contract with a share

vars == <<split, restart, sched, cycle, pos, dest, pc, op, crashed, irregular>>
schedVars == <<restart, sched, cycle, pos, dest>>

Dests == Contracts \cup {Default, Api}
Kinds == {"none", "allocate", "increase", "set", "remove", "deallocate"}

\* Arguments and locals of a method: `seen` is Allocate's len(old split) == 0,
\* `idx` the index found, `view` the slice that Deallocate ranges over and
\* `shared` whether its array still is the one of the split.
Op(kind, id, pct) == [kind |-> kind, id |-> id, pct |-> pct,
                      seen |-> FALSE, idx |-> 1, view |-> <<>>, shared |-> FALSE]
NoOp == Op("none", Default, 0)

ShareType == [id : Contracts, pct : Int]
OpType == [kind : Kinds, id : Contracts \cup {Default}, pct : Int,
           seen : BOOLEAN, idx : Nat, view : Seq(ShareType), shared : BOOLEAN]

TypeOK == /\ split \in Seq(ShareType)
          /\ restart \in 0..1
          /\ sched \in {"planning", "switching", "waiting", "ended"}
          /\ cycle \in Seq([id : Contracts \cup {Default}, pct : Int])
          /\ sched \in {"switching", "waiting"} => pos \in DOMAIN cycle
          /\ pos \in Nat
          /\ dest \in Dests
          /\ pc \in [Callers -> {"idle", "check", "insert", "signal", "find", "write"}]
          /\ op \in [Callers -> OpType]
          /\ crashed \in BOOLEAN
          /\ irregular \in BOOLEAN

Init == /\ split = <<>>
        /\ restart = 0
        /\ sched = "planning"
        /\ cycle = <<>>
        /\ pos = 1
        /\ dest = Default
        /\ pc = [t \in Callers |-> "idle"]
        /\ op = [t \in Callers |-> NoOp]
        /\ crashed = FALSE
        /\ irregular = FALSE
-----------------------------------------------------------------------------
(* The callers.                                                             *)

\* Inside a method and not yet through with the split.
Busy(t) == pc[t] \notin {"idle", "signal"}

\* Caller t looks the miner up in the collection and enters a method.
Enter(t, o, at) ==
    /\ ~crashed /\ sched # "ended"
    /\ ~irregular \/ AfterIrregular
    /\ pc[t] = "idle"
    /\ pc' = [pc EXCEPT ![t] = at]
    /\ op' = [op EXCEPT ![t] = o]
    /\ irregular' = \/ irregular
                    \/ \E u \in Callers \ {t} : Busy(u)
                    \/ o.kind = "allocate" /\ o.id \in Holders(split)
    /\ UNCHANGED <<split, schedVars, crashed>>

LeaveWith(t, ops) == /\ pc' = [pc EXCEPT ![t] = "idle"]
                     /\ op' = [ops EXCEPT ![t] = NoOp]
Leave(t) == LeaveWith(t, op)

\* The split was written in place to become `new`: an older slice of the same
\* array shows it, up to its length.
Written(new) ==
    [u \in Callers |->
        IF op[u].shared
        THEN [op[u] EXCEPT !.view = new \o SubSeq(@, Len(new) + 1, Len(@))]
        ELSE op[u]]

\* The split moved to a new array.
Moved == [u \in Callers |-> [op[u] EXCEPT !.shared = FALSE]]

\* Allocate, up to oldDestSplit := Copy().
CopySplit(t) ==
    \E id \in Contracts, p \in Shares :
        Enter(t, [Op("allocate", id, adjustPercentage(p)) EXCEPT !.seen = split = <<>>],
              "check")

\* Mutant: the refusal of a share that exceeds the room is dropped.
CheckNothing(t) ==
    /\ ~crashed /\ pc[t] = "check"
    /\ pc' = [pc EXCEPT ![t] = "insert"]
    /\ UNCHANGED <<split, schedVars, op, crashed, irregular>>

\* allocate: GetUnallocated takes and drops the read lock.
CheckRoom(t) ==
    /\ ~crashed /\ pc[t] = "check"
    /\ IF Refused(op[t].pct, GetUnallocated(split))
       THEN Leave(t)
       ELSE pc' = [pc EXCEPT ![t] = "insert"] /\ UNCHANGED op
    /\ UNCHANGED <<split, schedVars, crashed, irregular>>

\* Mutant: the scheduler is not told of the first share.
InsertQuietly(t) ==
    /\ ~crashed /\ pc[t] = "insert"
    /\ split' = insert(split, op[t].id, op[t].pct)
    /\ LeaveWith(t, Moved)
    /\ UNCHANGED <<schedVars, crashed, irregular>>

\* allocate: the insertion under the write lock.
Insert(t) ==
    /\ ~crashed /\ pc[t] = "insert"
    /\ split' = insert(split, op[t].id, op[t].pct)
    /\ IF op[t].seen
       THEN pc' = [pc EXCEPT ![t] = "signal"] /\ op' = Moved
       ELSE LeaveWith(t, Moved)
    /\ UNCHANGED <<schedVars, crashed, irregular>>

\* restartDestCycle <- struct{}{}: blocks while the channel is full.
Signal(t) ==
    /\ ~crashed /\ pc[t] = "signal"
    /\ restart = 0
    /\ restart' = 1
    /\ Leave(t)
    /\ UNCHANGED <<split, sched, cycle, pos, dest, crashed, irregular>>

\* The four methods that look for a share and then write at its index.  The
\* service never adds more than the room it saw, and sets lower percentages.
BeginIncrease(t) ==
    \E id \in Holders(split), p \in Shares :
        /\ p <= GetUnallocated(split)
        /\ Enter(t, Op("increase", id, p), "find")

BeginSet(t) ==
    \E i \in DOMAIN split, p \in Shares \ {0} :
        /\ p < split[i].pct
        /\ Enter(t, Op("set", split[i].id, p), "find")

BeginRemove(t) == \E id \in Contracts : Enter(t, Op("remove", id, 0), "find")

BeginDeallocate(t) ==
    \E id \in Contracts :
        Enter(t, [Op("deallocate", id, 0) EXCEPT !.view = split, !.shared = TRUE], "find")

Ranged(t) == IF op[t].kind = "deallocate" THEN op[t].view ELSE split
Matches(t) == {i \in DOMAIN Ranged(t) : i >= op[t].idx /\ Ranged(t)[i].id = op[t].id}

\* The range loop comes to the next share of op.id ...
Find(t) ==
    /\ ~crashed /\ pc[t] = "find"
    /\ \E i \in Matches(t) :
          /\ \A j \in Matches(t) : i <= j
          /\ op' = [op EXCEPT ![t].idx = i,
                             ![t].pct = IF op[t].kind = "increase"
                                        THEN split[i].pct + op[t].pct ELSE @]
    /\ pc' = [pc EXCEPT ![t] = "write"]
    /\ UNCHANGED <<split, schedVars, crashed, irregular>>

\* ... or to its end.
FindNone(t) ==
    /\ ~crashed /\ pc[t] = "find"
    /\ Matches(t) = {}
    /\ Leave(t)
    /\ UNCHANGED <<split, schedVars, crashed, irregular>>

\* The write, at the index that was found, on the split as it is now.
Store(t) ==
    /\ ~crashed /\ pc[t] = "write"
    /\ op[t].idx \in DOMAIN split
    /\ op[t].kind \in {"increase", "set"}
    /\ split' = [split EXCEPT ![op[t].idx] = Share(op[t].id, op[t].pct)]
    /\ LeaveWith(t, Written(split'))
    /\ UNCHANGED <<schedVars, crashed, irregular>>

\* Mutant: the share before the one found is cut off too.
CutTwo(t) ==
    /\ ~crashed /\ pc[t] = "write"
    /\ op[t].idx \in DOMAIN split
    /\ op[t].kind = "remove"
    /\ split' = SubSeq(split, op[t].idx + 1, Len(split))
    /\ LeaveWith(t, Written(split'))
    /\ UNCHANGED <<schedVars, crashed, irregular>>

Cut(t) ==
    /\ ~crashed /\ pc[t] = "write"
    /\ op[t].idx \in DOMAIN split
    /\ op[t].kind = "remove"
    /\ split' = RemoveAt(split, op[t].idx)
    /\ LeaveWith(t, Written(split'))
    /\ UNCHANGED <<schedVars, crashed, irregular>>

\* Deallocate goes on through the slice it ranges over.
CutAndGoOn(t) ==
    /\ ~crashed /\ pc[t] = "write"
    /\ op[t].idx \in DOMAIN split
    /\ op[t].kind = "deallocate"
    /\ split' = RemoveAt(split, op[t].idx)
    /\ op' = [Written(split') EXCEPT ![t].idx = @ + 1]
    /\ pc' = [pc EXCEPT ![t] = "find"]
    /\ UNCHANGED <<schedVars, crashed, irregular>>

\* The index is past the end by now: the Go runtime panics.
Panic(t) ==
    /\ ~crashed /\ pc[t] = "write"
    /\ op[t].idx \notin DOMAIN split
    /\ crashed' = TRUE
    /\ UNCHANGED <<split, schedVars, pc, op, irregular>>

Finish(t) == CheckRoom(t) \/ Insert(t) \/ Find(t) \/ FindNone(t)
             \/ Store(t) \/ Cut(t) \/ CutAndGoOn(t)

Begin(t) == CopySplit(t) \/ BeginIncrease(t) \/ BeginSet(t) \/ BeginRemove(t)
            \/ BeginDeallocate(t)

\* ChangeDest through the API, whatever Run is doing.
ForceDest == /\ ~crashed /\ sched # "ended"
             /\ dest' = Api
             /\ UNCHANGED <<split, restart, sched, cycle, pos, pc, op, crashed, irregular>>
-----------------------------------------------------------------------------
(* Run.                                                                     *)

callerVars == <<split, pc, op, crashed, irregular>>

\* Mutant: the cycle is the split alone, without the default destination.
getDestBare == split

getDest == AllocateRemaining(split, Default)

Plan == /\ ~crashed /\ sched = "planning"
        /\ cycle' = getDest
        /\ pos' = 1
        /\ sched' = "switching"
        /\ UNCHANGED <<restart, dest, callerVars>>

\* Mutant: the destinations are planned once, before the outer loop.
EndCycleStale(next) == /\ sched' = IF next = "planning" THEN "switching" ELSE next
                       /\ pos' = 1
                       /\ UNCHANGED cycle

\* Run leaves the loop over `destinations` for `next`.
EndCycle(next) == sched' = next /\ cycle' = <<>> /\ pos' = 1

\* The destination is right already, or ChangeDest succeeds.
Switch == /\ ~crashed /\ sched = "switching"
          /\ dest' = cycle[pos].id
          /\ sched' = "waiting"
          /\ UNCHANGED <<restart, cycle, pos, callerVars>>

\* ChangeDest fails: Run returns its error.
SwitchFails == /\ ~crashed /\ sched = "switching"
               /\ dest # cycle[pos].id
               /\ EndCycle("ended")
               /\ UNCHANGED <<restart, dest, callerVars>>

\* Mutant: the last destination of the cycle is left out.
TimeUpEarly == /\ ~crashed /\ sched = "waiting"
               /\ IF pos + 1 < Len(cycle)
                  THEN pos' = pos + 1 /\ sched' = "switching" /\ UNCHANGED cycle
                  ELSE EndCycle("planning")
               /\ UNCHANGED <<restart, dest, callerVars>>

\* The share's part of the cycle is over.
TimeUp == /\ ~crashed /\ sched = "waiting"
          /\ IF pos < Len(cycle)
             THEN pos' = pos + 1 /\ sched' = "switching" /\ UNCHANGED cycle
             ELSE EndCycle("planning")
          /\ UNCHANGED <<restart, dest, callerVars>>

\* Mutant: the token is seen but not taken.
RestartPeeked == /\ ~crashed /\ sched = "waiting"
                 /\ restart = 1
                 /\ EndCycle("planning")
                 /\ UNCHANGED <<restart, dest, callerVars>>

\* A token in restartDestCycle ends the cycle at once.
Restart == /\ ~crashed /\ sched = "waiting"
           /\ restart = 1
           /\ restart' = 0
           /\ EndCycle("planning")
           /\ UNCHANGED <<dest, callerVars>>

\* The miner or its pool connection failed, or the context is done.  When Run
\* returns, HandleConnection deletes the miner from the collection, so no
\* further method is entered; those under way go on.
MinerGone == /\ ~crashed /\ sched = "waiting"
             /\ EndCycle("ended")
             /\ UNCHANGED <<restart, dest, callerVars>>

Run == Plan \/ Switch \/ SwitchFails \/ TimeUp \/ Restart \/ MinerGone

Next == \/ \E t \in Callers : Begin(t) \/ Finish(t) \/ Signal(t) \/ Panic(t)
        \/ ForceDest
        \/ Run

\* Goroutines that can run do run.  The timer fires; `select` picks at random
\* among the cases that are ready, so a waiting token is not passed over for
\* ever; blocked senders of a channel are served in turn.
Fairness == /\ WF_vars(Plan) /\ WF_vars(Switch) /\ WF_vars(TimeUp)
            /\ SF_vars(Restart)
            /\ \A t \in Callers : WF_vars(Finish(t)) /\ SF_vars(Signal(t))

Spec == Init /\ [][Next]_vars
FairSpec == Spec /\ Fairness
-----------------------------------------------------------------------------
\* As long as the calls are regular, the shares of a miner add up to at most
\* the whole miner, no contract has two of them, and no slice operation is out
\* of range (dest_split.go:20, :65, :76).
SerialSplitSound ==
    ~irregular => GetAllocated(split) <= Whole /\ NoDuplicates(split) /\ ~crashed

\* What a method has learnt about the split, and the others have left true as
\* long as the calls are regular.
Learnt(t) ==
    /\ pc[t] \in {"check", "insert"} =>
          op[t].seen = (split = <<>>) /\ op[t].id \notin Holders(split)
    /\ pc[t] = "insert" => op[t].pct <= GetUnallocated(split)
    /\ pc[t] = "find" /\ op[t].kind = "increase" => op[t].pct <= GetUnallocated(split)
    /\ pc[t] = "find" /\ op[t].kind = "set" =>
          \E i \in DOMAIN split : split[i].id = op[t].id /\ op[t].pct < split[i].pct
    /\ pc[t] \in {"find", "write"} /\ op[t].kind = "deallocate" =>
          \/ op[t].view = split /\ op[t].shared
          \/ pc[t] = "find" /\ Matches(t) = {}
    /\ pc[t] = "write" =>
          /\ op[t].idx \in DOMAIN split /\ split[op[t].idx].id = op[t].id
          /\ op[t].kind = "increase" =>
                op[t].pct - split[op[t].idx].pct <= GetUnallocated(split)
          /\ op[t].kind = "set" => op[t].pct < split[op[t].idx].pct

\* Which method stands where, and with which percentage.
WellFormed(t) ==
    /\ pc[t] \in {"check", "insert"} => op[t].kind = "allocate" /\ op[t].pct > 0
    /\ pc[t] \in {"check", "insert", "find", "write"} => op[t].id \in Contracts
    /\ pc[t] \in {"find", "write"} =>
          op[t].kind \in {"increase", "set", "remove", "deallocate"}
    /\ pc[t] = "find" /\ op[t].kind = "increase" => op[t].pct >= 0
    /\ pc[t] = "find" /\ op[t].kind = "set" => op[t].pct > 0
    /\ pc[t] = "write" /\ op[t].kind \in {"increase", "set"} => op[t].pct > 0

\* Percentages stay positive, and a lone method acts on what it has learnt.
MethodsInv ==
    /\ AllPositive(split)
    /\ \A t \in Callers : WellFormed(t)
    /\ ~irregular => /\ \A t, u \in Callers : Busy(t) /\ Busy(u) => t = u
                     /\ \A t \in Callers : Learnt(t)

SharesOf(id, s) ==
    LET kept[i \in 0..Len(s)] ==
            IF i = 0 THEN <<>>
            ELSE IF s[i].id = id THEN Append(kept[i - 1], s[i]) ELSE kept[i - 1]
    IN kept[Len(s)]

\* As long as the calls are regular, a method called for one contract leaves
\* the shares of every other contract as they were.
SerialIsolation ==
    [][irregular' \/ \A id \in Contracts :
           \/ SharesOf(id, split') = SharesOf(id, split)
           \/ \E t \in Callers : Busy(t) /\ op[t].id = id]_vars

\* The call of t as its caller knows it: waiting to take effect (an increase that has
\* found its share holds the sum), done (Deallocate still ranges over what it has cut), or
\* none.
CallOf(t) ==
    IF ~Busy(t) THEN [st |-> "none"]
    ELSE IF pc[t] = "find" /\ op[t].kind = "deallocate" /\ op[t].idx > 1 THEN [st |-> "done"]
    ELSE [st |-> "waiting", kind |-> op[t].kind, id |-> op[t].id,
          pct |-> IF pc[t] = "write" /\ op[t].kind = "increase"
                  THEN op[t].pct - split[op[t].idx].pct ELSE op[t].pct]
Calls == [t \in Callers |-> IF irregular THEN [st |-> "none"] ELSE CallOf(t)]

Atomic == INSTANCE AtomicSplit WITH call <- Calls, regular <- ~irregular

\* As long as the calls are regular, each is one operation on the split as it is at one
\* moment of the call, although it searches, computes and writes in steps of its own
\* (dest_split.go:33-45, :60-80, :102-124).
ImplementsAtomicSplit == Atomic!SplitSpec

\* Every cycle divides the whole miner: the positive parts never fall short of
\* it, and while the calls were regular they are exactly the whole
\* (getDest, :148-152).
CycleCoversMiner ==
    sched \in {"switching", "waiting"} =>
        /\ GetAllocated(cycle) = Whole
        /\ ~irregular => AllPositive(cycle)

OnlyDefault == cycle = <<Share(Default, Whole)>>

\* A miner that points only to the default pool does not sit out its cycle
\* when a contract gets a share of it: a token is in the channel or its sender
\* is on the way (:108-111).
RestartNotLost ==
    /\ ~irregular /\ sched \in {"switching", "waiting"}
    /\ OnlyDefault /\ split # <<>>
    => restart = 1 \/ \E t \in Callers : pc[t] = "signal"

Over == sched = "ended" \/ crashed

\* A share is served: the miner is pointed to its destination, unless the share
\* is taken back or Run ends.
ShareIsServed(id) ==
    id \in Holders(split) ~> dest = id \/ id \notin Holders(split) \/ Over

\* A miner does not stay with a contract that has no share of it any more.
DeallocatedIsLeft(id) ==
    dest = id /\ id \notin Holders(split) ~> dest # id \/ id \in Holders(split) \/ Over

\* A caller of Allocate gets its answer, unless Run ends first: then nobody
\* empties the channel and it may stay blocked (:109).
AllocateReturns(t) == pc[t] = "signal" ~> pc[t] = "idle" \/ Over

\* The comment on the field: the total of the shares never exceeds the miner.
TotalWithinWhole == GetAllocated(split) <= Whole
=============================================================================
