----------------------------- MODULE Fulfilment ------------------------------
(***************************************************************************)
(* contractmanager/contract_model.go: how contracts are fulfilled.  Each   *)
(* contract has a listener, which takes the contract's events one by one,  *)
(* and a goroutine per purchase (a loop), which allocates miners, keeps    *)
(* adjusting the allocation and closes the contract when its term is over. *)
(* Listener and loops share the fields data, state and minerIDs of the     *)
(* contract without a lock, and all contracts share the miners.  A loop is *)
(* cut at every access to these: a snapshot of the miners, each call on a  *)
(* single miner, each access to a field of the contract.  (MinerScheduler  *)
(* cuts the calls on a miner further.)                                     *)
(*                                                                         *)
(* External: the contract on the blockchain, the clock, and the miners'    *)
(* coming and going.                                                       *)
(***************************************************************************)
EXTENDS AllocPlan

CONSTANTS Contracts,
          Buyers,     \* contracts this node is the buyer of
          Target,     \* GetHashrateGHS of each contract
          MaxTerms,   \* bound: purchases of one contract
          Outsiders,  \* bound: contracts that others may close
          Late,       \* bound: miners that may be vetted later
          Leaving,    \* bound: miners that may disconnect
          AfterDamage \* bound: are allocations adjusted once a split was damaged?

ASSUME ContractsAssumption == /\ IsFiniteSet(Contracts) /\ Buyers \subseteq Contracts
                              /\ Target \in [Contracts -> Nat \ {0}]
ASSUME BoundsAssumption == /\ MaxTerms \in Nat \ {0}
                           /\ Outsiders \subseteq Contracts
                           /\ Late \subseteq Miners /\ Leaving \subseteq Miners
                           /\ AfterDamage \in BOOLEAN

\* Loop <<c, 0>> is the one started with the listener, <<c, i>> the one of the
\* i-th purchase event.
Loops == Contracts \X (0..MaxTerms)

VARIABLES
    split,     \* the destination split of each miner's scheduler
    status,    \* of each miner: not yet vetted, vetted, disconnected
    chain,     \* blockchain: the term the contract is running, 0 if available
    sold,      \* blockchain: how often it was purchased
    elapsed,   \* clock: the terms of the contract that are over
    events,    \* the channel of contract events
    data,      \* c.data: the term in the contract data loaded last, 0 if available
    state,     \* c.state
    minerIDs,  \* c.minerIDs; their order, and an id named twice, do not matter
    listener,  \* where the listener stands
    stopping,  \* the miners its Stop has not yet gone over
    pc, loc,   \* where each loop stands; its local variables
    crashed,   \* a slice operation was out of range: the process is gone
    \* history:
    stale,     \* a share was raised by a snapshot another goroutine had outdated
    doubled,   \* some miner has had two shares of one contract
    forgotten, \* a decrease has dropped serving miners from minerIDs
    overtaken  \* a loop was alive when another started or the listener stopped it

chainVars == <<chain, sold, elapsed>>
contractVars == <<data, state, minerIDs>>
listenerVars == <<listener, stopping>>
historyVars == <<stale, doubled, forgotten, overtaken>>
vars == <<split, status, chainVars, events, contractVars, listenerVars, pc, loc,
          crashed, historyVars>>

\* todo: the miners to go over, with what the snapshot said of them (for a new
\* allocation, `have` is the fraction asked); rest: the GHS to add or remove;
\* ids: the ids the method will return; fresh: since the snapshot by which shares
\* are adjusted, no other goroutine changed a split.
Local(todo, rest, ids) == [todo |-> todo, rest |-> rest, ids |-> ids, fresh |-> TRUE]
Empty == [m \in {} |-> 0]
NoLocal == Local(Empty, 0, {})

PCs == {"off", "boot", "start", "plan", "allocate", "save", "check", "increase",
        "decrease", "stop", "dealloc", "closeout", "done"}

TypeOK ==
    /\ split \in [Miners -> Seq([id : Contracts, pct : Int])]
    /\ status \in [Miners -> {"unvetted", "vetted", "gone"}]
    /\ sold \in [Contracts -> 0..MaxTerms]
    /\ \A c \in Contracts : /\ chain[c] \in {0, sold[c]}
                            /\ elapsed[c] \in 0..sold[c]
                            /\ data[c] \in 0..sold[c]
    /\ events \in [Contracts -> Seq({"purchased", "updated", "closed"})]
    /\ state \in [Contracts -> {"available", "purchased", "running"}]
    /\ minerIDs \in [Contracts -> SUBSET Miners]
    /\ listener \in [Contracts -> {"start", "listen", "dealloc"}]
    /\ stopping \in [Contracts -> SUBSET Miners]
    /\ pc \in [Loops -> PCs]
    /\ \A l \in Loops : /\ DOMAIN loc[l].todo \subseteq Miners /\ loc[l].ids \subseteq Miners
                        /\ loc[l].rest \in Int /\ loc[l].fresh \in BOOLEAN
                        /\ pc[l] \in {"allocate", "increase", "decrease", "dealloc"}
                              => DOMAIN loc[l].todo # {}
    /\ crashed \in BOOLEAN /\ stale \in BOOLEAN /\ doubled \in BOOLEAN
    /\ forgotten \in [Contracts -> BOOLEAN] /\ overtaken \in [Contracts -> BOOLEAN]

\* Contract objects exist for contracts that Ignore keeps: a seller's that are
\* available, a buyer's that are running.
Init ==
    /\ split = [m \in Miners |-> <<>>]
    /\ status \in {f \in [Miners -> {"unvetted", "vetted"}] :
                     \A m \in Miners \ Late : f[m] = "vetted"}
    /\ chain = [c \in Contracts |-> IF c \in Buyers THEN 1 ELSE 0]
    /\ sold = chain /\ data = chain
    /\ elapsed = [c \in Contracts |-> 0]
    /\ events = [c \in Contracts |-> <<>>]
    /\ state = [c \in Contracts |-> "available"]
    /\ minerIDs = [c \in Contracts |-> {}]
    /\ listener = [c \in Contracts |-> "start"]
    /\ stopping = [c \in Contracts |-> {}]
    /\ pc = [l \in Loops |-> "off"]
    /\ loc = [l \in Loops |-> NoLocal]
    /\ crashed = FALSE /\ stale = FALSE /\ doubled = FALSE
    /\ forgotten = [c \in Contracts |-> FALSE] /\ overtaken = forgotten

LoopsOf(c) == {c} \X (0..MaxTerms)
Alive(l) == pc[l] \notin {"off", "done"}
-----------------------------------------------------------------------------
(* External.                                                                *)

\* What is emitted before the listener subscribes is lost, and so is what falls
\* into a gap: before the log subscription is established, between its failure
\* and its renewal, or after the retries are exhausted.
Emit(c, es) == \/ listener[c] # "start" /\ events' = [events EXCEPT ![c] = @ \o es]
               \/ UNCHANGED events

extUnchanged == UNCHANGED <<contractVars, listenerVars, pc, loc, crashed, historyVars>>

Purchase(c) == /\ chain[c] = 0 /\ sold[c] < MaxTerms
               /\ sold' = [sold EXCEPT ![c] = @ + 1]
               /\ chain' = [chain EXCEPT ![c] = sold'[c]]
               /\ Emit(c, <<"purchased">>)
               /\ UNCHANGED <<split, status, elapsed>> /\ extUnchanged

\* The buyer or the validator closes the contract early.
Cancel(c) == /\ c \in Outsiders
             /\ chain[c] # 0
             /\ chain' = [chain EXCEPT ![c] = 0]
             /\ Emit(c, <<"closed">>)
             /\ UNCHANGED <<split, status, sold, elapsed>> /\ extUnchanged

\* The seller changes the terms, which closes the contract too.
UpdatePurchaseInformation(c) ==
    /\ c \in Outsiders
    /\ chain[c] # 0 /\ chain[c] <= elapsed[c]
    /\ chain' = [chain EXCEPT ![c] = 0]
    /\ Emit(c, <<"closed", "updated">>)
    /\ UNCHANGED <<split, status, sold, elapsed>> /\ extUnchanged

TermEnds(c) == /\ elapsed[c] < sold[c]
               /\ elapsed' = [elapsed EXCEPT ![c] = @ + 1]
               /\ UNCHANGED <<split, status, chain, sold, events>> /\ extUnchanged

MinerVetted(m) == /\ status[m] = "unvetted"
                  /\ status' = [status EXCEPT ![m] = "vetted"]
                  /\ UNCHANGED <<split, chainVars, events>> /\ extUnchanged

\* The miner is deleted from the collection; its scheduler is not used again.
MinerGone(m) == /\ m \in Leaving /\ status[m] # "gone"
                /\ status' = [status EXCEPT ![m] = "gone"]
                /\ split' = [split EXCEPT ![m] = <<>>]
                /\ UNCHANGED <<chainVars, events>> /\ extUnchanged

External == \/ \E c \in Contracts : \/ Purchase(c) \/ Cancel(c) \/ TermEnds(c)
                                    \/ UpdatePurchaseInformation(c)
            \/ \E m \in Miners : MinerVetted(m) \/ MinerGone(m)
-----------------------------------------------------------------------------
(* Calls on one miner.                                                      *)

\* Mutant: a share is inserted whether there is room or not.
AllocatedAlways(s, c, p) == insert(s, c, adjustPercentage(p))

\* OnDemandMinerScheduler.Allocate: refused if by now there is no room.
Allocated(s, c, p) ==
    IF Refused(adjustPercentage(p), GetUnallocated(s)) THEN s
    ELSE insert(s, c, adjustPercentage(p))

\* Deallocate cuts the split while it ranges over its old header, which shows
\* the same array: at two adjacent shares of c the second index is out of range.
Deallocated(s, c) ==
    LET Step(r, i) ==
            IF r.panic \/ r.view[i].id # c THEN r
            ELSE IF i \notin DOMAIN r.now THEN [r EXCEPT !.panic = TRUE]
            ELSE LET cut == RemoveAt(r.now, i)
                 IN [now |-> cut, view |-> cut \o SubSeq(r.view, Len(cut) + 1, Len(r.view)),
                     panic |-> FALSE]
    IN FoldLeft(Step, [now |-> s, view |-> s, panic |-> FALSE], [i \in DOMAIN s |-> i])

\* A miner that left the collection is skipped.
There(m) == status[m] # "gone"

\* Goroutine `me` (a loop, or <<c>> for the listener of c) leaves miner m with split
\* s, and its own variables as `mine`.
Write(m, s, me, mine) ==
    /\ split' = [split EXCEPT ![m] = s]
    /\ loc' = [l \in Loops |-> IF l = me THEN mine
                               ELSE [loc[l] EXCEPT !.fresh =
                                       @ /\ (s = split[m] \/ pc[l] \notin {"increase", "decrease"})]]
    /\ doubled' = (doubled \/ ~NoDuplicates(s))

\* What a snapshot says of the vetted miners.
Vetted == {m \in Miners : status[m] = "vetted"}
GetMinerSnapshot == CreateMinerSnapshot(split, Vetted, Rate)
SnapOf(c) == LET snap == GetMinerSnapshot
             IN [m \in DOMAIN Contract(snap, c) |->
                    [have |-> Contract(snap, c)[m].Fraction,
                     room |-> Unallocated(Miner(snap, m))]]
-----------------------------------------------------------------------------
(* A loop: l[1] is its contract.                                            *)

At(l, at) == ~crashed /\ pc[l] = at
Goto(l, at) == pc' = [pc EXCEPT ![l] = at]
GotoWith(l, at, mine) == Goto(l, at) /\ loc' = [loc EXCEPT ![l] = mine]

loopUnchanged == UNCHANGED <<status, chainVars, events, listenerVars, crashed>>
localUnchanged == UNCHANGED <<split, contractVars, historyVars>> /\ loopUnchanged

Expired(c) == data[c] <= elapsed[c]

\* fulfillBuyerContract: the wait before a contract that runs already is fulfilled.
Boot(l) == /\ At(l, "boot")
           /\ Goto(l, "start")
           /\ UNCHANGED loc /\ localUnchanged

\* FulfillContract up to StartHashrateAllocation.
Fulfill(l) ==
    /\ At(l, "start")
    /\ IF Expired(l[1])
       THEN state' = [state EXCEPT ![l[1]] = "purchased"] /\ Goto(l, "stop")
       ELSE state' = [state EXCEPT ![l[1]] = "running"] /\ Goto(l, "plan")
    /\ loc' = [loc EXCEPT ![l] = Local(Empty, Target[l[1]], {})]
    /\ UNCHANGED <<split, data, minerIDs, historyVars>> /\ loopUnchanged

\* Mutant: nobody thinks of a combination without miners.
PastNever(todo, at, next) == at

\* Where a loop over the miners in todo goes on: at `at`, or behind it.
Past(todo, at, next) == IF DOMAIN todo = {} THEN next ELSE at

Without(todo, m) == Restrict(todo, DOMAIN todo \ {m})

\* The variables of loop l when it has gone over miner m.
Over(l, m, rest, ids) == [todo |-> Without(loc[l].todo, m), rest |-> rest, ids |-> ids,
                          fresh |-> loc[l].fresh]

\* GlobalSchedulerService.Allocate up to its loop; too little hashrate ends the
\* fulfilment.
Plan(l) ==
    /\ At(l, "plan")
    /\ LET free == Unreserved(GetMinerSnapshot)
       IN IF TotalAllocated(free) < loc[l].rest
          THEN GotoWith(l, "stop", NoLocal)
          ELSE \E comb \in Combinations(free, loc[l].rest) :
                  GotoWith(l, Past(comb, "allocate", "save"),
                           Local([m \in DOMAIN comb |-> [have |-> comb[m].Fraction, room |-> 0]],
                                 0, loc[l].ids \cup IDs(comb)))
    /\ localUnchanged

\* One miner of the combination, in the random order of a map.
AllocateMiner(l) ==
    /\ At(l, "allocate")
    /\ \E m \in DOMAIN loc[l].todo :
          LET mine == Over(l, m, loc[l].rest, loc[l].ids)
          IN /\ Write(m, IF There(m) THEN Allocated(split[m], l[1], loc[l].todo[m].have)
                         ELSE split[m], l, mine)
             /\ Goto(l, Past(mine.todo, "allocate", "save"))
    /\ UNCHANGED <<contractVars, stale, forgotten, overtaken>> /\ loopUnchanged

\* Mutant: c.minerIDs is set at the start only.
SaveOnce(l) ==
    /\ At(l, "save")
    /\ minerIDs' = [minerIDs EXCEPT ![l[1]] = IF @ = {} THEN loc[l].ids ELSE @]
    /\ GotoWith(l, "check", NoLocal)
    /\ UNCHANGED <<split, data, state, historyVars>> /\ loopUnchanged

\* c.minerIDs is set to what the service returned.
Save(l) ==
    /\ At(l, "save")
    /\ minerIDs' = [minerIDs EXCEPT ![l[1]] = loc[l].ids]
    /\ GotoWith(l, "check", NoLocal)
    /\ UNCHANGED <<split, data, state, historyVars>> /\ loopUnchanged

WithinThreshold(target, gap) == 10 * absInt(gap) < target

\* Every 30 seconds: is the term over, is the snapshot off the target?
Check(l) ==
    LET c == l[1]
        snap == SnapOf(c)
        gap == Target[c] - TotalAllocated(Contract(GetMinerSnapshot, c))
    IN /\ At(l, "check")
       /\ Expired(c) \/ ~(stale \/ doubled) \/ AfterDamage
       /\ IF Expired(c) THEN GotoWith(l, "stop", NoLocal)
          ELSE IF WithinThreshold(Target[c], gap)
               THEN GotoWith(l, "save", Local(Empty, 0, minerIDs[c]))
          ELSE IF gap > 0
               THEN GotoWith(l, Past(snap, "increase", "plan"), Local(snap, gap, {}))
          ELSE GotoWith(l, "decrease", Local(snap, -gap, {}))
       /\ localUnchanged

\* incAllocation, one miner that serves the contract; what is left to add after
\* the last one is allocated like a new contract.
Increase(l) ==
    /\ At(l, "increase")
    /\ \E m \in DOMAIN loc[l].todo :
          LET snap == loc[l].todo[m]
              add == IF There(m) THEN ToAdd(m, snap.have, snap.room, loc[l].rest) ELSE 0
              mine == Over(l, m, loc[l].rest - GHS(m, add),
                           IF There(m) THEN loc[l].ids \cup {m} ELSE loc[l].ids)
          IN /\ Write(m, IF add = 0 THEN split[m] ELSE IncreaseAllocation(split[m], l[1], add),
                      l, mine)
             /\ stale' = (stale \/ (add # 0 /\ ~loc[l].fresh))
             /\ Goto(l, Past(mine.todo, "increase", IF mine.rest = 0 THEN "save" ELSE "plan"))
    /\ UNCHANGED <<contractVars, forgotten, overtaken>> /\ loopUnchanged

\* SortByAllocatedGHS: the miners that may come first, those that give the contract least.
SortedFirst(todo) == {m \in DOMAIN todo :
                        \A n \in DOMAIN todo : GHS(m, todo[m].have) <= GHS(n, todo[n].have)}

\* decrAllocation, the miner that gives the contract least; the loop is left
\* when nothing remains to be removed.  By an outdated snapshot the share may be
\* raised.
Decrease(l) ==
    /\ At(l, "decrease")
    /\ \E m \in SortedFirst(loc[l].todo) :
          LET have == loc[l].todo[m].have
              rest == loc[l].rest
              left == IF There(m) THEN Decreased(split[m], l[1], m, have, rest) ELSE split[m]
              mine == Over(l, m, IF There(m) THEN rest - Removed(m, have, rest) ELSE rest,
                           IF There(m) /\ ~TakesAll(m, have, rest)
                           THEN loc[l].ids \cup {m} ELSE loc[l].ids)
          IN /\ Write(m, left, l, mine)
             /\ stale' = (stale \/ (~loc[l].fresh /\ GetAllocated(left) > GetAllocated(split[m])))
             /\ Goto(l, IF mine.rest <= 0 THEN "save" ELSE Past(mine.todo, "decrease", "save"))
             /\ forgotten' = [forgotten EXCEPT ![l[1]] =
                                 @ \/ (mine.rest <= 0 /\ DOMAIN mine.todo # {})]
    /\ UNCHANGED <<contractVars, overtaken>> /\ loopUnchanged

\* Mutant: the state is set back before the test, as the closed event will do.
StopLate(l) ==
    /\ At(l, "stop")
    /\ state' = [state EXCEPT ![l[1]] = "available"]
    /\ Goto(l, "closeout")
    /\ UNCHANGED <<split, data, minerIDs, loc, historyVars>> /\ loopUnchanged

\* Close begins with Stop, and that with its test of the state.
StopByLoop(l) ==
    /\ At(l, "stop")
    /\ IF state[l[1]] = "available"
       THEN Goto(l, "closeout") /\ UNCHANGED <<state, loc>>
       ELSE LET ids == [m \in minerIDs[l[1]] |-> [have |-> 0, room |-> 0]]
            IN /\ state' = [state EXCEPT ![l[1]] = "available"]
               /\ GotoWith(l, Past(ids, "dealloc", "closeout"), Local(ids, 0, {}))
    /\ UNCHANGED <<split, data, minerIDs, historyVars>> /\ loopUnchanged

\* DeallocateContract, one miner.
DeallocateByLoop(l) ==
    /\ At(l, "dealloc")
    /\ \E m \in DOMAIN loc[l].todo :
          LET r == Deallocated(split[m], l[1])
              mine == Local(Without(loc[l].todo, m), 0, {})
          IN /\ Write(m, IF There(m) THEN r.now ELSE split[m], l, mine)
             /\ crashed' = (There(m) /\ r.panic)
             /\ Goto(l, Past(mine.todo, "dealloc", "closeout"))
    /\ UNCHANGED <<status, chainVars, events, contractVars, listenerVars, stale,
                   forgotten, overtaken>>

\* What setContractCloseOut accepts: a buyer cancels what it bought, a seller
\* closes what is over (or has been closed before).
Closable(c) == IF c \in Buyers THEN chain[c] # 0 ELSE chain[c] <= elapsed[c]

\* The closeout goes through, or fails; it is not tried again.
Closeout(l) ==
    /\ At(l, "closeout")
    /\ \/ /\ Closable(l[1])
          /\ chain' = [chain EXCEPT ![l[1]] = 0]
          /\ Emit(l[1], <<"closed">>)
       \/ UNCHANGED <<chain, events>>
    /\ Goto(l, "done")
    /\ UNCHANGED <<split, status, sold, elapsed, contractVars, listenerVars, loc,
                   crashed, historyVars>>

LoopStep(l) == \/ Boot(l) \/ Fulfill(l) \/ Plan(l) \/ AllocateMiner(l) \/ Save(l)
               \/ Check(l) \/ Increase(l) \/ Decrease(l)
               \/ StopByLoop(l) \/ DeallocateByLoop(l) \/ Closeout(l)
-----------------------------------------------------------------------------
(* The listener.                                                            *)

ListenerAt(c, at) == ~crashed /\ listener[c] = at
listenerUnchanged == UNCHANGED <<split, status, chainVars, crashed, stale, doubled, forgotten>>

\* SubscribeToContractEvents leaves the work to a goroutine and never fails.  The
\* first loop reads c.data before the first event is taken.
Subscribe(c) == /\ ListenerAt(c, "start")
                /\ listener' = [listener EXCEPT ![c] = "listen"]
                /\ Goto(<<c, 0>>, IF data[c] = 0 THEN "done" ELSE "boot")
                /\ UNCHANGED <<events, contractVars, stopping, loc, overtaken>>
                /\ listenerUnchanged

Take(c, e) == /\ ListenerAt(c, "listen")
              /\ events[c] # <<>> /\ Head(events[c]) = e
              /\ events' = [events EXCEPT ![c] = Tail(@)]

Load(c) == data' = [data EXCEPT ![c] = chain[c]]

\* The contract is loaded and a loop started.
Purchased(c) ==
    /\ Take(c, "purchased")
    /\ Load(c)
    /\ \E i \in 1..MaxTerms :
          /\ pc[<<c, i>>] = "off" /\ \A j \in 1..(i - 1) : pc[<<c, j>>] # "off"
          /\ Goto(<<c, i>>, "start")
    /\ overtaken' = [overtaken EXCEPT ![c] = @ \/ \E l \in LoopsOf(c) : Alive(l)]
    /\ UNCHANGED <<state, minerIDs, listenerVars, loc>>
    /\ listenerUnchanged

Updated(c) == /\ Take(c, "updated")
              /\ Load(c)
              /\ UNCHANGED <<state, minerIDs, listenerVars, pc, loc, overtaken>>
              /\ listenerUnchanged

\* The contract cannot be read: the event is dropped.
LoadFails(c) == /\ Take(c, "purchased") \/ Take(c, "updated")
                /\ UNCHANGED <<contractVars, listenerVars, pc, loc, overtaken>>
                /\ listenerUnchanged

\* Closed: Stop runs in the listener; loops are not told.
Closed(c) ==
    /\ Take(c, "closed")
    /\ IF state[c] = "available"
       THEN UNCHANGED <<state, listenerVars, overtaken>>
       ELSE /\ state' = [state EXCEPT ![c] = "available"]
            /\ stopping' = [stopping EXCEPT ![c] = minerIDs[c]]
            /\ listener' = [listener EXCEPT ![c] = IF minerIDs[c] = {} THEN @ ELSE "dealloc"]
            /\ overtaken' = [overtaken EXCEPT ![c] = @ \/ \E l \in LoopsOf(c) : Alive(l)]
    /\ UNCHANGED <<data, minerIDs, pc, loc>>
    /\ listenerUnchanged

DeallocateByListener(c) ==
    /\ ListenerAt(c, "dealloc")
    /\ \E m \in stopping[c] :
          LET r == Deallocated(split[m], c)
          IN /\ Write(m, IF There(m) THEN r.now ELSE split[m], <<c>>, NoLocal)
             /\ crashed' = (There(m) /\ r.panic)
             /\ stopping' = [stopping EXCEPT ![c] = @ \ {m}]
             /\ listener' = [listener EXCEPT ![c] = IF stopping[c] = {m} THEN "listen" ELSE @]
    /\ UNCHANGED <<status, chainVars, events, contractVars, pc, stale, forgotten, overtaken>>

Listen(c) == \/ Subscribe(c) \/ Purchased(c) \/ Updated(c)
             \/ LoadFails(c) \/ Closed(c) \/ DeallocateByListener(c)

Next == \/ External
        \/ \E l \in Loops : LoopStep(l)
        \/ \E c \in Contracts : Listen(c)

\* Goroutines that can run do run, and time passes.
Fairness == /\ \A l \in Loops : WF_vars(LoopStep(l))
            /\ \A c \in Contracts : WF_vars(Listen(c)) /\ WF_vars(TermEnds(c))

Spec == Init /\ [][Next]_vars
FairSpec == Spec /\ Fairness
-----------------------------------------------------------------------------
\* No miner is divided beyond its whole, and no goroutine panics, unless a raise
\* was computed from an outdated snapshot or a miner was given a second share
\* for one contract (global_scheduler_service.go:260, :269).
SharesSound ==
    /\ stale \/ doubled \/ \A m \in Miners : GetAllocated(split[m]) <= Whole
    /\ crashed => doubled

Sole(c) == Cardinality({l \in LoopsOf(c) : Alive(l)}) = 1
Quiet(c) == (\A l \in LoopsOf(c) : ~Alive(l)) /\ listener[c] # "dealloc"
Held(c) == {m \in Miners : c \in Holders(split[m])}

\* minerIDs names every miner that serves the contract whenever the contract's
\* loop is between two adjustments, unless a decrease dropped some or another
\* goroutine interfered (contract_model.go:41, :231, :256).
TracksMiners ==
    \A c \in Contracts :
        (\E l \in LoopsOf(c) : pc[l] \in {"check", "stop"}) /\ Sole(c)
        /\ ~forgotten[c] /\ ~overtaken[c] /\ ~doubled
        => Held(c) \subseteq minerIDs[c]

\* A contract nobody works on any more holds no share, with the same exceptions
\* (contract_model.go:287-299).
StopReleases ==
    \A c \in Contracts :
        Quiet(c) /\ ~forgotten[c] /\ ~overtaken[c] /\ ~doubled => Held(c) = {}

\* Whatever was purchased, the loops come to their end (contract_model.go:216-240).
LoopsEnd == []<>(crashed \/ \A l \in Loops : ~Alive(l))

\* The comment on Stop: "Stops fulfilling the contract by miners".
StopReleasesMiners ==
    \A c \in Contracts : Quiet(c) /\ state[c] = "available" => Held(c) = {}

\* The comment on minerIDs: "miners involved in fulfilling this contract".
InvolvedMiners ==
    \A c \in Contracts :
        (\E l \in LoopsOf(c) : pc[l] = "check") /\ Sole(c) /\ ~overtaken[c]
        => Held(c) \subseteq minerIDs[c]
=============================================================================
