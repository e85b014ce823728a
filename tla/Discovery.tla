------------------------------ MODULE Discovery ------------------------------
(***************************************************************************)
(* contractmanager/contract_manager_v2.go with the event subscriptions of  *)
(* blockchain/ethereum_gateway.go and the listeners of contract_model.go:  *)
(* how a node comes to know of its contracts.  A contract is read in two   *)
(* calls, the destination before the rest.  Every object made for a        *)
(* contract has a subscription of its own and keeps it for ever.  What a   *)
(* fulfilment does to the miners is the subject of Fulfilment; here it     *)
(* runs until the term in the object's data is over, its allocation fails  *)
(* or its context ends, and then closes the contract.                      *)
(***************************************************************************)
EXTENDS App, Sequences, Functions

CONSTANTS Contracts,
          MaxObjects, \* bound: objects a node makes for one contract
          MaxRentals, \* bound: purchases of one contract
          MaxDrops,   \* bound: failures of subscriptions and of reads
          MaxLogs     \* bound: logs that wait in a subscription when the next is emitted

ASSUME DiscoveryAssumption == /\ {MaxRentals, MaxObjects} \subseteq Nat \ {0}
                             /\ {MaxDrops, MaxLogs} \subseteq Nat
                             /\ 0 \notin Contracts \* mgr.cur is 0 between two contracts

Objects == 1..MaxObjects
FactorySub == <<"factory", 0>>
Subs == {FactorySub} \cup (Contracts \X Objects)

VARIABLES isBuyer, \* configuration
          chain,   \* the contracts on the blockchain
          faults,  \* failures so far
          subs,    \* the subscription goroutines, with the logs not yet handed on
          mgr,     \* ContractManager
          objs,    \* the contract objects, in the order they were made
          \* history:
          lost,    \* contracts the manager was not told of, or has passed over
          cancels  \* rentals the node ended before their term, and why

discoveryVars == <<appVars, isBuyer, chain, faults, subs, mgr, objs, lost, cancels>>

\* term: the rental that runs, 0 if available; by me: this node's wallet rents it
\* (or offers it, if the node sells); dest: 0 is the empty destination.
NotMade == [made |-> FALSE, mine |-> FALSE, term |-> 0, sold |-> 0, ended |-> 0,
            byMe |-> FALSE, dest |-> 0]
Data(t, m, d) == [term |-> t, byMe |-> m, dest |-> d]
Object(data, ctx) == [pc |-> "listen", data |-> data, half |-> 0, start |-> FALSE,
                      work |-> IF data.term = 0 THEN 0 ELSE 1, ctx |-> ctx]
Off == [st |-> "off", logs |-> <<>>]

\* The logs the node tells apart; a new destination's is left out, as nothing is done
\* about it.
FactoryEvents == {"created", "purchased"}
ContractEvents == {"purchased", "closed", "updated"}

DiscoveryTypeOK ==
    /\ isBuyer \in BOOLEAN /\ faults \in 0..MaxDrops
    /\ \A c \in Contracts : /\ chain[c].term \in {0, chain[c].sold}
                            /\ chain[c].sold \in 0..MaxRentals
                            /\ chain[c].ended \in 0..chain[c].sold
                            /\ chain[c].dest \in 0..1
                            /\ Len(objs[c]) \in {0} \cup Objects
                            /\ \A i \in DOMAIN objs[c] :
                                 objs[c][i].pc \in {"listen", "dest", "vars", "ended"}
    /\ \A s \in Subs : /\ subs[s].st \in {"off", "init", "live"}
                       /\ \A k \in DOMAIN subs[s].logs :
                             IF s = FactorySub THEN subs[s].logs[k][1] \in FactoryEvents
                             ELSE subs[s].logs[k] \in ContractEvents
    /\ mgr.pc \in {"list", "filter", "next", "dest", "vars", "select", "done"}
    /\ mgr.todo \subseteq Contracts

DiscoveryInit ==
    /\ AppInit
    /\ isBuyer \in BOOLEAN
    /\ chain = [c \in Contracts |-> NotMade]
    /\ faults = 0
    /\ subs = [s \in Subs |-> Off]
    /\ mgr = [pc |-> "list", todo |-> {}, kept |-> {}, cur |-> 0, half |-> 0]
    /\ objs = [c \in Contracts |-> <<>>]
    /\ lost = {}
    /\ cancels = {}

\* Bound: a run has a second rental or a failure, not both.
Fault == /\ faults < MaxDrops /\ \A c \in Contracts : chain[c].sold <= 1
         /\ faults' = faults + 1
-----------------------------------------------------------------------------
(* The blockchain.                                                          *)

\* A transaction's logs: what the factory emits, and the contract.
Published(fs, c, es) ==
    [s \in Subs |->
       IF subs[s].st # "live" THEN subs[s]
       ELSE IF s = FactorySub THEN [subs[s] EXCEPT !.logs = @ \o fs]
       ELSE IF s[1] = c THEN [subs[s] EXCEPT !.logs = @ \o es] ELSE subs[s]]

\* Is the manager told of an event of the factory, or will it still read the contract?
StillToRead(c) == \/ mgr.pc = "list" \/ c \in mgr.todo \/ c = mgr.cur
                  \/ mgr.pc = "filter" /\ c \in mgr.kept
Told(c) == IF subs[FactorySub].st = "live" \/ StillToRead(c) THEN lost ELSE lost \cup {c}

\* Bounds: a transaction waits for the readers to catch up, and none comes while the
\* process shuts down.
Transacts == Live /\ ~cancelled /\ \A s \in Subs : Len(subs[s].logs) <= MaxLogs

\* Bound: nor one that could make too many objects.
Pending(c) == Cardinality({k \in DOMAIN subs[FactorySub].logs : subs[FactorySub].logs[k][2] = c})
Room(c) == Len(objs[c]) + Pending(c) + (IF StillToRead(c) THEN 1 ELSE 0) < MaxObjects

chainUnchanged == UNCHANGED <<appVars, isBuyer, faults, mgr, objs, cancels>>

Create(c, mine) ==
    /\ Transacts /\ ~chain[c].made
    /\ mine => ~isBuyer
    /\ chain' = [chain EXCEPT ![c].made = TRUE, ![c].mine = mine]
    /\ subs' = Published(<<<<"created", c>>>>, c, <<>>)
    /\ lost' = Told(c) /\ chainUnchanged

Purchase(c, me) ==
    /\ Transacts /\ Room(c) /\ chain[c].made /\ chain[c].term = 0 /\ chain[c].sold < MaxRentals
    /\ me => isBuyer
    /\ faults = 0 \/ chain[c].sold = 0
    /\ LET n == chain[c].sold + 1
       IN chain' = [chain EXCEPT ![c] = [@ EXCEPT !.sold = n, !.term = n, !.byMe = me, !.dest = 1]]
    /\ subs' = Published(<<<<"purchased", c>>>>, c, <<"purchased">>)
    /\ lost' = Told(c) /\ chainUnchanged

TermEnds(c) ==
    /\ Live /\ ~cancelled /\ chain[c].term > chain[c].ended
    /\ chain' = [chain EXCEPT ![c].ended = chain[c].term]
    /\ UNCHANGED <<subs, lost>> /\ chainUnchanged

Closed(c) == [chain EXCEPT ![c] = [@ EXCEPT !.term = 0, !.byMe = FALSE, !.dest = 0]]

\* By someone else after the term, or by the buyer at any time; new terms may follow.
CloseElsewhere(c, update) ==
    /\ Transacts /\ chain[c].term # 0
    /\ update => chain[c].term <= chain[c].ended
    /\ chain' = Closed(c)
    /\ subs' = Published(<<>>, c, IF update THEN <<"closed", "updated">> ELSE <<"closed">>)
    /\ UNCHANGED lost /\ chainUnchanged
-----------------------------------------------------------------------------
(* subscribeFilterLogsReconnect, one goroutine for each subscription.       *)

subUnchanged == UNCHANGED <<appVars, isBuyer, chain, mgr, objs, cancels>>

\* The context of a subscription: none for the objects made at start.
Bound(s) == IF s = FactorySub THEN TRUE ELSE objs[s[1]][s[2]].ctx

SubConnects(s) == /\ Live /\ subs[s].st = "init" /\ ~(Bound(s) /\ cancelled)
                  /\ subs' = [subs EXCEPT ![s].st = "live"]
                  /\ UNCHANGED <<faults, lost>> /\ subUnchanged

\* The connection breaks; a log in the goroutine's hand is still handed on.
SubBreaks(s) == /\ Live /\ subs[s].st = "live" /\ Fault
                /\ \E n \in {0, 1} :
                      /\ n <= Len(subs[s].logs)
                      /\ subs' = [subs EXCEPT ![s] = [st |-> "init", logs |-> SubSeq(@.logs, 1, n)]]
                      /\ lost' = IF s # FactorySub THEN lost
                                 ELSE lost \cup {subs[s].logs[k][2] : k \in n+1..Len(subs[s].logs)}
                /\ subUnchanged

\* Mutant: logs is closed when the connection breaks, too.
ZeroLogOnError(s) == /\ Live /\ subs[s].st = "live"
                     /\ app' = "panicked"
                     /\ UNCHANGED <<built, part, cancelled, signals, handlers, isBuyer,
                                    chain, faults, subs, mgr, objs, lost, cancels>>

\* When the context is over the goroutine closes logs, and the reader, unless it sees
\* the context first, receives the zero log: e.Topics[0] is out of range.
ZeroLog(s) == /\ Live /\ subs[s].st = "live" /\ Bound(s) /\ cancelled
              /\ app' = "panicked"
              /\ UNCHANGED <<built, part, cancelled, signals, handlers, isBuyer, chain,
                             faults, subs, mgr, objs, lost, cancels>>
-----------------------------------------------------------------------------
(* ContractManager.                                                         *)

MgrAt(at) == Live /\ part["contracts"] = "up" /\ mgr.pc = at
mgrUnchanged == UNCHANGED <<appVars, isBuyer, chain, cancels>>

MgrReturns == /\ mgr' = [mgr EXCEPT !.pc = "done"]
              /\ Returns("contracts") /\ componentUnchanged
              /\ UNCHANGED <<isBuyer, chain, subs, objs, lost, cancels>>

\* ReadContracts: the list, then a call for each to see whose it is.
ReadContracts ==
    /\ MgrAt("list")
    /\ mgr' = [mgr EXCEPT !.pc = "filter", !.todo = {c \in Contracts : chain[c].made}]
    /\ UNCHANGED <<faults, subs, objs, lost>> /\ mgrUnchanged

Filter ==
    /\ MgrAt("filter")
    /\ IF mgr.todo = {} THEN mgr' = [mgr EXCEPT !.pc = "next", !.todo = mgr.kept]
       ELSE \E c \in mgr.todo :
              LET own == IF isBuyer THEN chain[c].byMe ELSE chain[c].mine
              IN mgr' = [mgr EXCEPT !.todo = @ \ {c}, !.kept = IF own THEN @ \cup {c} ELSE @]
    /\ UNCHANGED <<faults, subs, objs, lost>> /\ mgrUnchanged

ReadContractsFails == (MgrAt("list") \/ MgrAt("filter")) /\ Fault /\ MgrReturns

\* runExistingContracts, then the subscription to the factory.
NextExisting ==
    /\ MgrAt("next")
    /\ IF mgr.todo = {}
       THEN /\ mgr' = [mgr EXCEPT !.pc = "select"]
            /\ subs' = [subs EXCEPT ![FactorySub].st = "init"]
       ELSE /\ \E c \in mgr.todo : mgr' = [mgr EXCEPT !.pc = "dest", !.cur = c, !.todo = @ \ {c}]
            /\ UNCHANGED subs
    /\ UNCHANGED <<faults, objs, lost>> /\ mgrUnchanged

Existing == subs[FactorySub].st = "off"
Back == [mgr EXCEPT !.pc = IF Existing THEN "next" ELSE "select", !.cur = 0, !.half = 0]

\* Mutant: only creations are handled.
TakeCreated ==
    /\ MgrAt("select") /\ subs[FactorySub].logs # <<>>
    /\ mgr' = IF Head(subs[FactorySub].logs)[1] = "purchased" THEN mgr
              ELSE [mgr EXCEPT !.pc = "dest", !.cur = Head(subs[FactorySub].logs)[2]]
    /\ subs' = [subs EXCEPT ![FactorySub].logs = Tail(@)]
    /\ UNCHANGED <<faults, objs, lost>> /\ mgrUnchanged

TakeFactoryEvent ==
    /\ MgrAt("select") /\ subs[FactorySub].logs # <<>>
    /\ mgr' = [mgr EXCEPT !.pc = "dest", !.cur = Head(subs[FactorySub].logs)[2]]
    /\ subs' = [subs EXCEPT ![FactorySub].logs = Tail(@)]
    /\ UNCHANGED <<faults, objs, lost>> /\ mgrUnchanged

\* handleContract: ReadContract in its two calls, then Ignore.
ReadDest == /\ MgrAt("dest")
            /\ mgr' = [mgr EXCEPT !.pc = "vars", !.half = chain[mgr.cur].dest]
            /\ UNCHANGED <<faults, subs, objs, lost>> /\ mgrUnchanged

ReadContractFails == /\ MgrAt("dest") \/ MgrAt("vars")
                     /\ Fault
                     /\ mgr' = Back
                     /\ lost' = lost \cup {mgr.cur}
                     /\ UNCHANGED <<subs, objs>> /\ mgrUnchanged

\* Mutant: a seller's contract is served whether it is rented or not.
IgnoreOthers(c) == IF isBuyer THEN chain[c].term = 0 \/ ~chain[c].byMe ELSE ~chain[c].mine

Ignore(c) == IF isBuyer THEN chain[c].term = 0 \/ ~chain[c].byMe
             ELSE chain[c].term # 0 \/ ~chain[c].mine

\* The default destination of a buyer's node; NewContractManager leaves it empty.
defaultDest == 0

\* A new object for the address, whether there is one or not.  It subscribes to the
\* contract; a buyer's contract that runs is fulfilled (fulfillBuyerContract).
ReadVars ==
    /\ MgrAt("vars")
    /\ LET c == mgr.cur
           new == Object(Data(chain[c].term, chain[c].byMe,
                              IF isBuyer THEN defaultDest ELSE mgr.half), ~Existing)
       IN IF Ignore(c)
          THEN /\ lost' = IF isBuyer \/ ~chain[c].mine THEN lost ELSE lost \cup {c}
               /\ UNCHANGED <<objs, subs>>
          ELSE /\ objs' = [objs EXCEPT ![c] = Append(@, new)]
               /\ subs' = [subs EXCEPT ![<<c, Len(objs[c]) + 1>>].st = "init"]
               /\ UNCHANGED lost
    /\ mgr' = Back
    /\ UNCHANGED faults /\ mgrUnchanged

MgrStops == MgrAt("select") /\ cancelled /\ MgrReturns /\ UNCHANGED faults

MgrPanics == MgrAt("select") /\ ZeroLog(FactorySub)
-----------------------------------------------------------------------------
(* A contract object.                                                       *)

ObjAt(c, i, at) == Live /\ i \in DOMAIN objs[c] /\ objs[c][i].pc = at
objUnchanged == UNCHANGED <<appVars, isBuyer, mgr, lost>>
Set(c, i, o) == objs' = [objs EXCEPT ![c][i] = o]

\* A purchase or new terms make the object load the contract; there is nothing in the
\* case of a new destination; Stop, on closed, leaves the loops alone.
TakeContractEvent(c, i) ==
    /\ ObjAt(c, i, "listen") /\ subs[<<c, i>>].logs # <<>>
    /\ LET e == Head(subs[<<c, i>>].logs)
       IN Set(c, i, IF e \in {"purchased", "updated"}
                    THEN [objs[c][i] EXCEPT !.pc = "dest", !.start = (e = "purchased")]
                    ELSE objs[c][i])
    /\ subs' = [subs EXCEPT ![<<c, i>>].logs = Tail(@)]
    /\ UNCHANGED <<chain, faults, cancels>> /\ objUnchanged

\* LoadBlockchainContract: nobody asks again whether the contract is to be ignored.
LoadDest(c, i) == /\ ObjAt(c, i, "dest")
                  /\ Set(c, i, [objs[c][i] EXCEPT !.pc = "vars", !.half = chain[c].dest])
                  /\ UNCHANGED <<chain, faults, subs, cancels>> /\ objUnchanged

LoadVars(c, i) ==
    LET o == objs[c][i]
    IN /\ ObjAt(c, i, "vars")
       /\ Set(c, i, [o EXCEPT !.pc = "listen", !.half = 0, !.start = FALSE,
                              !.data = Data(chain[c].term, chain[c].byMe, o.half),
                              !.work = IF o.start THEN @ + 1 ELSE @])
       /\ UNCHANGED <<chain, faults, subs, cancels>> /\ objUnchanged

LoadFails(c, i) == /\ ObjAt(c, i, "dest") \/ ObjAt(c, i, "vars")
                   /\ Fault
                   /\ Set(c, i, [objs[c][i] EXCEPT !.pc = "listen", !.half = 0, !.start = FALSE])
                   /\ UNCHANGED <<chain, subs, cancels>> /\ objUnchanged

ListenerStops(c, i) == /\ ObjAt(c, i, "listen") /\ objs[c][i].ctx /\ cancelled
                       /\ Set(c, i, [objs[c][i] EXCEPT !.pc = "ended"])
                       /\ UNCHANGED <<chain, faults, subs, cancels>> /\ objUnchanged

ListenerPanics(c, i) == ObjAt(c, i, "listen") /\ ZeroLog(<<c, i>>)

Expired(c, data) == data.term <= chain[c].ended

\* What the contract accepts: type 0 from its buyer, type 2 after the term.
Closable(c) == IF isBuyer THEN chain[c].byMe
               ELSE chain[c].term <= chain[c].ended

\* FulfillContract ends, for one of three reasons, and Close follows each time; the
\* closeout goes through or not, and is tried once.
FulfilmentEnds(c, i, why) ==
    /\ Live /\ i \in DOMAIN objs[c] /\ objs[c][i].work > 0
    /\ CASE why = "expired"   -> Expired(c, objs[c][i].data)
         [] why = "allocation" -> TRUE
         [] why = "context"    -> objs[c][i].ctx /\ cancelled
    /\ Set(c, i, [objs[c][i] EXCEPT !.work = @ - 1])
    /\ \/ /\ Closable(c)
          /\ chain' = Closed(c)
          /\ subs' = Published(<<>>, c, <<"closed">>)
          /\ cancels' = IF chain[c].term > chain[c].ended
                        THEN cancels \cup {<<c, why, objs[c][i].data.term = chain[c].term>>}
                        ELSE cancels
          /\ UNCHANGED faults
       \/ /\ Fault \/ (~Closable(c) /\ UNCHANGED faults)
          /\ UNCHANGED <<chain, subs, cancels>>
    /\ objUnchanged
-----------------------------------------------------------------------------
\* What the manager does of itself: its reads come back.
ManagerSteps == \/ ReadContracts \/ Filter \/ NextExisting \/ TakeFactoryEvent
                \/ ReadDest \/ ReadVars

DiscoveryNext ==
    \/ AppNext /\ UNCHANGED <<isBuyer, chain, faults, subs, mgr, objs, lost, cancels>>
    \/ ManagerSteps \/ ReadContractsFails \/ ReadContractFails \/ MgrStops \/ MgrPanics
    \/ \E s \in Subs : SubConnects(s) \/ SubBreaks(s)
    \/ \E c \in Contracts :
          \/ \E mine \in BOOLEAN : Create(c, mine)
          \/ \E me \in BOOLEAN : Purchase(c, me)
          \/ TermEnds(c) \/ \E update \in BOOLEAN : CloseElsewhere(c, update)
          \/ \E i \in Objects :
                \/ TakeContractEvent(c, i) \/ LoadDest(c, i) \/ LoadVars(c, i)
                \/ LoadFails(c, i) \/ ListenerStops(c, i) \/ ListenerPanics(c, i)
                \/ \E why \in {"expired", "allocation", "context"} : FulfilmentEnds(c, i, why)
-----------------------------------------------------------------------------
\* The contracts this node has to serve now.
Owed(c) == IF isBuyer THEN chain[c].byMe ELSE chain[c].mine /\ chain[c].term = 0

\* A contract the node has to serve gets an object, unless its event fell into a gap of
\* the subscription (between the reading of the list and the subscription, or while the
\* connection was broken), a read of it failed, or a seller's node first saw it while it
\* was rented (contract_manager_v2.go:46, contract_model.go:83); the process may end first.
Known == \A c \in Contracts :
            Owed(c) ~> (objs[c] # <<>> \/ ~Owed(c) \/ c \in lost \/ cancelled \/ ~Live)

Work(c) == FoldFunction(+, 0, [i \in DOMAIN objs[c] |-> objs[c][i].work])

\* A seller's node fulfils the first rental of a contract in one loop, and for the
\* destination the buyer named, though it reads destination and term in two calls.  A
\* buyer's node may have two: it makes an object at the contract's creation if it is late
\* enough to find it rented, and another at its purchase (contract_manager_v2.go:126).
OncePerRental ==
    \A c \in Contracts : chain[c].sold <= 1 =>
        /\ Work(c) <= (IF isBuyer THEN 2 ELSE 1)
        /\ ~isBuyer => \A i \in DOMAIN objs[c] : objs[c][i].data.term = 1 => objs[c][i].data.dest # 0

\* A node that has started panics only at shutdown (ethereum_gateway.go:132), and ends a
\* rental before its term only because its hashrate is gone, at shutdown, or with a loop
\* that was started for an earlier rental.
OnlyShutdownHarms ==
    /\ app = "panicked" /\ part["tcp"] # "off" => cancelled
    /\ \A x \in cancels : x[2] = "expired" => ~x[3] /\ chain[x[1]].sold > 1
=============================================================================
