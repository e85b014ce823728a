------------------------------- MODULE MCNode --------------------------------
(***************************************************************************)
(* The parts of the node beside contract fulfilment, miners and the        *)
(* closeout worker, checked in one run.  They share no state here: a       *)
(* behaviour exercises one of them, named by which, and the others stand   *)
(* still.  "process" is the process with a manager that finds no contract, *)
(* "discovery" the manager and its objects in a process that may be told   *)
(* to end, "search" the search for the miners of one allocation.           *)
(***************************************************************************)
EXTENDS Discovery, Marketplace, EventBus, Repository, SubsetSum

CONSTANTS buyer, titan, factory, rental

ASSUME NodeAssumption == titan \in Users \* the validator the contracts are created with

VARIABLE which

MCTerms == {[price |-> 4, length |-> 2], [price |-> 3, length |-> 3]}
MCGrants == {<<titan, factory>>, <<titan, buyer>>}

discovery == <<isBuyer, chain, faults, subs, mgr, objs, lost, cancels>>
node == <<discoveryVars, marketVars, busVars, repositoryVars, searchVars, which>>

Init == /\ DiscoveryInit /\ MarketInit /\ BusInit /\ RepositoryInit /\ SearchInit
        /\ which \in {"process", "discovery", "market", "bus", "repository", "search"}
        /\ (which # "discovery" => ~isBuyer)   \* read by the manager alone
        /\ (which # "search" => Len(arr) = 1 /\ arr[1] = 0 /\ sum = 0)

In(k) == which = k /\ UNCHANGED which
Others == UNCHANGED <<marketVars, busVars, repositoryVars, searchVars>>
Process == In("process") /\ UNCHANGED discovery /\ Others
Manages == which \in {"process", "discovery"} /\ UNCHANGED which /\ Others
Starts == Manages /\ UNCHANGED discovery
Discovers == In("discovery") /\ Others
Trades == In("market") /\ UNCHANGED <<discoveryVars, busVars, repositoryVars, searchVars>>
Notifies == In("bus") /\ UNCHANGED <<discoveryVars, marketVars, repositoryVars, searchVars>>
Saves == In("repository") /\ UNCHANGED <<discoveryVars, marketVars, busVars, searchVars>>
Searches == In("search") /\ UNCHANGED <<discoveryVars, marketVars, busVars, repositoryVars>>

AppStep ==
    \/ (Process /\ InitFails) \/ (Process /\ ListenFails) \/ (Process /\ Bind)
    \/ (Process /\ Accept) \/ (Process /\ HandlerReturns) \/ (Process /\ TCPStops)
    \/ (Process /\ ServeFails) \/ (Process /\ ServerStops) \/ (Process /\ Wait)
    \/ (Starts /\ InitApp)
    \/ (Starts /\ Signal) /\ (which = "discovery" => signals = 0)

ManagerStep ==
    \/ (Manages /\ ReadContracts) \/ (Manages /\ Filter) \/ (Manages /\ ReadContractsFails)
    \/ (Manages /\ NextExisting) \/ (Manages /\ TakeFactoryEvent) \/ (Manages /\ ReadDest)
    \/ (Manages /\ ReadVars) \/ (Manages /\ ReadContractFails)
    \/ (Manages /\ MgrStops) \/ (Manages /\ MgrPanics)
    \/ \E s \in Subs : (Manages /\ SubConnects(s)) \/ (Manages /\ SubBreaks(s))

DiscoveryStep(c) ==
    \/ \E mine \in BOOLEAN : (Discovers /\ Create(c, mine))
    \/ \E me \in BOOLEAN : (Discovers /\ Purchase(c, me))
    \/ (Discovers /\ TermEnds(c))
    \/ \E update \in BOOLEAN : (Discovers /\ CloseElsewhere(c, update))
    \/ \E i \in Objects :
          \/ (Discovers /\ TakeContractEvent(c, i))
          \/ (Discovers /\ LoadDest(c, i)) \/ (Discovers /\ LoadVars(c, i))
          \/ (Discovers /\ LoadFails(c, i))
          \/ (Discovers /\ ListenerStops(c, i)) \/ (Discovers /\ ListenerPanics(c, i))
          \/ \E why \in {"expired", "allocation", "context"} :
                (Discovers /\ FulfilmentEnds(c, i, why))

Pays == UNCHANGED <<now, titanCut, rentals, fee>> /\ Trades

TokenStep ==
    \/ \E u \in Users, to \in Addresses, n \in Amounts : (Pays /\ transfer(u, to, n))
    \/ \E u \in Users, n \in Amounts : (Pays /\ burn(u, n))
    \/ \E g \in Grants, n \in Amounts :
          \/ (Pays /\ approve(g[1], g[2], n)) \/ (Pays /\ burnFrom(g[2], g[1], n))
          \/ (Pays /\ increaseAllowance(g[1], g[2], n))
          \/ (Pays /\ decreaseAllowance(g[1], g[2], n))
          \/ \E to \in Addresses : (Pays /\ transferFrom(g[2], g[1], to, n))
    \/ \E u \in Users, on \in BOOLEAN : (Pays /\ setPaused(u, on))

MarketStep ==
    \/ (Trades /\ Tick)
    \/ \E on \in BOOLEAN : (Trades /\ setTitanCut(on))
    \/ \E c \in Clones, type \in AtTerm : (Trades /\ CloseOutAtTerm(c, type))
    \/ \E c \in Clones, u \in Users :
          \/ \E t \in Terms : (Trades /\ setCreateNewRentalContract(c, u, t, titan))
          \/ \E d \in Destinations : \/ (Trades /\ setPurchaseRentalContract(c, u, d))
                                     \/ (Trades /\ setUpdateMiningInformation(c, u, d))
          \/ (Trades /\ EarlyCloseOut(c, u)) \/ (Trades /\ MidTermWithdrawal(c, u))
          \/ \E t \in Terms, type \in AtTerm :
                setUpdatePurchaseInformation(c, u, t, type) /\ Trades

LibraryStep ==
    \/ \E p \in Publishers, n \in Names : (Notifies /\ Publish(p, n))
    \/ \E p \in Publishers, s \in Subscribers : (Notifies /\ Offer(p, s))
    \/ \E s \in Subscribers : \/ \E n \in Names : (Notifies /\ Subscribe(s, n))
                              \/ (Notifies /\ Receive(s)) \/ (Notifies /\ SubscriberEnds(s))
    \/ \E c \in Clients : \/ \E t \in Transactions : (Saves /\ CallRepository(c, t))
                          \/ (Saves /\ TakeTransaction(c))
    \/ (Saves /\ Put) \/ (Saves /\ GetAbsent) \/ (Saves /\ GetFound)
    \/ (Searches /\ Select) \/ (Searches /\ Selected)
    \/ (Searches /\ Improve) \/ (Searches /\ EndTrial)

Next == \/ AppStep \/ ManagerStep \/ TokenStep \/ MarketStep \/ LibraryStep
        \/ \E c \in Contracts : DiscoveryStep(c)

\* Goroutines run, calls of the Ethereum node return, a subscription that is tried again
\* is made at last, and a select that finds the context over again and again chooses it.
\* Nothing is assumed of fulfilments or users.
Fairness == /\ WF_node(Starts /\ InitApp) /\ WF_node(Process /\ Bind)
            /\ WF_node(Process /\ TCPStops) /\ WF_node(Process /\ ServerStops)
            /\ WF_node(Process /\ Wait)
            /\ WF_node(Manages /\ ManagerSteps) /\ WF_node(Manages /\ MgrStops)
            /\ WF_node(Manages /\ SubConnects(FactorySub))

Spec == Init /\ [][Next]_node /\ Fairness
-----------------------------------------------------------------------------
\* The types of every part's state.
TypeOK == /\ AppTypeOK /\ DiscoveryTypeOK /\ MarketTypeOK
          /\ BusTypeOK /\ RepositoryTypeOK /\ SearchTypeOK

\* Once its context is cancelled the process ends, whatever its connections do
\* (app.go:75; tcp_server.go:50; api/server.go:60; contract_manager_v2.go:80).
Exits == (which = "process" /\ cancelled) ~> ~Live

\* What the libraries promise, and what the search returns (see EventBus, Repository and
\* SubsetSum).
LibrariesSound == /\ BusDelivers /\ LastSaved
                  /\ ReachesTarget /\ ReturnsAnOutcome
=============================================================================
