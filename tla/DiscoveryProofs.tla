--------------------------- MODULE DiscoveryProofs ---------------------------
(***************************************************************************)
(* Why a node that discovers its contracts fulfils a rental once and harms *)
(* nothing but at shutdown: the invariant behind OncePerRental and         *)
(* OnlyShutdownHarms, kept by every step of the manager, of its objects,   *)
(* of the process and of the blockchain.  It counts: a contract that was   *)
(* sold n times has at most n + 1 of objects, logs the manager has still   *)
(* to take and readings it has still to make; and an object of a contract  *)
(* sold once has at most one of a loop, a loop it is about to start and a  *)
(* log of the purchase it has still to take.  NodeProofs concludes.        *)
(***************************************************************************)
EXTENDS Discovery, TLAPS, FiniteSetTheorems, SequenceTheorems
-----------------------------------------------------------------------------
(* The manager and its objects.                                             *)

\* How many of the factory's logs that wait are about a contract.
Places(s, c) == {k \in DOMAIN s : s[k][2] = c}
Logs == FactoryEvents \X Contracts

LEMMA PlacesFinite ==
  ASSUME NEW s \in Seq(Logs), NEW c
  PROVE  /\ IsFiniteSet(Places(s, c)) /\ Cardinality(Places(s, c)) \in Nat
         /\ Places(s, c) \subseteq 1..Len(s)
<1>1. Len(s) \in Nat /\ DOMAIN s = 1..Len(s)
  BY LenProperties
<1>2. IsFiniteSet(1..Len(s)) /\ Places(s, c) \subseteq 1..Len(s)
  BY <1>1, FS_Interval DEF Places
<1> QED
  BY <1>2, FS_Subset, FS_CardinalityType

LEMMA PlacesEmpty ==
  ASSUME NEW c
  PROVE  Cardinality(Places(<<>>, c)) = 0
<1>1. Places(<<>>, c) = {}
  BY DEF Places
<1> QED
  BY <1>1, FS_EmptySet

LEMMA PlacesAppend ==
  ASSUME NEW s \in Seq(Logs), NEW e \in Logs, NEW c
  PROVE  Cardinality(Places(s \o <<e>>, c))
            = Cardinality(Places(s, c)) + (IF e[2] = c THEN 1 ELSE 0)
<1> DEFINE n == Len(s) + 1
           t == s \o <<e>>
<1>1. /\ Len(s) \in Nat /\ DOMAIN s = 1..Len(s) /\ t = Append(s, e) /\ t \in Seq(Logs)
      /\ Len(t) = n /\ DOMAIN t = 1..n /\ t[n] = e /\ \A k \in 1..Len(s) : t[k] = s[k]
  BY LenProperties, AppendProperties, AppendIsConcat
<1> HIDE DEF t
<1>2. n \notin Places(s, c) /\ 1..n = 1..Len(s) \cup {n}
  BY <1>1 DEF Places
<1>3. Places(t, c) = IF e[2] = c THEN Places(s, c) \cup {n} ELSE Places(s, c)
  BY <1>1, <1>2 DEF Places
<1>4. IsFiniteSet(Places(s, c)) /\ Cardinality(Places(s, c)) \in Nat
  BY PlacesFinite
<1>5. Cardinality(Places(s, c) \cup {n}) = Cardinality(Places(s, c)) + 1
  BY <1>2, <1>4, FS_AddElement
<1> QED
  BY <1>3, <1>4, <1>5 DEF t

LEMMA PlacesTail ==
  ASSUME NEW s \in Seq(Logs), s # <<>>, NEW c
  PROVE  Cardinality(Places(Tail(s), c))
            = Cardinality(Places(s, c)) - (IF Head(s)[2] = c THEN 1 ELSE 0)
<1> DEFINE t == Tail(s)
           P == Places(s, c) \ {1}
           Q == Places(t, c)
           move == [k \in Q |-> k + 1]
<1>1. /\ Len(s) \in Nat \ {0} /\ DOMAIN s = 1..Len(s) /\ t \in Seq(Logs)
      /\ Len(t) = Len(s) - 1 /\ DOMAIN t = 1..Len(t) /\ Len(t) \in Nat
      /\ Head(s) = s[1] /\ \A k \in 1..Len(t) : t[k] = s[k + 1]
  BY LenProperties, HeadTailProperties, EmptySeq
<1> HIDE DEF t
<1>2. Q \subseteq 1..Len(t) /\ P \subseteq 2..Len(s)
  BY <1>1 DEF Places
<1>3. \A k \in Q : k + 1 \in P
  BY <1>1, <1>2 DEF Places
<1>4. \A k \in P : k - 1 \in Q
  BY <1>1, <1>2 DEF Places
<1>5. move \in Injection(Q, P)
  <2>1. \A k, l \in Q : k + 1 = l + 1 => k = l
    BY <1>1, <1>2
  <2> QED BY <1>3, <2>1 DEF Injection, IsInjective
<1>6. move \in Surjection(Q, P)
  <2>1. \A k \in P : move[k - 1] = k
    BY <1>1, <1>2, <1>4
  <2>2. \A k \in P : \E l \in Q : move[l] = k
    BY <1>4, <2>1
  <2> QED BY <1>3, <2>2 DEF Surjection
<1>7. Cardinality(P) = Cardinality(Q)
  <2>1. IsFiniteSet(Q) /\ ExistsBijection(Q, P)
    BY <1>1, <1>5, <1>6, PlacesFinite DEF ExistsBijection, Bijection
  <2> HIDE DEF P, Q
  <2> QED BY <2>1, FS_Bijection
<1>8. Cardinality(P) = IF 1 \in Places(s, c) THEN Cardinality(Places(s, c)) - 1
                       ELSE Cardinality(Places(s, c))
  BY PlacesFinite, FS_RemoveElement
<1>9. 1 \in Places(s, c) <=> Head(s)[2] = c
  BY <1>1 DEF Places
<1> QED
  BY <1>7, <1>8, <1>9, PlacesFinite DEF t

LEMMA PlacesPrefix ==
  ASSUME NEW s \in Seq(Logs), NEW n \in 0..Len(s), NEW c
  PROVE  /\ SubSeq(s, 1, n) \in Seq(Logs)
         /\ Cardinality(Places(SubSeq(s, 1, n), c)) <= Cardinality(Places(s, c))
<1> DEFINE t == SubSeq(s, 1, n)
<1>1. Len(s) \in Nat /\ DOMAIN s = 1..Len(s) /\ \A k \in 1..Len(s) : s[k] \in Logs
  BY LenProperties, ElementOfSeq
<1>2. t \in Seq(Logs) /\ Len(t) = n /\ \A k \in 1..n : t[k] = s[k]
  BY <1>1, SubSeqProperties
<1> HIDE DEF t
<1>3. DOMAIN t = 1..n
  BY <1>2, LenProperties
<1>4. Places(t, c) \subseteq Places(s, c)
  BY <1>1, <1>2, <1>3 DEF Places
<1> QED
  BY <1>2, <1>4, PlacesFinite, FS_Subset DEF t

\* What the manager and the objects keep.
OnChain == [made : BOOLEAN, mine : BOOLEAN, term : 0..MaxRentals, sold : 0..MaxRentals,
            ended : 0..MaxRentals, byMe : BOOLEAN, dest : 0..1]
Datas == [term : 0..MaxRentals, byMe : BOOLEAN, dest : 0..1]
ObjectStates == [pc : {"listen", "dest", "vars", "ended"}, data : Datas, half : 0..1,
                 start : BOOLEAN, work : Nat, ctx : BOOLEAN]
Managers == [pc : {"list", "filter", "next", "dest", "vars", "select", "done"},
             todo : SUBSET Contracts, kept : SUBSET Contracts,
             cur : Contracts \cup {0}, half : 0..1]
AnyLog == ContractEvents \cup Logs
Subscriptions == [st : {"off", "init", "live"}, logs : Seq(AnyLog)]
LogsOf(c, i) == subs[<<c, i>>].logs

Shaped ==
    /\ isBuyer \in BOOLEAN /\ faults \in 0..MaxDrops
    /\ chain \in [Contracts -> OnChain] /\ objs \in [Contracts -> Seq(ObjectStates)]
    /\ mgr \in Managers /\ subs \in [Subs -> Subscriptions]
    /\ subs[FactorySub].logs \in Seq(Logs)
    /\ \A c \in Contracts, i \in Objects : LogsOf(c, i) \in Seq(ContractEvents)

LEMMA SubsShape ==
  /\ FactorySub \in Subs
  /\ \A c \in Contracts, i \in Objects : <<c, i>> \in Subs /\ <<c, i>> # FactorySub
  /\ \A s \in Subs : s # FactorySub => \E c \in Contracts, i \in Objects : s = <<c, i>>
<1>1. 0 \notin Objects
  BY DiscoveryAssumption DEF Objects
<1> QED
  BY <1>1 DEF Subs, FactorySub

\* What a transaction's logs do to the subscriptions.
LEMMA PublishedLogs ==
  ASSUME Shaped, NEW c \in Contracts, NEW fs \in Seq(Logs), NEW es \in Seq(ContractEvents),
         subs' = Published(fs, c, es)
  PROVE  /\ subs' \in [Subs -> Subscriptions]
         /\ \A s \in Subs : subs'[s].st = subs[s].st
         /\ subs'[FactorySub].logs \in Seq(Logs)
         /\ subs'[FactorySub].logs = IF subs[FactorySub].st = "live"
                                     THEN subs[FactorySub].logs \o fs ELSE subs[FactorySub].logs
         /\ \A d \in Contracts, i \in Objects :
               /\ subs'[<<d, i>>].logs \in Seq(ContractEvents)
               /\ subs'[<<d, i>>].logs = IF subs[<<d, i>>].st = "live" /\ d = c
                                         THEN LogsOf(d, i) \o es ELSE LogsOf(d, i)
               /\ subs[<<d, i>>] = Off => subs'[<<d, i>>] = Off
<1>1. /\ subs \in [Subs -> Subscriptions] /\ subs[FactorySub].logs \in Seq(Logs)
      /\ \A d \in Contracts, i \in Objects : LogsOf(d, i) \in Seq(ContractEvents)
  BY DEF Shaped
<1>2. \A s \in Subs : subs'[s] = IF subs[s].st # "live" THEN subs[s]
         ELSE IF s = FactorySub THEN [subs[s] EXCEPT !.logs = @ \o fs]
         ELSE IF s[1] = c THEN [subs[s] EXCEPT !.logs = @ \o es] ELSE subs[s]
  BY DEF Published
<1>3. subs[FactorySub].logs \o fs \in Seq(Logs) /\ FactorySub \in Subs
  BY <1>1, ConcatProperties, SubsShape
<1>4. ASSUME NEW s \in Subs
      PROVE  /\ subs[s].st \in {"off", "init", "live"} /\ subs[s].logs \in Seq(AnyLog)
             /\ subs[s] = [st |-> subs[s].st, logs |-> subs[s].logs]
  BY <1>1 DEF Subscriptions
<1>5. Seq(Logs) \subseteq Seq(AnyLog) /\ Seq(ContractEvents) \subseteq Seq(AnyLog)
  BY SeqMonotonic DEF AnyLog
<1>6. /\ subs'[FactorySub].logs = IF subs[FactorySub].st = "live"
                                   THEN subs[FactorySub].logs \o fs ELSE subs[FactorySub].logs
      /\ subs'[FactorySub].st = subs[FactorySub].st
      /\ subs'[FactorySub].logs \in Seq(Logs) /\ subs'[FactorySub] \in Subscriptions
  BY <1>1, <1>2, <1>3, <1>4, <1>5 DEF Subscriptions
<1>7. ASSUME NEW d \in Contracts, NEW i \in Objects
      PROVE  /\ subs'[<<d, i>>].logs \in Seq(ContractEvents)
             /\ subs'[<<d, i>>].logs = IF subs[<<d, i>>].st = "live" /\ d = c
                                       THEN LogsOf(d, i) \o es ELSE LogsOf(d, i)
             /\ subs'[<<d, i>>].st = subs[<<d, i>>].st /\ subs'[<<d, i>>] \in Subscriptions
             /\ subs[<<d, i>>] = Off => subs'[<<d, i>>] = Off
  <2>1. LogsOf(d, i) \o es \in Seq(ContractEvents) /\ LogsOf(d, i) \in Seq(ContractEvents)
    BY <1>1, ConcatProperties
  <2>2. <<d, i>> \in Subs /\ <<d, i>> # FactorySub
    BY SubsShape
  <2> DEFINE u == subs[<<d, i>>]
             v == subs'[<<d, i>>]
             more == u.logs \o es
  <2>3. v = IF u.st # "live" \/ d # c THEN u ELSE [u EXCEPT !.logs = more]
    BY <1>2, <2>2
  <2>4. /\ u \in Subscriptions /\ u.logs \in Seq(ContractEvents) /\ more \in Seq(ContractEvents)
        /\ u.logs = LogsOf(d, i) /\ more = LogsOf(d, i) \o es
    BY <1>1, <2>1, <2>2 DEF LogsOf
  <2> HIDE DEF u, v, more
  <2>5. u = Off => v = Off
    BY <2>3 DEF Off
  <2>6. more \in Seq(AnyLog) /\ u \in [st : {"off", "init", "live"}, logs : Seq(AnyLog)]
    BY <1>5, <2>4 DEF Subscriptions
  <2>7. v.st = u.st /\ v.logs = (IF u.st = "live" /\ d = c THEN more ELSE u.logs)
    BY <2>3, <2>6
  <2>8. v \in Subscriptions
    BY <2>3, <2>6 DEF Subscriptions
  <2> QED BY <2>4, <2>5, <2>7, <2>8 DEF u, v
<1>8. \A s \in Subs : subs'[s].st = subs[s].st /\ subs'[s] \in Subscriptions
  BY <1>6, <1>7, SubsShape
<1>9. subs' \in [Subs -> Subscriptions]
  <2>1. subs' = [s \in Subs |-> subs'[s]]
    BY DEF Published
  <2> QED BY <1>8, <2>1
<1> QED
  BY <1>6, <1>7, <1>8, <1>9

\* The manager reads the list first, and has done with it when it subscribes.
Reads ==
    /\ IF mgr.pc \in {"dest", "vars"} THEN mgr.cur \in Contracts ELSE mgr.cur = 0
    /\ mgr.cur \notin mgr.todo
    /\ mgr.pc = "list" => mgr.todo = {} /\ mgr.kept = {}
    /\ mgr.pc \in {"list", "filter", "next"} => Existing
    /\ ~Existing => mgr.todo = {}
    /\ mgr.pc = "select" => ~Existing

Rented(c) == /\ chain[c].term \in {0, chain[c].sold} /\ chain[c].ended <= chain[c].sold
             /\ chain[c].term # 0 => chain[c].dest = 1
             /\ chain[c].sold > 0 => chain[c].made

\* A contract is created once and then bought, and each makes at most one object; what the
\* manager is told of, or will read, is counted with the objects it has made.
Uses(c) == Len(objs[c]) + Pending(c) + (IF StillToRead(c) THEN 1 ELSE 0)
Counted(c) == /\ Uses(c) <= chain[c].sold + 1 /\ Uses(c) <= MaxObjects
              /\ ~chain[c].made => /\ objs[c] = <<>> /\ Pending(c) = 0
                                   /\ StillToRead(c) => mgr.pc = "list"

\* A purchase makes each object that is told of it start one loop, after it has read the
\* destination and then the term.
Started(c, i) == \/ objs[c][i].work > 0 \/ objs[c][i].start
                 \/ \E k \in DOMAIN LogsOf(c, i) : LogsOf(c, i)[k] = "purchased"
Fresh(c) == \A i \in Objects : i \notin DOMAIN objs[c] => subs[<<c, i>>] = Off
Unrented(c) ==
    chain[c].sold = 0 =>
       /\ isBuyer => objs[c] = <<>>
       /\ \A i \in DOMAIN objs[c] :
             /\ ~Started(c, i) /\ objs[c][i].pc \in {"listen", "ended"}
             /\ objs[c][i].data.term = 0 /\ LogsOf(c, i) = <<>>
OneLoop(c) ==
    chain[c].sold = 1 =>
       \A i \in DOMAIN objs[c] :
          /\ objs[c][i].work <= 1 /\ (objs[c][i].start => objs[c][i].work = 0)
          /\ \A k \in DOMAIN LogsOf(c, i) :
                LogsOf(c, i)[k] = "purchased" =>
                   /\ objs[c][i].work = 0 /\ ~objs[c][i].start
                   /\ \A m \in DOMAIN LogsOf(c, i) : LogsOf(c, i)[m] = "purchased" => m = k
Alone(c) ==
    chain[c].sold = 1 /\ ~isBuyer =>
       \A i, j \in DOMAIN objs[c] : Started(c, i) /\ Started(c, j) => i = j
Loaded(c) ==
    chain[c].sold <= 1 =>
       \A i \in DOMAIN objs[c] :
          /\ ~isBuyer /\ objs[c][i].pc = "vars" /\ chain[c].term # 0 => objs[c][i].half = 1
          /\ ~isBuyer /\ objs[c][i].data.term # 0 => objs[c][i].data.dest = 1
          /\ objs[c][i].work > 0 /\ objs[c][i].data.term = 0 => chain[c].term = 0
ObjectsInv(c) == Fresh(c) /\ Unrented(c) /\ OneLoop(c) /\ Alone(c) /\ Loaded(c)

\* Nothing panics before the parts run but a provider, nor later but for the context.
Harmless ==
    /\ app = "init" => \A k \in Components : part[k] = "off"
    /\ app = "panicked" /\ part["tcp"] # "off" => cancelled
    /\ \A z \in cancels : z[1] \in Contracts /\ (z[2] = "expired" => ~z[3] /\ chain[z[1]].sold > 1)

ManagerInv == Reads /\ \A c \in Contracts : Rented(c) /\ Counted(c)
DiscoveryInv == /\ AppTypeOK /\ Shaped /\ ManagerInv /\ Harmless
                /\ \A c \in Contracts : ObjectsInv(c)

LEMMA InitDiscovery == DiscoveryInit => DiscoveryInv
<1> SUFFICES ASSUME DiscoveryInit PROVE DiscoveryInv
  OBVIOUS
<1>1. /\ MaxRentals \in Nat \ {0} /\ MaxObjects \in Nat \ {0} /\ MaxDrops \in Nat
      /\ 0 \notin Contracts /\ FactorySub \in Subs
  BY DiscoveryAssumption, SubsShape
<1>2. /\ chain = [c \in Contracts |-> NotMade] /\ subs = [s \in Subs |-> Off]
      /\ mgr = [pc |-> "list", todo |-> {}, kept |-> {}, cur |-> 0, half |-> 0]
      /\ objs = [c \in Contracts |-> <<>>] /\ cancels = {} /\ faults = 0 /\ isBuyer \in BOOLEAN
  BY DEF DiscoveryInit
<1>3. /\ \A s \in Subs : subs[s] = Off
      /\ \A c \in Contracts : chain[c] = NotMade /\ objs[c] = <<>>
      /\ mgr.pc = "list" /\ mgr.todo = {} /\ mgr.kept = {} /\ mgr.cur = 0
  BY <1>2
<1>4. Shaped
  <2>1. NotMade \in OnChain /\ mgr \in Managers
    BY <1>1, <1>2 DEF NotMade, OnChain, Managers
  <2>2. chain \in [Contracts -> OnChain]
    BY <1>2, <2>1
  <2>3. <<>> \in Seq(AnyLog) /\ <<>> \in Seq(Logs) /\ <<>> \in Seq(ContractEvents)
        /\ <<>> \in Seq(ObjectStates)
    BY EmptySeq
  <2>4. Off \in Subscriptions /\ Off.logs = <<>>
    BY <2>3 DEF Off, Subscriptions
  <2>5. subs \in [Subs -> Subscriptions] /\ objs \in [Contracts -> Seq(ObjectStates)]
    BY <1>2, <2>3, <2>4
  <2>6. \A c \in Contracts, i \in Objects : LogsOf(c, i) \in Seq(ContractEvents)
    BY <1>3, <2>3, <2>4, SubsShape DEF LogsOf
  <2>7. subs[FactorySub].logs \in Seq(Logs)
    BY <1>1, <1>3, <2>3, <2>4
  <2> QED BY <1>1, <1>2, <2>1, <2>2, <2>5, <2>6, <2>7 DEF Shaped
<1>5. ManagerInv
  <2>1. Reads
    BY <1>1, <1>3 DEF Reads, Existing, Off
  <2>2. ASSUME NEW c \in Contracts PROVE Rented(c) /\ Counted(c)
    <3>1. Rented(c)
      BY <1>3 DEF Rented, NotMade
    <3>2. Pending(c) = 0
      <4>1. subs[FactorySub].logs = <<>>
        BY <1>1, <1>3 DEF Off
      <4> QED BY <4>1, PlacesEmpty DEF Pending, Places
    <3>3. Len(objs[c]) = 0 /\ objs[c] = <<>>
      BY <1>3, EmptySeq
    <3>4. StillToRead(c)
      BY <1>3 DEF StillToRead
    <3> QED BY <1>1, <1>3, <3>1, <3>2, <3>3, <3>4 DEF Counted, Uses, NotMade
  <2> QED BY <2>1, <2>2 DEF ManagerInv
<1>6. Harmless /\ AppTypeOK
  <2>1. Cardinality(DOMAIN Providers) \in Nat
    <3> DEFINE n == 7
    <3>1. DOMAIN Providers = 1..n /\ n \in Int
      BY DEF Providers
    <3> HIDE DEF n
    <3>2. IsFiniteSet(1..n)
      BY <3>1, FS_Interval
    <3> QED BY <3>1, <3>2, FS_CardinalityType
  <2>2. AppTypeOK
    <3> HIDE DEF Providers
    <3>1. app = "init" /\ built = 0 /\ cancelled = FALSE /\ signals = 0 /\ handlers = 0
          /\ part = [k \in Components |-> "off"]
      BY DEF DiscoveryInit, AppInit
    <3>2. built \in 0..Cardinality(DOMAIN Providers) /\ handlers \in 0..MaxConnections
      BY <2>1, <3>1, AppAssumption
    <3>3. part \in [Components -> {"off", "up", "serving", "done"}]
      BY <3>1
    <3>4. cancelled \in BOOLEAN /\ app \in {"init", "running", "exited", "panicked"}
      BY <3>1
    <3>5. signals \in 0..2
      BY <3>1
    <3> QED BY <3>2, <3>3, <3>4, <3>5 DEF AppTypeOK
  <2>3. Harmless
    BY <1>2 DEF DiscoveryInit, AppInit, Harmless
  <2> QED BY <2>2, <2>3
<1>7. ASSUME NEW c \in Contracts PROVE ObjectsInv(c)
  <2>1. DOMAIN objs[c] = {} /\ chain[c].sold = 0 /\ objs[c] = <<>>
    BY <1>3 DEF NotMade
  <2> QED BY <1>3, <2>1, SubsShape DEF ObjectsInv, Fresh, Unrented, OneLoop, Alone, Loaded
<1> QED
  BY <1>4, <1>5, <1>6, <1>7 DEF DiscoveryInv

\* What a step of the manager or an object does to the process, and to the contracts.
LEMMA AppMoves ==
  ASSUME [DiscoveryNext]_discoveryVars
  PROVE  \/ AppNext
         \/ Live /\ Returns("contracts") /\ componentUnchanged
         \/ /\ Live /\ cancelled /\ app' = "panicked"
            /\ UNCHANGED <<built, part, cancelled, signals, handlers>>
         \/ UNCHANGED appVars
<1>1. CASE ManagerSteps \/ ReadContractFails
  BY <1>1 DEF ManagerSteps, ReadContracts, Filter, NextExisting, TakeFactoryEvent, ReadDest,
     ReadVars, ReadContractFails, mgrUnchanged
<1>2. CASE ReadContractsFails \/ MgrStops \/ MgrPanics
  BY <1>2 DEF ReadContractsFails, MgrStops, MgrPanics, MgrReturns, MgrAt, ZeroLog
<1>3. ASSUME NEW s \in Subs, SubConnects(s) \/ SubBreaks(s) PROVE UNCHANGED appVars
  BY <1>3 DEF SubConnects, SubBreaks, subUnchanged
<1>4. ASSUME NEW c \in Contracts,
             \/ \E mine \in BOOLEAN : Create(c, mine)
             \/ \E me \in BOOLEAN : Purchase(c, me)
             \/ TermEnds(c) \/ \E update \in BOOLEAN : CloseElsewhere(c, update)
      PROVE  UNCHANGED appVars
  BY <1>4 DEF Create, Purchase, TermEnds, CloseElsewhere, chainUnchanged
<1>5. ASSUME NEW c \in Contracts, NEW i \in Objects,
             \/ TakeContractEvent(c, i) \/ LoadDest(c, i) \/ LoadVars(c, i)
             \/ LoadFails(c, i) \/ ListenerStops(c, i)
             \/ \E why \in {"expired", "allocation", "context"} : FulfilmentEnds(c, i, why)
      PROVE  UNCHANGED appVars
  BY <1>5 DEF TakeContractEvent, LoadDest, LoadVars, LoadFails, ListenerStops, FulfilmentEnds,
     objUnchanged
<1>6. ASSUME NEW c \in Contracts, NEW i \in Objects, ListenerPanics(c, i)
      PROVE  /\ Live /\ cancelled /\ app' = "panicked"
             /\ UNCHANGED <<built, part, cancelled, signals, handlers>>
  BY <1>6 DEF ListenerPanics, ObjAt, ZeroLog
<1>7. CASE UNCHANGED discoveryVars
  BY <1>7 DEF discoveryVars
<1> QED
  BY <1>1, <1>2, <1>3, <1>4, <1>5, <1>6, <1>7 DEF DiscoveryNext

LEMMA ProvidersCount == Cardinality(DOMAIN Providers) \in Nat
<1> DEFINE n == 7
<1>1. DOMAIN Providers = 1..n /\ n \in Int
  BY DEF Providers
<1> HIDE DEF n
<1>2. IsFiniteSet(1..n)
  BY <1>1, FS_Interval
<1> QED
  BY <1>1, <1>2, FS_CardinalityType

LEMMA AppSafe ==
  ASSUME AppTypeOK, app = "init" => \A k \in Components : part[k] = "off",
         app = "panicked" /\ part["tcp"] # "off" => cancelled,
         [DiscoveryNext]_discoveryVars
  PROVE  /\ AppTypeOK'
         /\ app' = "init" => \A k \in Components : part'[k] = "off"
         /\ app' = "panicked" /\ part'["tcp"] # "off" => cancelled'
<1> DEFINE bound == Cardinality(DOMAIN Providers)
           Old == /\ app = "init" => \A k \in Components : part[k] = "off"
                  /\ app = "panicked" /\ part["tcp"] # "off" => cancelled
           Goal == /\ AppTypeOK'
                   /\ app' = "init" => \A k \in Components : part'[k] = "off"
                   /\ app' = "panicked" /\ part'["tcp"] # "off" => cancelled'
<1>1. /\ part \in [Components -> {"off", "up", "serving", "done"}]
      /\ "tcp" \in Components /\ "api" \in Components /\ "contracts" \in Components
      /\ MaxConnections \in Nat
  BY AppAssumption DEF AppTypeOK, Components
<1>2. CASE AppNext
  <2>1. CASE InitApp
    <3>1. app = "init" /\ UNCHANGED <<cancelled, signals, handlers>> /\ Old
      BY <2>1 DEF InitApp
    <3>2. CASE built < bound
      <4>1. built' = built + 1 /\ UNCHANGED <<app, part>> /\ bound \in Nat
        BY <2>1, <3>2, ProvidersCount DEF InitApp
      <4> HIDE DEF bound
      <4>2. built' \in 0..bound
        BY <3>2, <4>1 DEF AppTypeOK, bound
      <4> QED BY <3>1, <4>1, <4>2 DEF AppTypeOK, bound
    <3>3. CASE ~(built < bound)
      <4>1. app' = "running" /\ part' = [k \in Components |-> "up"] /\ UNCHANGED built
        BY <2>1, <3>3 DEF InitApp
      <4>2. part' \in [Components -> {"off", "up", "serving", "done"}]
        BY <4>1
      <4> QED BY <3>1, <4>1, <4>2 DEF AppTypeOK
    <3> QED BY <3>2, <3>3
  <2>2. CASE InitFails
    BY <1>1, <2>2 DEF InitFails, AppTypeOK
  <2>3. CASE ListenFails \/ TCPStops \/ ServeFails \/ ServerStops
    <3>1. /\ Live /\ cancelled' = TRUE /\ UNCHANGED <<app, built, signals, handlers>>
          /\ \E k \in Components : part' = [part EXCEPT ![k] = "done"]
      BY <1>1, <2>3 DEF ListenFails, TCPStops, ServeFails, ServerStops, Returns, componentUnchanged
    <3>2. part' \in [Components -> {"off", "up", "serving", "done"}]
      BY <1>1, <3>1
    <3> QED BY <3>1, <3>2 DEF AppTypeOK, Live
  <2>4. CASE Bind
    <3>1. /\ Live /\ UNCHANGED <<app, built, signals, handlers, cancelled>>
          /\ part' = [part EXCEPT !["tcp"] = "serving"]
      BY <2>4 DEF Bind, componentUnchanged
    <3>2. part' \in [Components -> {"off", "up", "serving", "done"}]
      BY <1>1, <3>1
    <3> QED BY <3>1, <3>2 DEF AppTypeOK, Live
  <2>5. CASE Accept \/ HandlerReturns
    <3>1. /\ Live /\ UNCHANGED <<app, built, signals, part, cancelled>>
          /\ handlers' \in 0..MaxConnections
      BY <1>1, <2>5 DEF Accept, HandlerReturns, AppTypeOK
    <3> QED BY <3>1 DEF AppTypeOK, Live
  <2>6. CASE Signal
    <3>1. /\ Live /\ cancelled' = TRUE /\ app' \in {"exited", "running"}
          /\ UNCHANGED <<built, part, handlers>>
      BY <2>6 DEF Signal, Live
    <3>2. signals' \in 0..2
      BY <2>6 DEF Signal, AppTypeOK
    <3> QED BY <3>1, <3>2 DEF AppTypeOK
  <2>7. CASE Wait
    BY <1>1, <2>7 DEF Wait, AppTypeOK
  <2> QED BY <1>2, <2>1, <2>2, <2>3, <2>4, <2>5, <2>6, <2>7 DEF AppNext
<1>3. CASE Live /\ Returns("contracts") /\ componentUnchanged
  <2>1. /\ cancelled' = TRUE /\ UNCHANGED <<app, built, signals, handlers>>
        /\ part' = [part EXCEPT !["contracts"] = "done"] /\ app = "running"
    BY <1>3 DEF Live, Returns, componentUnchanged
  <2>2. part' \in [Components -> {"off", "up", "serving", "done"}]
    BY <1>1, <2>1
  <2> QED BY <2>1, <2>2 DEF AppTypeOK
<1>4. CASE /\ Live /\ cancelled /\ app' = "panicked"
           /\ UNCHANGED <<built, part, cancelled, signals, handlers>>
  BY <1>4 DEF AppTypeOK
<1>5. CASE UNCHANGED appVars
  BY <1>5 DEF appVars, AppTypeOK
<1> QED
  BY <1>2, <1>3, <1>4, <1>5, AppMoves

\* Which contracts a step changes, and how.
LEMMA ChainMoves ==
  ASSUME [DiscoveryNext]_discoveryVars
  PROVE  \/ UNCHANGED chain
         \/ \E c \in Contracts :
               \/ \E mine \in BOOLEAN : Create(c, mine)
               \/ \E me \in BOOLEAN : Purchase(c, me)
               \/ TermEnds(c)
               \/ chain' = Closed(c)
<1>1. CASE ManagerSteps \/ ReadContractFails \/ ReadContractsFails \/ MgrStops \/ MgrPanics
  BY <1>1 DEF ManagerSteps, ReadContracts, Filter, NextExisting, TakeFactoryEvent, ReadDest,
     ReadVars, ReadContractFails, mgrUnchanged, ReadContractsFails, MgrStops, MgrPanics,
     MgrReturns, ZeroLog
<1>2. ASSUME NEW s \in Subs, SubConnects(s) \/ SubBreaks(s) PROVE UNCHANGED chain
  BY <1>2 DEF SubConnects, SubBreaks, subUnchanged
<1>3. ASSUME NEW c \in Contracts, NEW update \in BOOLEAN, CloseElsewhere(c, update)
      PROVE  chain' = Closed(c)
  BY <1>3 DEF CloseElsewhere
<1>4. ASSUME NEW c \in Contracts, NEW i \in Objects,
             \/ TakeContractEvent(c, i) \/ LoadDest(c, i) \/ LoadVars(c, i)
             \/ LoadFails(c, i) \/ ListenerStops(c, i) \/ ListenerPanics(c, i)
      PROVE  UNCHANGED chain
  BY <1>4 DEF TakeContractEvent, LoadDest, LoadVars, LoadFails, ListenerStops, ListenerPanics,
     ZeroLog
<1>5. ASSUME NEW c \in Contracts, NEW i \in Objects,
             NEW why \in {"expired", "allocation", "context"}, FulfilmentEnds(c, i, why)
      PROVE  UNCHANGED chain \/ chain' = Closed(c)
  BY <1>5 DEF FulfilmentEnds
<1>6. CASE UNCHANGED discoveryVars
  BY <1>6 DEF discoveryVars
<1> QED
  BY <1>1, <1>2, <1>3, <1>4, <1>5, <1>6 DEF DiscoveryNext

\* A contract's own state; and nothing else is ever sold again or forgotten.
LEMMA ChainSafe ==
  ASSUME Shaped, \A c \in Contracts : Rented(c), [DiscoveryNext]_discoveryVars
  PROVE  /\ chain' \in [Contracts -> OnChain]
         /\ \A c \in Contracts : Rented(c)' /\ chain'[c].sold >= chain[c].sold
<1>1. /\ chain \in [Contracts -> OnChain] /\ MaxRentals \in Nat
      /\ \A c \in Contracts : chain[c] \in OnChain
  BY DiscoveryAssumption DEF Shaped
<1>2. ASSUME NEW c \in Contracts, NEW r \in OnChain, chain' = [chain EXCEPT ![c] = r],
             /\ r.term \in {0, r.sold} /\ r.ended <= r.sold /\ (r.term # 0 => r.dest = 1)
             /\ (r.sold > 0 => r.made) /\ r.sold >= chain[c].sold
      PROVE  /\ chain' \in [Contracts -> OnChain]
             /\ \A d \in Contracts : Rented(d)' /\ chain'[d].sold >= chain[d].sold
  <2>1. chain' \in [Contracts -> OnChain] /\ chain'[c] = r
        /\ \A d \in Contracts : d # c => chain'[d] = chain[d]
    BY <1>1, <1>2
  <2>2. \A d \in Contracts : chain[d].sold \in Nat
    BY <1>1 DEF OnChain
  <2>3. ASSUME NEW d \in Contracts PROVE Rented(d)' /\ chain'[d].sold >= chain[d].sold
    <3>1. CASE d = c
      BY <1>2, <2>1, <3>1 DEF Rented
    <3>2. CASE d # c
      BY <2>1, <2>2, <3>2 DEF Rented
    <3> QED BY <3>1, <3>2
  <2> QED BY <2>1, <2>3
<1>3. CASE UNCHANGED chain
  <2>1. \A d \in Contracts : chain[d].sold \in Nat
    BY <1>1 DEF OnChain
  <2> QED BY <1>1, <1>3, <2>1 DEF Rented
<1>4. ASSUME NEW c \in Contracts, NEW mine \in BOOLEAN, Create(c, mine)
      PROVE  /\ chain' \in [Contracts -> OnChain]
             /\ \A d \in Contracts : Rented(d)' /\ chain'[d].sold >= chain[d].sold
  <2> DEFINE r == [[chain[c] EXCEPT !.made = TRUE] EXCEPT !.mine = mine]
  <2>1. chain' = [chain EXCEPT ![c] = r]
    BY <1>1, <1>4 DEF Create
  <2>2. r \in OnChain /\ r.term = chain[c].term /\ r.sold = chain[c].sold /\ r.dest = chain[c].dest
        /\ r.ended = chain[c].ended /\ r.made = TRUE
    BY <1>1 DEF OnChain
  <2> HIDE DEF r
  <2>3. chain[c].sold \in Nat
    BY <1>1 DEF OnChain
  <2>4. /\ r.sold >= chain[c].sold /\ r.term \in {0, r.sold} /\ r.ended <= r.sold
        /\ (r.term # 0 => r.dest = 1) /\ (r.sold > 0 => r.made)
    BY <2>2, <2>3 DEF Rented
  <2> QED BY <1>2, <2>1, <2>2, <2>4
<1>5. ASSUME NEW c \in Contracts, NEW me \in BOOLEAN, Purchase(c, me)
      PROVE  /\ chain' \in [Contracts -> OnChain]
             /\ \A d \in Contracts : Rented(d)' /\ chain'[d].sold >= chain[d].sold
  <2> DEFINE n == chain[c].sold + 1
             p == [chain[c] EXCEPT !.sold = n]
             q == [p EXCEPT !.term = n]
             u == [q EXCEPT !.byMe = me]
             r == [u EXCEPT !.dest = 1]
  <2>1. chain[c].sold < MaxRentals /\ chain[c].made
    BY <1>5 DEF Purchase
  <2>2. chain' = [chain EXCEPT ![c] = r]
    <3>1. chain' = [chain EXCEPT ![c] = [chain[c] EXCEPT !.sold = chain[c].sold + 1,
                                 !.term = chain[c].sold + 1, !.byMe = me, !.dest = 1]]
      BY <1>5 DEF Purchase
    <3> QED BY <3>1
  <2>3. n \in 0..MaxRentals /\ chain[c].sold \in Nat /\ chain[c].ended <= chain[c].sold
        /\ chain[c].ended \in Nat /\ n = chain[c].sold + 1
    BY <1>1, <2>1 DEF OnChain, Rented
  <2> HIDE DEF n
  <2>4. p \in OnChain /\ p.sold = n /\ p.ended = chain[c].ended /\ p.made = chain[c].made
    BY <1>1, <2>3 DEF OnChain
  <2> HIDE DEF p
  <2>5. q \in OnChain /\ q.sold = n /\ q.ended = chain[c].ended /\ q.made = chain[c].made /\ q.term = n
    BY <2>3, <2>4 DEF OnChain
  <2> HIDE DEF q
  <2>6. u \in OnChain /\ u.sold = n /\ u.ended = chain[c].ended /\ u.made = chain[c].made /\ u.term = n
    BY <2>5 DEF OnChain
  <2> HIDE DEF u
  <2>7. r \in OnChain /\ r.sold = n /\ r.ended = chain[c].ended /\ r.made = chain[c].made
        /\ r.term = n /\ r.dest = 1
    BY <2>6 DEF OnChain
  <2> HIDE DEF r
  <2>8. /\ r.sold >= chain[c].sold /\ r.term \in {0, r.sold} /\ r.ended <= r.sold
        /\ (r.term # 0 => r.dest = 1) /\ (r.sold > 0 => r.made)
    BY <2>1, <2>3, <2>7
  <2> QED BY <1>2, <2>2, <2>7, <2>8
<1>6. ASSUME NEW c \in Contracts, TermEnds(c)
      PROVE  /\ chain' \in [Contracts -> OnChain]
             /\ \A d \in Contracts : Rented(d)' /\ chain'[d].sold >= chain[d].sold
  <2> DEFINE r == [chain[c] EXCEPT !.ended = chain[c].term]
  <2>1. chain' = [chain EXCEPT ![c] = r]
    BY <1>6 DEF TermEnds
  <2>2. r \in OnChain /\ r.term = chain[c].term /\ r.sold = chain[c].sold /\ r.dest = chain[c].dest
        /\ r.ended = chain[c].term /\ r.made = chain[c].made
    BY <1>1 DEF OnChain
  <2>3. chain[c].sold \in Nat /\ chain[c].term <= chain[c].sold
    BY <1>1 DEF OnChain, Rented
  <2> HIDE DEF r
  <2>4. /\ r.sold >= chain[c].sold /\ r.term \in {0, r.sold} /\ r.ended <= r.sold
        /\ (r.term # 0 => r.dest = 1) /\ (r.sold > 0 => r.made)
    BY <2>2, <2>3 DEF Rented
  <2> QED BY <1>2, <2>1, <2>2, <2>4
<1>7. ASSUME NEW c \in Contracts, chain' = Closed(c)
      PROVE  /\ chain' \in [Contracts -> OnChain]
             /\ \A d \in Contracts : Rented(d)' /\ chain'[d].sold >= chain[d].sold
  <2> DEFINE p == [chain[c] EXCEPT !.term = 0]
             q == [p EXCEPT !.byMe = FALSE]
             r == [q EXCEPT !.dest = 0]
  <2>1. chain' = [chain EXCEPT ![c] = r]
    BY <1>7 DEF Closed
  <2>2. p \in OnChain /\ p.term = 0 /\ p.sold = chain[c].sold /\ p.ended = chain[c].ended
        /\ p.made = chain[c].made
    BY <1>1 DEF OnChain
  <2> HIDE DEF p
  <2>3. q \in OnChain /\ q.term = 0 /\ q.sold = chain[c].sold /\ q.ended = chain[c].ended
        /\ q.made = chain[c].made
    BY <2>2 DEF OnChain
  <2> HIDE DEF q
  <2>4. r \in OnChain /\ r.term = 0 /\ r.sold = chain[c].sold /\ r.ended = chain[c].ended
        /\ r.made = chain[c].made
    BY <2>3 DEF OnChain
  <2> HIDE DEF r
  <2>5. /\ chain[c].sold \in Nat /\ r.sold >= chain[c].sold
        /\ r.term \in {0, r.sold} /\ r.ended <= r.sold /\ (r.term # 0 => r.dest = 1)
        /\ (r.sold > 0 => r.made)
    BY <1>1, <2>4 DEF OnChain, Rented
  <2> QED BY <1>2, <2>1, <2>4, <2>5
<1> QED
  BY <1>3, <1>4, <1>5, <1>6, <1>7, ChainMoves

\* What the steps of an object make of it.
Loads(k, b) == [k EXCEPT !.pc = "dest", !.start = b]
HasDest(k, h) == [k EXCEPT !.pc = "vars", !.half = h]
GivesUp(k) == [k EXCEPT !.pc = "listen", !.half = 0, !.start = FALSE]
HasVars(k, d, w) == [k EXCEPT !.pc = "listen", !.half = 0, !.start = FALSE, !.data = d, !.work = w]

LEMMA Reloading ==
  ASSUME NEW k \in ObjectStates, NEW b \in BOOLEAN, NEW o, o = Loads(k, b)
  PROVE  o \in ObjectStates /\ o.pc = "dest" /\ o.start = b /\ o.work = k.work /\ o.data = k.data
<1> DEFINE p == [k EXCEPT !.pc = "dest"]
           r == [p EXCEPT !.start = b]
<1>1. p \in ObjectStates /\ p.pc = "dest" /\ p.work = k.work /\ p.data = k.data
  BY DEF ObjectStates
<1>2. o = r
  BY DEF Loads
<1> HIDE DEF p
<1>3. r \in ObjectStates /\ r.pc = "dest" /\ r.start = b /\ r.work = k.work /\ r.data = k.data
  BY <1>1 DEF ObjectStates
<1> QED BY <1>2, <1>3

LEMMA HalfRead ==
  ASSUME NEW k \in ObjectStates, NEW h \in 0..1, NEW o, o = HasDest(k, h)
  PROVE  /\ o \in ObjectStates /\ o.pc = "vars" /\ o.half = h
         /\ o.work = k.work /\ o.data = k.data /\ o.start = k.start
<1> DEFINE p == [k EXCEPT !.pc = "vars"]
           r == [p EXCEPT !.half = h]
<1>1. p \in ObjectStates /\ p.pc = "vars" /\ p.work = k.work /\ p.data = k.data /\ p.start = k.start
  BY DEF ObjectStates
<1>2. o = r
  BY DEF HasDest
<1> HIDE DEF p
<1>3. /\ r \in ObjectStates /\ r.pc = "vars" /\ r.half = h
      /\ r.work = k.work /\ r.data = k.data /\ r.start = k.start
  BY <1>1 DEF ObjectStates
<1> QED BY <1>2, <1>3

LEMMA Unread ==
  ASSUME NEW k \in ObjectStates, NEW o, o = GivesUp(k)
  PROVE  /\ o \in ObjectStates /\ o.pc = "listen" /\ o.start = FALSE
         /\ o.work = k.work /\ o.data = k.data
<1> DEFINE p == [k EXCEPT !.pc = "listen"]
           h == [p EXCEPT !.half = 0]
           r == [h EXCEPT !.start = FALSE]
<1>1. p \in ObjectStates /\ p.pc = "listen" /\ p.work = k.work /\ p.data = k.data
  BY DEF ObjectStates
<1>2. o = r
  BY DEF GivesUp
<1> HIDE DEF p
<1>3. h \in ObjectStates /\ h.pc = "listen" /\ h.work = k.work /\ h.data = k.data
  BY <1>1 DEF ObjectStates
<1> HIDE DEF h
<1>4. r \in ObjectStates /\ r.pc = "listen" /\ r.start = FALSE /\ r.work = k.work /\ r.data = k.data
  BY <1>3 DEF ObjectStates
<1> QED BY <1>2, <1>4

LEMMA Reread ==
  ASSUME NEW k \in ObjectStates, NEW d \in Datas, NEW w \in Nat, NEW o,
         o = HasVars(k, d, w)
  PROVE  /\ o \in ObjectStates /\ o.pc = "listen" /\ o.start = FALSE
         /\ o.work = w /\ o.data = d
<1> DEFINE q == GivesUp(k)
           p == [q EXCEPT !.data = d]
           r == [p EXCEPT !.work = w]
<1>1. q \in ObjectStates /\ q.pc = "listen" /\ q.start = FALSE
  BY Unread
<1>2. o = r
  BY DEF HasVars, GivesUp
<1> HIDE DEF q
<1>3. p \in ObjectStates /\ p.pc = "listen" /\ p.start = FALSE /\ p.data = d
  BY <1>1 DEF ObjectStates
<1> HIDE DEF p
<1>4. r \in ObjectStates /\ r.pc = "listen" /\ r.start = FALSE /\ r.data = d /\ r.work = w
  BY <1>3 DEF ObjectStates
<1> QED BY <1>2, <1>4

LEMMA SetObject ==
  ASSUME Shaped, NEW c \in Contracts, NEW i \in DOMAIN objs[c], NEW o \in ObjectStates, Set(c, i, o)
  PROVE  /\ objs' \in [Contracts -> Seq(ObjectStates)]
         /\ \A d \in Contracts : DOMAIN objs'[d] = DOMAIN objs[d] /\ Len(objs'[d]) = Len(objs[d])
         /\ \A d \in Contracts : d # c => objs'[d] = objs[d]
         /\ objs'[c][i] = o /\ \A j \in DOMAIN objs[c] : j # i => objs'[c][j] = objs[c][j]
<1>1. objs \in [Contracts -> Seq(ObjectStates)] /\ objs[c] \in Seq(ObjectStates)
  BY DEF Shaped
<1> DEFINE s == objs[c]
           t == [s EXCEPT ![i] = o]
<1>2. objs' = [objs EXCEPT ![c] = t]
  BY DEF Set
<1>3. DOMAIN s = 1..Len(s) /\ i \in 1..Len(s)
  BY <1>1, LenProperties
<1>4. /\ t \in Seq(ObjectStates) /\ Len(t) = Len(s)
      /\ \A j \in 1..Len(s) : t[j] = IF j = i THEN o ELSE s[j]
  BY <1>1, <1>3, ExceptSeq
<1>5. DOMAIN t = DOMAIN s
  BY DEF t
<1> HIDE DEF t
<1>6. objs' \in [Contracts -> Seq(ObjectStates)] /\ objs'[c] = t
      /\ \A d \in Contracts : d # c => objs'[d] = objs[d]
  BY <1>1, <1>2, <1>4
<1> QED
  BY <1>3, <1>4, <1>5, <1>6

\* The object an action of DiscoveryNext is about, and what it makes of it.
LEMMA ObjectKnown ==
  ASSUME Shaped, NEW c \in Contracts, NEW i \in DOMAIN objs[c]
  PROVE  /\ objs[c][i] \in ObjectStates /\ objs[c][i].work \in Nat /\ objs[c][i].data \in Datas
         /\ objs[c][i].half \in 0..1 /\ objs[c][i].start \in BOOLEAN
         /\ i \in Nat \ {0}
<1>1. objs[c] \in Seq(ObjectStates)
  BY DEF Shaped
<1>2. DOMAIN objs[c] = 1..Len(objs[c]) /\ Len(objs[c]) \in Nat
  BY <1>1, LenProperties
<1>3. objs[c][i] \in ObjectStates
  BY <1>1, <1>2, ElementOfSeq
<1> QED
  BY <1>2, <1>3 DEF ObjectStates

\* One subscription changes.
LEMMA SubsChange ==
  ASSUME Shaped, NEW s \in Subs, NEW v \in Subscriptions, subs' = [subs EXCEPT ![s] = v],
         IF s = FactorySub THEN v.logs \in Seq(Logs) ELSE v.logs \in Seq(ContractEvents)
  PROVE  /\ subs' \in [Subs -> Subscriptions]
         /\ subs'[s] = v /\ \A r \in Subs : r # s => subs'[r] = subs[r]
         /\ subs'[FactorySub].logs \in Seq(Logs)
         /\ \A c \in Contracts, i \in Objects : subs'[<<c, i>>].logs \in Seq(ContractEvents)
<1>1. /\ subs \in [Subs -> Subscriptions] /\ subs[FactorySub].logs \in Seq(Logs)
      /\ \A c \in Contracts, i \in Objects : subs[<<c, i>>].logs \in Seq(ContractEvents)
  BY DEF Shaped, LogsOf
<1>2. subs' \in [Subs -> Subscriptions] /\ subs'[s] = v /\ \A r \in Subs : r # s => subs'[r] = subs[r]
  BY <1>1
<1>3. subs'[FactorySub].logs \in Seq(Logs)
  BY <1>1, <1>2, SubsShape
<1>4. ASSUME NEW c \in Contracts, NEW i \in Objects PROVE subs'[<<c, i>>].logs \in Seq(ContractEvents)
  BY <1>1, <1>2, SubsShape
<1> QED
  BY <1>2, <1>3, <1>4

\* The effects of the steps of an object.
LEMMA TakeEffect ==
  ASSUME Shaped, NEW c \in Contracts, NEW i \in Objects, TakeContractEvent(c, i)
  PROVE  /\ i \in DOMAIN objs[c] /\ objs[c][i].pc = "listen" /\ LogsOf(c, i) # <<>>
         /\ \E o \in ObjectStates :
               /\ Set(c, i, o) /\ o.work = objs[c][i].work /\ o.data = objs[c][i].data
               /\ IF Head(LogsOf(c, i)) \in {"purchased", "updated"}
                  THEN o.pc = "dest" /\ o.start = (Head(LogsOf(c, i)) = "purchased")
                  ELSE o = objs[c][i]
         /\ \E v \in Subscriptions : /\ subs' = [subs EXCEPT ![<<c, i>>] = v]
                                     /\ v.logs = Tail(LogsOf(c, i)) /\ v.logs \in Seq(ContractEvents)
<1>1. i \in DOMAIN objs[c] /\ objs[c][i].pc = "listen" /\ LogsOf(c, i) # <<>>
  BY DEF TakeContractEvent, ObjAt, LogsOf
<1> DEFINE k == objs[c][i]
           e == Head(LogsOf(c, i))
           o == IF e \in {"purchased", "updated"}
                THEN [k EXCEPT !.pc = "dest", !.start = (e = "purchased")] ELSE k
<1>2. k \in ObjectStates
  BY <1>1, ObjectKnown
<1>3. Set(c, i, o)
  BY DEF TakeContractEvent, LogsOf
<1>4. /\ o \in ObjectStates /\ o.work = k.work /\ o.data = k.data
      /\ IF e \in {"purchased", "updated"} THEN o.pc = "dest" /\ o.start = (e = "purchased")
         ELSE o = k
  <2>1. CASE e \in {"purchased", "updated"}
    <3> DEFINE b == (e = "purchased")
    <3>1. b \in BOOLEAN /\ o = Loads(k, b)
      BY <2>1 DEF Loads
    <3> HIDE DEF b, o, k
    <3>2. o \in ObjectStates /\ o.pc = "dest" /\ o.start = b /\ o.work = k.work /\ o.data = k.data
      BY <1>2, <3>1, Reloading
    <3> QED BY <2>1, <3>2 DEF b
  <2>2. CASE e \notin {"purchased", "updated"}
    BY <1>2, <2>2
  <2> QED BY <2>1, <2>2
<1> DEFINE u == subs[<<c, i>>]
           v == [u EXCEPT !.logs = Tail(u.logs)]
<1>5. subs' = [subs EXCEPT ![<<c, i>>] = v]
  BY DEF TakeContractEvent
<1>6. u \in Subscriptions /\ u.logs \in Seq(ContractEvents) /\ u.logs # <<>>
  BY <1>1, SubsShape DEF Shaped, LogsOf
<1>7. Tail(u.logs) \in Seq(ContractEvents) /\ Tail(u.logs) \in Seq(AnyLog)
  <2>1. Tail(u.logs) \in Seq(ContractEvents)
    BY <1>6, HeadTailProperties
  <2> QED BY <2>1, SeqMonotonic DEF AnyLog
<1>8. v \in Subscriptions /\ v.logs = Tail(LogsOf(c, i)) /\ v.logs \in Seq(ContractEvents)
  BY <1>6, <1>7 DEF Subscriptions, LogsOf
<1> HIDE DEF o, v
<1> QED
  BY <1>1, <1>3, <1>4, <1>5, <1>8

LEMMA LoadDestEffect ==
  ASSUME Shaped, NEW c \in Contracts, NEW i \in Objects, LoadDest(c, i)
  PROVE  /\ i \in DOMAIN objs[c] /\ objs[c][i].pc = "dest"
         /\ \E o \in ObjectStates :
               /\ Set(c, i, o) /\ o.work = objs[c][i].work /\ o.data = objs[c][i].data
               /\ o.start = objs[c][i].start /\ o.pc = "vars" /\ o.half = chain[c].dest
<1>1. i \in DOMAIN objs[c] /\ objs[c][i].pc = "dest"
  BY DEF LoadDest, ObjAt
<1>2. objs[c][i] \in ObjectStates /\ chain[c].dest \in 0..1
  BY <1>1, ObjectKnown DEF Shaped, OnChain
<1> DEFINE o == [objs[c][i] EXCEPT !.pc = "vars", !.half = chain[c].dest]
<1>3. Set(c, i, o)
  BY DEF LoadDest
<1>4. o = HasDest(objs[c][i], chain[c].dest)
  BY DEF HasDest
<1> HIDE DEF o
<1>5. /\ o \in ObjectStates /\ o.work = objs[c][i].work /\ o.data = objs[c][i].data
      /\ o.start = objs[c][i].start /\ o.pc = "vars" /\ o.half = chain[c].dest
  BY <1>2, <1>4, HalfRead
<1> QED
  BY <1>1, <1>3, <1>5

LEMMA LoadVarsEffect ==
  ASSUME Shaped, NEW c \in Contracts, NEW i \in Objects, LoadVars(c, i)
  PROVE  /\ i \in DOMAIN objs[c] /\ objs[c][i].pc = "vars"
         /\ \E o \in ObjectStates :
               /\ Set(c, i, o) /\ o.pc = "listen" /\ o.start = FALSE
               /\ o.work = (IF objs[c][i].start THEN objs[c][i].work + 1 ELSE objs[c][i].work)
               /\ o.data.term = chain[c].term /\ o.data.dest = objs[c][i].half
<1>1. i \in DOMAIN objs[c] /\ objs[c][i].pc = "vars"
  BY DEF LoadVars, ObjAt
<1> DEFINE k == objs[c][i]
           d == Data(chain[c].term, chain[c].byMe, k.half)
           w == IF k.start THEN k.work + 1 ELSE k.work
           o == [k EXCEPT !.pc = "listen", !.half = 0, !.start = FALSE, !.data = d, !.work = w]
<1>2. k \in ObjectStates /\ d \in Datas /\ w \in Nat
  BY <1>1, ObjectKnown DEF Shaped, OnChain, Data, Datas
<1>3. d.term = chain[c].term /\ d.dest = k.half
  BY DEF Data
<1>4. Set(c, i, o)
  BY DEF LoadVars
<1> HIDE DEF d, w, k
<1>5. o = HasVars(k, d, w)
  BY DEF HasVars
<1> HIDE DEF o
<1>6. o \in ObjectStates /\ o.pc = "listen" /\ o.start = FALSE /\ o.work = w /\ o.data = d
  <2>1. \A r \in ObjectStates, e \in Datas, n \in Nat : \A z :
           z = HasVars(r, e, n) => /\ z \in ObjectStates /\ z.pc = "listen" /\ z.start = FALSE
                                   /\ z.work = n /\ z.data = e
    BY Reread
  <2>2. k \in ObjectStates
    BY <1>2
  <2>3. d \in Datas
    BY <1>2
  <2>4. w \in Nat
    BY <1>2
  <2> QED BY <1>5, <2>1, <2>2, <2>3, <2>4
<1> QED
  BY <1>1, <1>3, <1>4, <1>6 DEF w, k

LEMMA LoadFailsEffect ==
  ASSUME Shaped, NEW c \in Contracts, NEW i \in Objects, LoadFails(c, i)
  PROVE  /\ i \in DOMAIN objs[c]
         /\ \E o \in ObjectStates :
               /\ Set(c, i, o) /\ o.work = objs[c][i].work /\ o.data = objs[c][i].data
               /\ o.start = FALSE /\ o.pc = "listen"
<1>1. i \in DOMAIN objs[c]
  BY DEF LoadFails, ObjAt
<1>2. objs[c][i] \in ObjectStates
  BY <1>1, ObjectKnown
<1> DEFINE o == [objs[c][i] EXCEPT !.pc = "listen", !.half = 0, !.start = FALSE]
<1>3. Set(c, i, o)
  BY DEF LoadFails
<1>4. o = GivesUp(objs[c][i])
  BY DEF GivesUp
<1> HIDE DEF o
<1>5. /\ o \in ObjectStates /\ o.work = objs[c][i].work /\ o.data = objs[c][i].data
      /\ o.start = FALSE /\ o.pc = "listen"
  BY <1>2, <1>4, Unread
<1> QED
  BY <1>1, <1>3, <1>5

LEMMA StopsEffect ==
  ASSUME Shaped, NEW c \in Contracts, NEW i \in Objects, ListenerStops(c, i)
  PROVE  /\ i \in DOMAIN objs[c]
         /\ \E o \in ObjectStates :
               /\ Set(c, i, o) /\ o.work = objs[c][i].work /\ o.data = objs[c][i].data
               /\ o.start = objs[c][i].start /\ o.pc = "ended"
<1>1. i \in DOMAIN objs[c]
  BY DEF ListenerStops, ObjAt
<1>2. objs[c][i] \in ObjectStates
  BY <1>1, ObjectKnown
<1> DEFINE o == [objs[c][i] EXCEPT !.pc = "ended"]
<1>3. Set(c, i, o)
  BY DEF ListenerStops
<1>4. /\ o \in ObjectStates /\ o.work = objs[c][i].work /\ o.data = objs[c][i].data
      /\ o.start = objs[c][i].start /\ o.pc = "ended"
  BY <1>2 DEF ObjectStates
<1> HIDE DEF o
<1> QED
  BY <1>1, <1>3, <1>4

LEMMA EndsEffect ==
  ASSUME Shaped, NEW c \in Contracts, NEW i \in Objects,
         NEW why \in {"expired", "allocation", "context"}, FulfilmentEnds(c, i, why)
  PROVE  /\ i \in DOMAIN objs[c] /\ objs[c][i].work > 0
         /\ \E o \in ObjectStates :
               /\ Set(c, i, o) /\ o.work = objs[c][i].work - 1 /\ o.data = objs[c][i].data
               /\ o.start = objs[c][i].start /\ o.pc = objs[c][i].pc /\ o.half = objs[c][i].half
         /\ \/ chain' = Closed(c) /\ subs' = Published(<<>>, c, <<"closed">>) /\ UNCHANGED faults
            \/ UNCHANGED <<chain, subs, cancels>> /\ (Fault \/ UNCHANGED faults)
<1>1. i \in DOMAIN objs[c] /\ objs[c][i].work > 0
  BY DEF FulfilmentEnds
<1> DEFINE w == objs[c][i].work - 1
           o == [objs[c][i] EXCEPT !.work = w]
<1>2. objs[c][i] \in ObjectStates /\ w \in Nat
  BY <1>1, ObjectKnown
<1>3. Set(c, i, o)
  BY DEF FulfilmentEnds
<1> HIDE DEF w
<1>4. /\ o \in ObjectStates /\ o.work = w /\ o.data = objs[c][i].data
      /\ o.start = objs[c][i].start /\ o.pc = objs[c][i].pc /\ o.half = objs[c][i].half
  BY <1>2 DEF ObjectStates
<1>5. \/ chain' = Closed(c) /\ subs' = Published(<<>>, c, <<"closed">>) /\ UNCHANGED faults
      \/ UNCHANGED <<chain, subs, cancels>> /\ (Fault \/ UNCHANGED faults)
  BY DEF FulfilmentEnds
<1> HIDE DEF o
<1> QED
  BY <1>1, <1>3, <1>4, <1>5 DEF w

LEMMA FaultCounted ==
  ASSUME Shaped, Fault \/ UNCHANGED faults
  PROVE  faults' \in 0..MaxDrops
BY DiscoveryAssumption DEF Shaped, Fault

\* What is made of a contract that is read.
LEMMA NewObject ==
  ASSUME Shaped, NEW c \in Contracts, NEW b \in BOOLEAN, NEW h \in 0..1
  PROVE  LET o == Object(Data(chain[c].term, chain[c].byMe, h), b)
         IN /\ o \in ObjectStates /\ o.pc = "listen" /\ o.start = FALSE
            /\ o.work = (IF chain[c].term = 0 THEN 0 ELSE 1)
            /\ o.data.term = chain[c].term /\ o.data.dest = h
<1>1. chain[c].term \in 0..MaxRentals /\ chain[c].byMe \in BOOLEAN
  BY DEF Shaped, OnChain
<1> DEFINE d == Data(chain[c].term, chain[c].byMe, h)
<1>2. d \in Datas /\ d.term = chain[c].term /\ d.dest = h
  BY <1>1 DEF Data, Datas
<1> HIDE DEF d
<1>3. /\ Object(d, b) \in ObjectStates /\ Object(d, b).pc = "listen" /\ Object(d, b).start = FALSE
      /\ Object(d, b).work = (IF d.term = 0 THEN 0 ELSE 1) /\ Object(d, b).data = d
  BY <1>2 DEF Object, ObjectStates
<1> QED
  BY <1>2, <1>3 DEF d

\* A contract is read: it is passed over, or an object is made for it.
LEMMA ReadVarsEffect ==
  ASSUME Shaped, Reads, \A c \in Contracts : Counted(c), ReadVars
  PROVE  /\ mgr.cur \in Contracts /\ mgr.pc = "vars" /\ mgr' = Back
         /\ UNCHANGED <<isBuyer, chain, faults, cancels>>
         /\ \/ UNCHANGED <<objs, subs>>
            \/ /\ ~Ignore(mgr.cur)
               /\ Len(objs[mgr.cur]) \in Nat /\ Len(objs[mgr.cur]) + 1 \in Objects
               /\ \E o \in ObjectStates :
                     /\ objs' = [objs EXCEPT ![mgr.cur] = Append(objs[mgr.cur], o)]
                     /\ o.pc = "listen" /\ o.start = FALSE
                     /\ o.work = (IF chain[mgr.cur].term = 0 THEN 0 ELSE 1)
                     /\ o.data.term = chain[mgr.cur].term
                     /\ o.data.dest = (IF isBuyer THEN defaultDest ELSE mgr.half)
               /\ subs' = [subs EXCEPT ![<<mgr.cur, Len(objs[mgr.cur]) + 1>>].st = "init"]
<1> DEFINE c == mgr.cur
           h == IF isBuyer THEN defaultDest ELSE mgr.half
           b == ~Existing
           o == Object(Data(chain[c].term, chain[c].byMe, h), b)
<1>1. c \in Contracts /\ mgr.pc = "vars"
  BY DEF ReadVars, MgrAt, Reads
<1>2. h \in 0..1 /\ b \in BOOLEAN
  BY DEF Shaped, Managers, defaultDest
<1>3. Len(objs[c]) \in Nat
  BY <1>1, LenProperties DEF Shaped
<1>4. Len(objs[c]) + 1 \in Objects
  <2>1. Pending(c) \in Nat
    BY PlacesFinite DEF Shaped, Pending, Places
  <2>2. StillToRead(c)
    BY DEF StillToRead
  <2>3. Len(objs[c]) + Pending(c) + 1 <= MaxObjects
    BY <1>1, <2>2 DEF Counted, Uses
  <2> QED BY <1>3, <2>1, <2>3, DiscoveryAssumption DEF Objects
<1>5. mgr' = Back /\ UNCHANGED <<isBuyer, chain, faults, cancels>>
  BY DEF ReadVars, mgrUnchanged
<1>6. \/ UNCHANGED <<objs, subs>>
      \/ /\ ~Ignore(c) /\ objs' = [objs EXCEPT ![c] = Append(objs[c], o)]
         /\ subs' = [subs EXCEPT ![<<c, Len(objs[c]) + 1>>].st = "init"]
  BY DEF ReadVars
<1> HIDE DEF h, b, c
<1>7. /\ o \in ObjectStates /\ o.pc = "listen" /\ o.start = FALSE
      /\ o.work = (IF chain[c].term = 0 THEN 0 ELSE 1)
      /\ o.data.term = chain[c].term /\ o.data.dest = h
  <2>1. c \in Contracts /\ b \in BOOLEAN
    BY <1>1, <1>2
  <2>2. h \in 0..1
    BY <1>2
  <2> QED BY <2>1, <2>2, NewObject
<1> HIDE DEF o
<1> QED
  BY <1>1, <1>3, <1>4, <1>5, <1>6, <1>7 DEF c, h


\* The manager's record, one field at a time.
ManagerAt(m, p) == [m EXCEPT !.pc = p]
WithTodo(m, t) == [m EXCEPT !.todo = t]
WithKept(m, t) == [m EXCEPT !.kept = t]
WithCur(m, c) == [m EXCEPT !.cur = c]
WithHalf(m, h) == [m EXCEPT !.half = h]

LEMMA ManagerFields ==
  ASSUME NEW m \in Managers
  PROVE  /\ \A p \in {"list", "filter", "next", "dest", "vars", "select", "done"} :
               LET z == ManagerAt(m, p)
               IN z \in Managers /\ z.pc = p /\ z.todo = m.todo /\ z.kept = m.kept /\ z.cur = m.cur
         /\ \A t \in SUBSET Contracts :
               LET z == WithTodo(m, t)
               IN z \in Managers /\ z.pc = m.pc /\ z.todo = t /\ z.kept = m.kept /\ z.cur = m.cur
         /\ \A t \in SUBSET Contracts :
               LET z == WithKept(m, t)
               IN z \in Managers /\ z.pc = m.pc /\ z.todo = m.todo /\ z.kept = t /\ z.cur = m.cur
         /\ \A c \in Contracts \cup {0} :
               LET z == WithCur(m, c)
               IN z \in Managers /\ z.pc = m.pc /\ z.todo = m.todo /\ z.kept = m.kept /\ z.cur = c
         /\ \A h \in 0..1 :
               LET z == WithHalf(m, h)
               IN z \in Managers /\ z.pc = m.pc /\ z.todo = m.todo /\ z.kept = m.kept /\ z.cur = m.cur
<1>1. ASSUME NEW p \in {"list", "filter", "next", "dest", "vars", "select", "done"}
      PROVE  LET z == ManagerAt(m, p)
             IN z \in Managers /\ z.pc = p /\ z.todo = m.todo /\ z.kept = m.kept /\ z.cur = m.cur
  BY DEF Managers, ManagerAt
<1>2. ASSUME NEW t \in SUBSET Contracts
      PROVE  LET z == WithTodo(m, t)
             IN z \in Managers /\ z.pc = m.pc /\ z.todo = t /\ z.kept = m.kept /\ z.cur = m.cur
  BY DEF Managers, WithTodo
<1>3. ASSUME NEW t \in SUBSET Contracts
      PROVE  LET z == WithKept(m, t)
             IN z \in Managers /\ z.pc = m.pc /\ z.todo = m.todo /\ z.kept = t /\ z.cur = m.cur
  BY DEF Managers, WithKept
<1>4. ASSUME NEW c \in Contracts \cup {0}
      PROVE  LET z == WithCur(m, c)
             IN z \in Managers /\ z.pc = m.pc /\ z.todo = m.todo /\ z.kept = m.kept /\ z.cur = c
  BY DEF Managers, WithCur
<1>5. ASSUME NEW h \in 0..1
      PROVE  LET z == WithHalf(m, h)
             IN z \in Managers /\ z.pc = m.pc /\ z.todo = m.todo /\ z.kept = m.kept /\ z.cur = m.cur
  BY DEF Managers, WithHalf
<1> QED
  BY <1>1, <1>2, <1>3, <1>4, <1>5

\* What the steps of the manager make of its record.
LEMMA BackEffect ==
  ASSUME Shaped
  PROVE  /\ Back \in Managers /\ Back.pc = (IF Existing THEN "next" ELSE "select")
         /\ Back.cur = 0 /\ Back.todo = mgr.todo /\ Back.kept = mgr.kept
<1> DEFINE at == IF Existing THEN "next" ELSE "select"
           p == ManagerAt(mgr, at)
           q == WithCur(p, 0)
           r == WithHalf(q, 0)
<1>1. Back = r
  BY DEF Back, ManagerAt, WithCur, WithHalf
<1>2. mgr \in Managers
  BY DEF Shaped
<1>3. at \in {"next", "select"} /\ 0 \in 0..1
  OBVIOUS
<1> HIDE DEF at
<1>4. p \in Managers /\ p.pc = at /\ p.todo = mgr.todo /\ p.kept = mgr.kept
  BY <1>2, <1>3, ManagerFields
<1> HIDE DEF p
<1>5. q \in Managers /\ q.pc = at /\ q.todo = mgr.todo /\ q.kept = mgr.kept /\ q.cur = 0
  BY <1>4, ManagerFields
<1> HIDE DEF q
<1>6. r \in Managers /\ r.pc = at /\ r.todo = mgr.todo /\ r.kept = mgr.kept /\ r.cur = 0
  BY <1>3, <1>5, ManagerFields
<1> QED
  BY <1>1, <1>6 DEF at

LEMMA ReadContractsEffect ==
  ASSUME Shaped, ReadContracts
  PROVE  /\ mgr.pc = "list" /\ mgr' \in Managers /\ mgr'.pc = "filter"
         /\ mgr'.todo = {c \in Contracts : chain[c].made}
         /\ mgr'.kept = mgr.kept /\ mgr'.cur = mgr.cur
         /\ UNCHANGED <<isBuyer, chain, faults, subs, objs, cancels>>
<1> DEFINE t == {c \in Contracts : chain[c].made}
           p == ManagerAt(mgr, "filter")
           q == WithTodo(p, t)
<1>1. mgr' = q
  BY DEF ReadContracts, ManagerAt, WithTodo
<1>2. p \in Managers /\ p.pc = "filter" /\ p.kept = mgr.kept /\ p.cur = mgr.cur
  BY ManagerFields DEF Shaped
<1> HIDE DEF p
<1>3. q \in Managers /\ q.pc = "filter" /\ q.kept = mgr.kept /\ q.cur = mgr.cur /\ q.todo = t
  <2>1. t \in SUBSET Contracts
    OBVIOUS
  <2> HIDE DEF t
  <2> QED BY <1>2, <2>1, ManagerFields
<1> HIDE DEF q
<1> QED
  BY <1>1, <1>3 DEF ReadContracts, MgrAt, mgrUnchanged

LEMMA FilterEffect ==
  ASSUME Shaped, Filter
  PROVE  /\ mgr.pc = "filter" /\ mgr' \in Managers /\ mgr'.cur = mgr.cur
         /\ \/ mgr.todo = {} /\ mgr'.pc = "next" /\ mgr'.todo = mgr.kept /\ mgr'.kept = mgr.kept
            \/ \E c \in mgr.todo : /\ mgr'.pc = "filter" /\ mgr'.todo = mgr.todo \ {c}
                                   /\ mgr'.kept \in {mgr.kept, mgr.kept \cup {c}}
         /\ UNCHANGED <<isBuyer, chain, faults, subs, objs, cancels>>
<1>1. /\ mgr.pc = "filter" /\ mgr \in Managers /\ mgr.kept \in SUBSET Contracts
      /\ mgr.todo \in SUBSET Contracts /\ UNCHANGED <<isBuyer, chain, faults, subs, objs, cancels>>
  BY DEF Filter, MgrAt, mgrUnchanged, Shaped, Managers
<1>2. CASE mgr.todo = {}
  <2> DEFINE p == ManagerAt(mgr, "next")
             q == WithTodo(p, mgr.kept)
  <2>1. mgr' = q
    BY <1>2 DEF Filter, ManagerAt, WithTodo
  <2>2. p \in Managers /\ p.kept = mgr.kept /\ p.cur = mgr.cur /\ p.pc = "next"
    BY <1>1, ManagerFields
  <2> HIDE DEF p
  <2>3. q \in Managers /\ q.kept = mgr.kept /\ q.cur = mgr.cur /\ q.pc = "next" /\ q.todo = mgr.kept
    <3>1. mgr.kept \in SUBSET Contracts
      BY <1>1
    <3> QED BY <2>2, <3>1, ManagerFields
  <2> QED BY <1>1, <1>2, <2>1, <2>3
<1>3. CASE mgr.todo # {}
  <2>1. PICK c \in mgr.todo :
          LET own == IF isBuyer THEN chain[c].byMe ELSE chain[c].mine
          IN mgr' = [mgr EXCEPT !.todo = @ \ {c}, !.kept = IF own THEN @ \cup {c} ELSE @]
    BY <1>3 DEF Filter
  <2> DEFINE own == IF isBuyer THEN chain[c].byMe ELSE chain[c].mine
             k == IF own THEN mgr.kept \cup {c} ELSE mgr.kept
             t == mgr.todo \ {c}
             p == WithTodo(mgr, t)
             q == WithKept(p, k)
  <2>2. mgr' = q
    BY <2>1 DEF WithTodo, WithKept
  <2>3. k \in {mgr.kept, mgr.kept \cup {c}} /\ k \in SUBSET Contracts /\ t \in SUBSET Contracts
    BY <1>1, <2>1
  <2> HIDE DEF k, t
  <2>4. p \in Managers /\ p.kept = mgr.kept /\ p.cur = mgr.cur /\ p.pc = "filter" /\ p.todo = t
    <3>1. t \in SUBSET Contracts
      BY <2>3
    <3>2. mgr \in Managers
      BY <1>1
    <3>3. p \in Managers /\ p.pc = mgr.pc /\ p.todo = t /\ p.kept = mgr.kept /\ p.cur = mgr.cur
      BY <3>1, <3>2, ManagerFields
    <3> QED BY <1>1, <3>3
  <2> HIDE DEF p
  <2>5. q \in Managers /\ q.kept = k /\ q.cur = mgr.cur /\ q.pc = "filter" /\ q.todo = t
    <3>1. k \in SUBSET Contracts
      BY <2>3
    <3> QED BY <2>4, <3>1, ManagerFields
  <2> HIDE DEF q
  <2> QED BY <1>1, <2>1, <2>2, <2>3, <2>5 DEF t
<1> QED
  BY <1>2, <1>3

LEMMA NextEffect ==
  ASSUME Shaped, NextExisting
  PROVE  /\ mgr.pc = "next" /\ mgr' \in Managers /\ mgr'.kept = mgr.kept
         /\ UNCHANGED <<isBuyer, chain, faults, objs, cancels>>
         /\ \/ /\ mgr.todo = {} /\ mgr'.pc = "select" /\ mgr'.todo = {} /\ mgr'.cur = mgr.cur
               /\ \E v \in Subscriptions :
                     /\ subs' = [subs EXCEPT ![FactorySub] = v]
                     /\ v.st = "init" /\ v.logs = subs[FactorySub].logs
            \/ \E c \in mgr.todo : /\ mgr'.pc = "dest" /\ mgr'.todo = mgr.todo \ {c} /\ mgr'.cur = c
                                   /\ UNCHANGED subs
<1>1. /\ mgr.pc = "next" /\ mgr \in Managers /\ mgr.todo \in SUBSET Contracts
      /\ UNCHANGED <<isBuyer, chain, faults, objs, cancels>>
  BY DEF NextExisting, MgrAt, mgrUnchanged, Shaped, Managers
<1>2. CASE mgr.todo = {}
  <2> DEFINE v == [subs[FactorySub] EXCEPT !.st = "init"]
  <2>1. mgr' = ManagerAt(mgr, "select") /\ subs' = [subs EXCEPT ![FactorySub] = v]
    BY <1>2 DEF NextExisting, ManagerAt
  <2>2. v \in Subscriptions /\ v.st = "init" /\ v.logs = subs[FactorySub].logs
    BY SubsShape DEF Shaped, Subscriptions
  <2> HIDE DEF v
  <2> QED BY <1>1, <1>2, <2>1, <2>2, ManagerFields
<1>3. CASE mgr.todo # {}
  <2>1. PICK c \in mgr.todo : mgr' = [mgr EXCEPT !.pc = "dest", !.cur = c, !.todo = @ \ {c}]
    BY <1>3 DEF NextExisting
  <2> DEFINE t == mgr.todo \ {c}
             p == ManagerAt(mgr, "dest")
             q == WithCur(p, c)
             r == WithTodo(q, t)
  <2>2. mgr' = r
    BY <2>1 DEF ManagerAt, WithTodo, WithCur
  <2>3. t \in SUBSET Contracts /\ c \in Contracts
    BY <1>1, <2>1
  <2> HIDE DEF t
  <2>4. p \in Managers /\ p.pc = "dest" /\ p.kept = mgr.kept
    BY <1>1, ManagerFields
  <2> HIDE DEF p
  <2>5. q \in Managers /\ q.pc = "dest" /\ q.kept = mgr.kept /\ q.cur = c
    BY <2>3, <2>4, ManagerFields
  <2> HIDE DEF q
  <2>6. r \in Managers /\ r.pc = "dest" /\ r.kept = mgr.kept /\ r.cur = c /\ r.todo = t
    BY <2>3, <2>5, ManagerFields
  <2> HIDE DEF r
  <2>7. UNCHANGED subs
    BY <1>3 DEF NextExisting
  <2> QED BY <1>1, <2>1, <2>2, <2>6, <2>7 DEF t
<1> QED
  BY <1>2, <1>3

LEMMA TakeFactoryEffect ==
  ASSUME Shaped, TakeFactoryEvent
  PROVE  /\ mgr.pc = "select" /\ mgr' \in Managers /\ mgr'.pc = "dest"
         /\ mgr'.kept = mgr.kept /\ mgr'.todo = mgr.todo
         /\ subs[FactorySub].logs # <<>> /\ Head(subs[FactorySub].logs) \in Logs
         /\ mgr'.cur = Head(subs[FactorySub].logs)[2] /\ mgr'.cur \in Contracts
         /\ \E v \in Subscriptions : /\ subs' = [subs EXCEPT ![FactorySub] = v]
                                     /\ v.logs = Tail(subs[FactorySub].logs) /\ v.logs \in Seq(Logs)
                                     /\ v.st = subs[FactorySub].st
         /\ UNCHANGED <<isBuyer, chain, faults, objs, cancels>>
<1> DEFINE s == subs[FactorySub].logs
           v == [subs[FactorySub] EXCEPT !.logs = Tail(s)]
           c == Head(s)[2]
           p == ManagerAt(mgr, "dest")
           q == WithCur(p, c)
<1>1. /\ mgr.pc = "select" /\ mgr \in Managers /\ s # <<>> /\ s \in Seq(Logs)
      /\ FactorySub \in Subs /\ subs[FactorySub] \in Subscriptions
      /\ UNCHANGED <<isBuyer, chain, faults, objs, cancels>>
  BY SubsShape DEF TakeFactoryEvent, MgrAt, mgrUnchanged, Shaped
<1>2. Head(s) \in Logs /\ Tail(s) \in Seq(Logs)
  BY <1>1, HeadTailProperties
<1>3. Tail(s) \in Seq(AnyLog) /\ c \in Contracts
  BY <1>2, SeqMonotonic DEF AnyLog, Logs
<1>4. mgr' = q /\ subs' = [subs EXCEPT ![FactorySub] = v]
  BY DEF TakeFactoryEvent, ManagerAt, WithCur
<1>5. v \in Subscriptions /\ v.logs = Tail(s) /\ v.st = subs[FactorySub].st
  BY <1>1, <1>3 DEF Subscriptions
<1> HIDE DEF v
<1>6. p \in Managers /\ p.pc = "dest" /\ p.todo = mgr.todo /\ p.kept = mgr.kept
  BY <1>1, ManagerFields
<1> HIDE DEF p, c
<1>7. q \in Managers /\ q.pc = "dest" /\ q.todo = mgr.todo /\ q.kept = mgr.kept /\ q.cur = c
  <2>1. c \in Contracts \cup {0}
    BY <1>3
  <2> QED BY <1>6, <2>1, ManagerFields
<1> HIDE DEF q
<1> QED
  BY <1>1, <1>2, <1>3, <1>4, <1>5, <1>7 DEF c

LEMMA ReadDestEffect ==
  ASSUME Shaped, Reads, ReadDest
  PROVE  /\ mgr.pc = "dest" /\ mgr' \in Managers /\ mgr'.pc = "vars" /\ mgr.cur \in Contracts
         /\ mgr'.kept = mgr.kept /\ mgr'.todo = mgr.todo /\ mgr'.cur = mgr.cur
         /\ UNCHANGED <<isBuyer, chain, faults, subs, objs, cancels>>
<1> DEFINE h == chain[mgr.cur].dest
           p == ManagerAt(mgr, "vars")
           q == WithHalf(p, h)
<1>1. /\ mgr.pc = "dest" /\ mgr.cur \in Contracts /\ mgr \in Managers
      /\ UNCHANGED <<isBuyer, chain, faults, subs, objs, cancels>>
  BY DEF ReadDest, MgrAt, mgrUnchanged, Reads, Shaped
<1>2. h \in 0..1
  BY <1>1 DEF Shaped, OnChain
<1>3. mgr' = q
  BY DEF ReadDest, ManagerAt, WithHalf
<1> HIDE DEF h
<1>4. p \in Managers /\ p.pc = "vars" /\ p.todo = mgr.todo /\ p.kept = mgr.kept /\ p.cur = mgr.cur
  BY <1>1, ManagerFields
<1> HIDE DEF p
<1>5. q \in Managers /\ q.pc = "vars" /\ q.todo = mgr.todo /\ q.kept = mgr.kept /\ q.cur = mgr.cur
  BY <1>2, <1>4, ManagerFields
<1> HIDE DEF q
<1> QED
  BY <1>1, <1>3, <1>5

LEMMA DoneEffect ==
  ASSUME Shaped, ReadContractsFails \/ MgrStops
  PROVE  /\ mgr.pc \in {"list", "filter", "select"} /\ mgr' \in Managers /\ mgr'.pc = "done"
         /\ mgr'.kept = mgr.kept /\ mgr'.todo = mgr.todo /\ mgr'.cur = mgr.cur
         /\ UNCHANGED <<isBuyer, chain, subs, objs, cancels>> /\ (Fault \/ UNCHANGED faults)
<1>1. /\ mgr.pc \in {"list", "filter", "select"} /\ mgr' = ManagerAt(mgr, "done")
      /\ UNCHANGED <<isBuyer, chain, subs, objs, cancels>> /\ (Fault \/ UNCHANGED faults)
  BY DEF ReadContractsFails, MgrStops, MgrReturns, MgrAt, ManagerAt
<1>2. mgr \in Managers
  BY DEF Shaped
<1> QED
  BY <1>1, <1>2, ManagerFields

\* A contract's logs, and the state of its subscriptions, after a transaction or a step.
LEMMA ShapedFrom ==
  ASSUME Shaped, UNCHANGED isBuyer, faults' \in 0..MaxDrops, chain' \in [Contracts -> OnChain],
         objs' \in [Contracts -> Seq(ObjectStates)], mgr' \in Managers,
         \/ UNCHANGED subs
         \/ /\ subs' \in [Subs -> Subscriptions] /\ subs'[FactorySub].logs \in Seq(Logs)
            /\ \A c \in Contracts, i \in Objects : subs'[<<c, i>>].logs \in Seq(ContractEvents)
  PROVE  Shaped'
BY DEF Shaped, LogsOf

LEMMA ManagerShaped ==
  ASSUME Shaped, ManagerInv, ManagerSteps \/ ReadContractFails \/ ReadContractsFails \/ MgrStops
  PROVE  Shaped'
<1>1. /\ mgr \in Managers /\ objs \in [Contracts -> Seq(ObjectStates)] /\ chain \in [Contracts -> OnChain]
      /\ faults \in 0..MaxDrops
  BY DEF Shaped
<1>2. Reads /\ \A c \in Contracts : Counted(c)
  BY DEF ManagerInv
<1>3. FactorySub \in Subs /\ subs[FactorySub].logs \in Seq(Logs)
  BY SubsShape DEF Shaped
<1>4. CASE ReadContracts \/ Filter \/ ReadDest
  <2>1. mgr' \in Managers /\ UNCHANGED <<isBuyer, chain, faults, subs, objs>>
    BY <1>2, <1>4, ReadContractsEffect, FilterEffect, ReadDestEffect
  <2> QED BY <1>1, <2>1, ShapedFrom
<1>5. CASE ReadContractsFails \/ MgrStops
  <2>1. mgr' \in Managers /\ UNCHANGED <<isBuyer, chain, subs, objs>> /\ (Fault \/ UNCHANGED faults)
    BY <1>5, DoneEffect
  <2> QED BY <1>1, <2>1, FaultCounted, ShapedFrom
<1>6. CASE NextExisting \/ TakeFactoryEvent
  <2>1. mgr' \in Managers /\ UNCHANGED <<isBuyer, chain, faults, objs>>
    BY <1>6, NextEffect, TakeFactoryEffect
  <2>2. UNCHANGED subs \/ \E v \in Subscriptions : subs' = [subs EXCEPT ![FactorySub] = v] /\ v.logs \in Seq(Logs)
    BY <1>3, <1>6, NextEffect, TakeFactoryEffect
  <2>3. CASE UNCHANGED subs
    BY <1>1, <2>1, <2>3, ShapedFrom
  <2>4. CASE \E v \in Subscriptions : subs' = [subs EXCEPT ![FactorySub] = v] /\ v.logs \in Seq(Logs)
    <3>1. /\ subs' \in [Subs -> Subscriptions] /\ subs'[FactorySub].logs \in Seq(Logs)
          /\ \A c \in Contracts, i \in Objects : subs'[<<c, i>>].logs \in Seq(ContractEvents)
      BY <1>3, <2>4, SubsChange
    <3> QED BY <1>1, <2>1, <3>1, ShapedFrom
  <2> QED BY <2>2, <2>3, <2>4
<1>7. CASE ReadContractFails
  <2>1. mgr' = Back /\ (Fault \/ UNCHANGED faults) /\ UNCHANGED <<isBuyer, chain, subs, objs>>
    BY <1>7 DEF ReadContractFails, mgrUnchanged
  <2>2. faults' \in 0..MaxDrops /\ mgr' \in Managers
    BY <2>1, FaultCounted, BackEffect
  <2> QED BY <1>1, <2>1, <2>2, ShapedFrom
<1>8. CASE ReadVars
  <2>1. mgr' \in Managers /\ UNCHANGED <<isBuyer, chain, faults>> /\ mgr.cur \in Contracts
    BY <1>2, <1>8, ReadVarsEffect, BackEffect
  <2>2. CASE UNCHANGED <<objs, subs>>
    BY <1>1, <2>1, <2>2, ShapedFrom
  <2>3. CASE ~UNCHANGED <<objs, subs>>
    <3> DEFINE c == mgr.cur
               n == Len(objs[c]) + 1
               v == [subs[<<c, n>>] EXCEPT !.st = "init"]
    <3>1. PICK o \in ObjectStates : objs' = [objs EXCEPT ![c] = Append(objs[c], o)]
      BY <1>2, <1>8, <2>3, ReadVarsEffect
    <3>2. n \in Objects /\ subs' = [subs EXCEPT ![<<c, n>>] = v]
      BY <1>2, <1>8, <2>3, ReadVarsEffect
    <3>3. Append(objs[c], o) \in Seq(ObjectStates)
      BY <1>1, <2>1, AppendProperties
    <3>4. objs' \in [Contracts -> Seq(ObjectStates)]
      BY <1>1, <3>1, <3>3
    <3>5. <<c, n>> \in Subs /\ <<c, n>> # FactorySub /\ subs[<<c, n>>] \in Subscriptions
          /\ subs[<<c, n>>].logs \in Seq(ContractEvents)
      BY <2>1, <3>2, SubsShape DEF Shaped, LogsOf
    <3>6. v \in Subscriptions /\ v.logs \in Seq(ContractEvents)
      BY <3>5 DEF Subscriptions
    <3> HIDE DEF v, n
    <3>7. /\ subs' \in [Subs -> Subscriptions] /\ subs'[FactorySub].logs \in Seq(Logs)
          /\ \A d \in Contracts, i \in Objects : subs'[<<d, i>>].logs \in Seq(ContractEvents)
      BY <3>2, <3>5, <3>6, SubsChange
    <3> QED BY <1>1, <2>1, <3>4, <3>7, ShapedFrom
  <2> QED BY <2>2, <2>3
<1> QED
  BY <1>4, <1>5, <1>6, <1>7, <1>8 DEF ManagerSteps

\* A contract is changed, and its logs are emitted.
LEMMA Emits ==
  ASSUME NEW c \in Contracts,
         \/ \E mine \in BOOLEAN : Create(c, mine)
         \/ \E me \in BOOLEAN : Purchase(c, me)
         \/ \E update \in BOOLEAN : CloseElsewhere(c, update)
  PROVE  /\ UNCHANGED <<appVars, isBuyer, faults, mgr, objs, cancels>>
         /\ \E fs \in Seq(Logs), es \in Seq(ContractEvents) : subs' = Published(fs, c, es)
<1>1. UNCHANGED <<appVars, isBuyer, faults, mgr, objs, cancels>>
  BY DEF Create, Purchase, CloseElsewhere, chainUnchanged
<1>2. /\ <<"created", c>> \in Logs /\ <<"purchased", c>> \in Logs
      /\ {"purchased", "closed", "updated"} \subseteq ContractEvents
  BY DEF Logs, FactoryEvents, ContractEvents
<1>3. <<<<"created", c>>>> \in Seq(Logs) /\ <<<<"purchased", c>>>> \in Seq(Logs) /\ <<>> \in Seq(Logs)
  BY <1>2
<1>4. /\ <<>> \in Seq(ContractEvents) /\ <<"purchased">> \in Seq(ContractEvents)
      /\ <<"closed">> \in Seq(ContractEvents) /\ <<"closed", "updated">> \in Seq(ContractEvents)
  BY <1>2
<1>5. ASSUME NEW mine \in BOOLEAN, Create(c, mine)
      PROVE  \E fs \in Seq(Logs), es \in Seq(ContractEvents) : subs' = Published(fs, c, es)
  BY <1>3, <1>4, <1>5 DEF Create
<1>6. ASSUME NEW me \in BOOLEAN, Purchase(c, me)
      PROVE  \E fs \in Seq(Logs), es \in Seq(ContractEvents) : subs' = Published(fs, c, es)
  BY <1>3, <1>4, <1>6 DEF Purchase
<1>7. ASSUME NEW update \in BOOLEAN, CloseElsewhere(c, update)
      PROVE  \E fs \in Seq(Logs), es \in Seq(ContractEvents) : subs' = Published(fs, c, es)
  BY <1>3, <1>4, <1>7 DEF CloseElsewhere
<1> QED
  BY <1>1, <1>5, <1>6, <1>7

\* A subscription is made, or breaks and keeps at most one log.
LEMMA SubEffect ==
  ASSUME Shaped, NEW s \in Subs, SubConnects(s) \/ SubBreaks(s)
  PROVE  /\ UNCHANGED <<appVars, isBuyer, chain, mgr, objs, cancels>>
         /\ Fault \/ UNCHANGED faults
         /\ subs[s].st \in {"init", "live"}
         /\ \E v \in Subscriptions :
               /\ subs' = [subs EXCEPT ![s] = v] /\ v.st \in {"init", "live"}
               /\ \E n \in 0..Len(subs[s].logs) : v.logs = SubSeq(subs[s].logs, 1, n)
               /\ IF s = FactorySub THEN v.logs \in Seq(Logs) ELSE v.logs \in Seq(ContractEvents)
<1> DEFINE u == subs[s]
           own == IF s = FactorySub THEN Logs ELSE ContractEvents
<1>1. u \in Subscriptions /\ u.logs \in Seq(own)
  BY SubsShape DEF Shaped, LogsOf
<1>2. /\ UNCHANGED <<appVars, isBuyer, chain, mgr, objs, cancels>> /\ (Fault \/ UNCHANGED faults)
      /\ u.st \in {"init", "live"}
  BY DEF SubConnects, SubBreaks, subUnchanged
<1>3. Len(u.logs) \in Nat /\ SubSeq(u.logs, 1, Len(u.logs)) = u.logs
  BY <1>1, LenProperties, SubSeqProperties
<1>4. Seq(own) \subseteq Seq(AnyLog)
  BY SeqMonotonic DEF AnyLog
<1>5. CASE SubConnects(s)
  <2> DEFINE v == [u EXCEPT !.st = "live"]
  <2>1. subs' = [subs EXCEPT ![s] = v]
    BY <1>5 DEF SubConnects
  <2>2. v \in Subscriptions /\ v.st = "live" /\ v.logs = u.logs
    BY <1>1 DEF Subscriptions
  <2> HIDE DEF v
  <2>3. \E n \in 0..Len(u.logs) : v.logs = SubSeq(u.logs, 1, n)
    BY <1>3, <2>2
  <2> QED BY <1>1, <1>2, <2>1, <2>2, <2>3
<1>6. CASE SubBreaks(s)
  <2>1. PICK n \in {0, 1} : /\ n <= Len(u.logs)
                            /\ subs' = [subs EXCEPT ![s] = [st |-> "init", logs |-> SubSeq(u.logs, 1, n)]]
    BY <1>6 DEF SubBreaks
  <2> DEFINE v == [st |-> "init", logs |-> SubSeq(u.logs, 1, n)]
  <2>2. n \in 0..Len(u.logs)
    BY <1>3, <2>1
  <2>3. SubSeq(u.logs, 1, n) \in Seq(own)
    <3> DEFINE w == u.logs
    <3>1. w \in Seq(own) /\ Len(w) \in Nat /\ n \in 0..Len(w)
      BY <1>1, <1>3, <2>2
    <3> HIDE DEF own, w
    <3>2. DOMAIN w = 1..Len(w) /\ \A k \in 1..Len(w) : w[k] \in own
      BY <3>1, LenProperties, ElementOfSeq
    <3>3. SubSeq(w, 1, n) \in Seq(own)
      BY <3>1, <3>2, SubSeqProperties
    <3> QED BY <3>3 DEF w
  <2>4. v \in Subscriptions /\ v.st = "init" /\ v.logs = SubSeq(u.logs, 1, n)
    BY <1>4, <2>3 DEF Subscriptions
  <2>5. subs' = [subs EXCEPT ![s] = v]
    BY <2>1
  <2> HIDE DEF v
  <2> QED BY <1>2, <2>2, <2>3, <2>4, <2>5
<1> QED
  BY <1>5, <1>6

LEMMA ShapedStep ==
  ASSUME Shaped, ManagerInv, [DiscoveryNext]_discoveryVars
  PROVE  Shaped'
<1>1. /\ mgr \in Managers /\ objs \in [Contracts -> Seq(ObjectStates)]
      /\ faults \in 0..MaxDrops
  BY DEF Shaped
<1>2. chain' \in [Contracts -> OnChain]
  BY ChainSafe DEF ManagerInv
<1>3. ASSUME UNCHANGED <<isBuyer, faults, subs, mgr, objs>> PROVE Shaped'
  BY <1>1, <1>2, <1>3, ShapedFrom
<1>4. CASE AppNext /\ UNCHANGED <<isBuyer, chain, faults, subs, mgr, objs, lost, cancels>>
  BY <1>3, <1>4
<1>5. CASE MgrPanics
  BY <1>3, <1>5 DEF MgrPanics, ZeroLog
<1>6. CASE ManagerSteps \/ ReadContractFails \/ ReadContractsFails \/ MgrStops
  BY <1>6, ManagerShaped
<1>7. ASSUME NEW s \in Subs, SubConnects(s) \/ SubBreaks(s) PROVE Shaped'
  <2>1. UNCHANGED <<isBuyer, mgr, objs>> /\ faults' \in 0..MaxDrops
    BY <1>7, SubEffect, FaultCounted
  <2>2. PICK v \in Subscriptions :
           /\ subs' = [subs EXCEPT ![s] = v]
           /\ IF s = FactorySub THEN v.logs \in Seq(Logs) ELSE v.logs \in Seq(ContractEvents)
    BY <1>7, SubEffect
  <2>3. /\ subs' \in [Subs -> Subscriptions] /\ subs'[FactorySub].logs \in Seq(Logs)
        /\ \A c \in Contracts, i \in Objects : subs'[<<c, i>>].logs \in Seq(ContractEvents)
    BY <2>2, SubsChange
  <2> QED BY <1>1, <1>2, <2>1, <2>3, ShapedFrom
<1>8. ASSUME NEW c \in Contracts,
             \/ \E mine \in BOOLEAN : Create(c, mine)
             \/ \E me \in BOOLEAN : Purchase(c, me)
             \/ \E update \in BOOLEAN : CloseElsewhere(c, update)
      PROVE  Shaped'
  <2>1. UNCHANGED <<isBuyer, faults, mgr, objs>>
    BY <1>8, Emits
  <2>2. PICK fs \in Seq(Logs), es \in Seq(ContractEvents) : subs' = Published(fs, c, es)
    BY <1>8, Emits
  <2>3. /\ subs' \in [Subs -> Subscriptions] /\ subs'[FactorySub].logs \in Seq(Logs)
        /\ \A d \in Contracts, i \in Objects : subs'[<<d, i>>].logs \in Seq(ContractEvents)
    BY <2>2, PublishedLogs
  <2> QED BY <1>1, <1>2, <2>1, <2>3, ShapedFrom
<1>9. ASSUME NEW c \in Contracts, TermEnds(c) PROVE Shaped'
  BY <1>3, <1>9 DEF TermEnds, chainUnchanged
<1>10. ASSUME NEW c \in Contracts, NEW i \in Objects, ListenerPanics(c, i) PROVE Shaped'
  BY <1>3, <1>10 DEF ListenerPanics, ZeroLog
<1>11. ASSUME NEW c \in Contracts, NEW i \in Objects,
              \/ LoadDest(c, i) \/ LoadVars(c, i) \/ LoadFails(c, i) \/ ListenerStops(c, i)
       PROVE  Shaped'
  <2>1. /\ UNCHANGED <<isBuyer, mgr, subs>> /\ (Fault \/ UNCHANGED faults)
        /\ i \in DOMAIN objs[c] /\ \E o \in ObjectStates : Set(c, i, o)
    <3>1. UNCHANGED <<isBuyer, mgr, subs>> /\ (Fault \/ UNCHANGED faults)
      BY <1>11 DEF LoadDest, LoadVars, LoadFails, ListenerStops, objUnchanged
    <3>2. i \in DOMAIN objs[c] /\ \E o \in ObjectStates : Set(c, i, o)
      BY <1>11, LoadDestEffect, LoadVarsEffect, LoadFailsEffect, StopsEffect, ZenonT(30)
    <3> QED BY <3>1, <3>2
  <2>2. objs' \in [Contracts -> Seq(ObjectStates)] /\ faults' \in 0..MaxDrops
    BY <2>1, SetObject, FaultCounted
  <2> QED BY <1>1, <1>2, <2>1, <2>2, ShapedFrom
<1>12. ASSUME NEW c \in Contracts, NEW i \in Objects, TakeContractEvent(c, i) PROVE Shaped'
  <2>1. UNCHANGED <<isBuyer, mgr, faults>>
    BY <1>12 DEF TakeContractEvent, objUnchanged
  <2>2. i \in DOMAIN objs[c] /\ \E o \in ObjectStates : Set(c, i, o)
    BY <1>12, TakeEffect
  <2>3. \E v \in Subscriptions : subs' = [subs EXCEPT ![<<c, i>>] = v] /\ v.logs \in Seq(ContractEvents)
    BY <1>12, TakeEffect
  <2>4. /\ subs' \in [Subs -> Subscriptions] /\ subs'[FactorySub].logs \in Seq(Logs)
        /\ \A d \in Contracts, j \in Objects : subs'[<<d, j>>].logs \in Seq(ContractEvents)
    BY <2>3, SubsShape, SubsChange
  <2>5. objs' \in [Contracts -> Seq(ObjectStates)]
    BY <2>2, SetObject
  <2> QED BY <1>1, <1>2, <2>1, <2>4, <2>5, ShapedFrom
<1>13. ASSUME NEW c \in Contracts, NEW i \in Objects,
              NEW why \in {"expired", "allocation", "context"}, FulfilmentEnds(c, i, why)
       PROVE  Shaped'
  <2>1. UNCHANGED <<isBuyer, mgr>>
    BY <1>13 DEF FulfilmentEnds, objUnchanged
  <2>2. i \in DOMAIN objs[c] /\ \E o \in ObjectStates : Set(c, i, o)
    BY <1>13, EndsEffect
  <2>3. objs' \in [Contracts -> Seq(ObjectStates)]
    BY <2>2, SetObject
  <2>4. /\ subs' = Published(<<>>, c, <<"closed">>) \/ UNCHANGED subs
        /\ faults' \in 0..MaxDrops
    BY <1>13, EndsEffect, FaultCounted
  <2>5. CASE subs' = Published(<<>>, c, <<"closed">>)
    <3>1. <<>> \in Seq(Logs) /\ <<"closed">> \in Seq(ContractEvents)
      BY DEF ContractEvents
    <3>2. /\ subs' \in [Subs -> Subscriptions] /\ subs'[FactorySub].logs \in Seq(Logs)
          /\ \A d \in Contracts, j \in Objects : subs'[<<d, j>>].logs \in Seq(ContractEvents)
      BY <2>5, <3>1, PublishedLogs
    <3> QED BY <1>1, <1>2, <2>1, <2>3, <2>4, <3>2, ShapedFrom
  <2>6. CASE UNCHANGED subs
    BY <1>1, <1>2, <2>1, <2>3, <2>4, <2>6, ShapedFrom
  <2> QED BY <2>4, <2>5, <2>6
<1>14. CASE UNCHANGED discoveryVars
  BY <1>3, <1>14 DEF discoveryVars
<1> QED
  BY <1>4, <1>5, <1>6, <1>7, <1>8, <1>9, <1>10, <1>11, <1>12, <1>13, <1>14 DEF DiscoveryNext

\* What the transactions make of the contract they are about.
LEMMA ClosedFields ==
  ASSUME Shaped, NEW c \in Contracts, chain' = Closed(c)
  PROVE  /\ chain'[c].term = 0 /\ chain'[c].dest = 0 /\ chain'[c].sold = chain[c].sold
         /\ chain'[c].ended = chain[c].ended /\ chain'[c].made = chain[c].made
         /\ \A d \in Contracts : d # c => chain'[d] = chain[d]
<1> DEFINE p == [chain[c] EXCEPT !.term = 0]
           q == [p EXCEPT !.byMe = FALSE]
           r == [q EXCEPT !.dest = 0]
<1>1. chain' = [chain EXCEPT ![c] = r]
  BY DEF Closed
<1>2. chain[c] \in OnChain /\ chain \in [Contracts -> OnChain]
  BY DEF Shaped
<1>3. /\ p \in OnChain /\ p.term = 0 /\ p.sold = chain[c].sold /\ p.ended = chain[c].ended
      /\ p.made = chain[c].made
  BY <1>2, DiscoveryAssumption DEF OnChain
<1> HIDE DEF p
<1>4. /\ q \in OnChain /\ q.term = 0 /\ q.sold = chain[c].sold /\ q.ended = chain[c].ended
      /\ q.made = chain[c].made
  BY <1>3 DEF OnChain
<1> HIDE DEF q
<1>5. /\ r.term = 0 /\ r.sold = chain[c].sold /\ r.ended = chain[c].ended
      /\ r.made = chain[c].made /\ r.dest = 0
  BY <1>4 DEF OnChain
<1> HIDE DEF r
<1> QED
  BY <1>1, <1>2, <1>5

LEMMA PurchaseFields ==
  ASSUME Shaped, NEW c \in Contracts, NEW me \in BOOLEAN, Purchase(c, me)
  PROVE  /\ chain'[c].sold = chain[c].sold + 1 /\ chain'[c].term = chain[c].sold + 1
         /\ chain'[c].dest = 1 /\ chain'[c].ended = chain[c].ended /\ chain'[c].made
         /\ \A d \in Contracts : d # c => chain'[d] = chain[d]
<1> DEFINE n == chain[c].sold + 1
           p == [chain[c] EXCEPT !.sold = n]
           q == [p EXCEPT !.term = n]
           u == [q EXCEPT !.byMe = me]
           r == [u EXCEPT !.dest = 1]
<1>1. chain' = [chain EXCEPT ![c] = r]
  <2>1. chain' = [chain EXCEPT ![c] = [chain[c] EXCEPT !.sold = chain[c].sold + 1,
                               !.term = chain[c].sold + 1, !.byMe = me, !.dest = 1]]
    BY DEF Purchase
  <2> QED BY <2>1
<1>2. /\ chain[c] \in OnChain /\ chain \in [Contracts -> OnChain] /\ chain[c].made
      /\ n \in 0..MaxRentals
  BY DiscoveryAssumption DEF Shaped, OnChain, Purchase
<1> HIDE DEF n
<1>3. p \in OnChain /\ p.sold = n /\ p.ended = chain[c].ended /\ p.made
  BY <1>2 DEF OnChain
<1> HIDE DEF p
<1>4. q \in OnChain /\ q.sold = n /\ q.ended = chain[c].ended /\ q.made /\ q.term = n
  BY <1>2, <1>3 DEF OnChain
<1> HIDE DEF q
<1>5. u \in OnChain /\ u.sold = n /\ u.ended = chain[c].ended /\ u.made /\ u.term = n
  BY <1>4 DEF OnChain
<1> HIDE DEF u
<1>6. r.sold = n /\ r.ended = chain[c].ended /\ r.made /\ r.term = n /\ r.dest = 1
  BY <1>5 DEF OnChain
<1> HIDE DEF r
<1> QED
  BY <1>1, <1>2, <1>6 DEF n

LEMMA CreateFields ==
  ASSUME Shaped, NEW c \in Contracts, NEW mine \in BOOLEAN, Create(c, mine)
  PROVE  /\ chain'[c].term = chain[c].term /\ chain'[c].dest = chain[c].dest
         /\ chain'[c].sold = chain[c].sold /\ chain'[c].ended = chain[c].ended /\ chain'[c].made
         /\ \A d \in Contracts : d # c => chain'[d] = chain[d]
<1> DEFINE p == [chain[c] EXCEPT !.made = TRUE]
           r == [p EXCEPT !.mine = mine]
<1>1. chain' = [chain EXCEPT ![c] = r]
  BY DEF Create, Shaped
<1>2. chain[c] \in OnChain /\ chain \in [Contracts -> OnChain]
  BY DEF Shaped
<1>3. /\ p \in OnChain /\ p.term = chain[c].term /\ p.sold = chain[c].sold /\ p.ended = chain[c].ended
      /\ p.dest = chain[c].dest /\ p.made = TRUE
  BY <1>2 DEF OnChain
<1> HIDE DEF p
<1>4. /\ r.term = chain[c].term /\ r.sold = chain[c].sold /\ r.ended = chain[c].ended
      /\ r.made = TRUE /\ r.dest = chain[c].dest
  BY <1>3 DEF OnChain
<1> HIDE DEF r
<1> QED
  BY <1>1, <1>2, <1>4

LEMMA TermEndsFields ==
  ASSUME Shaped, NEW c \in Contracts, TermEnds(c)
  PROVE  /\ chain'[c].term = chain[c].term /\ chain'[c].dest = chain[c].dest
         /\ chain'[c].sold = chain[c].sold /\ chain'[c].made = chain[c].made
         /\ chain'[c].ended = chain[c].term
         /\ \A d \in Contracts : d # c => chain'[d] = chain[d]
<1> DEFINE r == [chain[c] EXCEPT !.ended = chain[c].term]
<1>1. chain' = [chain EXCEPT ![c] = r]
  BY DEF TermEnds
<1>2. chain[c] \in OnChain /\ chain \in [Contracts -> OnChain]
  BY DEF Shaped
<1>3. /\ r.term = chain[c].term /\ r.sold = chain[c].sold /\ r.ended = chain[c].term
      /\ r.made = chain[c].made /\ r.dest = chain[c].dest
  BY <1>2 DEF OnChain
<1> HIDE DEF r
<1> QED
  BY <1>1, <1>2, <1>3

\* While the manager does nothing: its reads stay as they are, ...
LEMMA ReadsKept ==
  ASSUME Reads, UNCHANGED mgr,
         subs'[FactorySub].st = "off" <=> subs[FactorySub].st = "off"
  PROVE  Reads'
BY DEF Reads, Existing

\* ... and so does what is counted.
LEMMA UsesTyped ==
  ASSUME Shaped, NEW c \in Contracts
  PROVE  /\ Len(objs[c]) \in Nat /\ Pending(c) \in Nat /\ chain[c].sold \in Nat
         /\ Pending(c) = Cardinality(Places(subs[FactorySub].logs, c))
         /\ objs[c] = <<>> <=> Len(objs[c]) = 0
<1>1. objs[c] \in Seq(ObjectStates) /\ chain[c] \in OnChain /\ subs[FactorySub].logs \in Seq(Logs)
  BY DEF Shaped
<1>2. Pending(c) = Cardinality(Places(subs[FactorySub].logs, c))
  BY DEF Pending, Places
<1>3. Pending(c) \in Nat /\ chain[c].sold \in Nat
  BY <1>1, <1>2, PlacesFinite DEF OnChain
<1>4. Len(objs[c]) \in Nat /\ (objs[c] = <<>> <=> Len(objs[c]) = 0)
  BY <1>1, LenProperties, EmptySeq
<1> QED
  BY <1>2, <1>3, <1>4

LEMMA UsesTypedNext ==
  ASSUME Shaped', NEW c \in Contracts
  PROVE  /\ Len(objs'[c]) \in Nat /\ Pending(c)' \in Nat /\ chain'[c].sold \in Nat
         /\ Pending(c)' = Cardinality(Places(subs'[FactorySub].logs, c))
         /\ objs'[c] = <<>> <=> Len(objs'[c]) = 0
<1>1. objs'[c] \in Seq(ObjectStates) /\ chain'[c] \in OnChain /\ subs'[FactorySub].logs \in Seq(Logs)
  BY DEF Shaped
<1>2. Pending(c)' = Cardinality(Places(subs'[FactorySub].logs, c))
  BY DEF Pending, Places
<1>3. Pending(c)' \in Nat /\ chain'[c].sold \in Nat
  BY <1>1, <1>2, PlacesFinite DEF OnChain
<1>4. Len(objs'[c]) \in Nat /\ (objs'[c] = <<>> <=> Len(objs'[c]) = 0)
  BY <1>1, LenProperties, EmptySeq
<1> QED
  BY <1>2, <1>3, <1>4

LEMMA CountedKept ==
  ASSUME Shaped, Shaped', NEW c \in Contracts, Counted(c),
         Len(objs'[c]) = Len(objs[c]), Pending(c)' <= Pending(c),
         StillToRead(c)' => StillToRead(c),
         chain'[c].sold >= chain[c].sold, ~chain'[c].made => ~chain[c].made,
         ~chain[c].made /\ StillToRead(c)' => mgr'.pc = "list"
  PROVE  Counted(c)'
<1>1. /\ Len(objs[c]) \in Nat /\ Pending(c) \in Nat /\ chain[c].sold \in Nat
      /\ (objs[c] = <<>> <=> Len(objs[c]) = 0)
  BY UsesTyped
<1>2. /\ Pending(c)' \in Nat /\ chain'[c].sold \in Nat /\ MaxObjects \in Nat
      /\ (objs'[c] = <<>> <=> Len(objs'[c]) = 0)
  BY UsesTypedNext, DiscoveryAssumption
<1> DEFINE a == Len(objs[c])
           b == Pending(c)
           k == IF StillToRead(c) THEN 1 ELSE 0
           x == Len(objs'[c])
           y == Pending(c)'
           l == IF StillToRead(c)' THEN 1 ELSE 0
<1>3. Uses(c) = a + b + k /\ Uses(c)' = x + y + l
  BY DEF Uses
<1>4. a \in Nat /\ b \in Nat /\ x \in Nat /\ y \in Nat /\ x = a /\ y <= b
  BY <1>1, <1>2
<1>5. k \in Nat /\ l \in Nat /\ l <= k
  OBVIOUS
<1> HIDE DEF a, b, k, x, y, l
<1>6. Uses(c) <= chain[c].sold + 1 /\ Uses(c) <= MaxObjects
  BY DEF Counted
<1> DEFINE m == chain[c].sold
           n == chain'[c].sold
<1>7. Uses(c)' <= chain'[c].sold + 1 /\ Uses(c)' <= MaxObjects
  <2>1. m \in Nat /\ n \in Nat /\ m <= n
    BY <1>1, <1>2
  <2>2. a + b + k <= m + 1 /\ a + b + k <= MaxObjects
    BY <1>3, <1>6
  <2> HIDE DEF m, n
  <2>3. x + y + l <= n + 1 /\ x + y + l <= MaxObjects
    BY <1>2, <1>4, <1>5, <2>1, <2>2
  <2> QED BY <1>3, <2>3 DEF n
<1>8. ASSUME ~chain'[c].made
      PROVE  objs'[c] = <<>> /\ Pending(c)' = 0 /\ (StillToRead(c)' => mgr'.pc = "list")
  <2>1. ~chain[c].made /\ Len(objs[c]) = 0 /\ Pending(c) = 0
    BY <1>1, <1>8 DEF Counted
  <2> QED BY <1>2, <2>1
<1> QED
  BY <1>7, <1>8 DEF Counted

\* A step that leaves the manager alone, and what it is told.
LEMMA QuietStep ==
  ASSUME Shaped, Shaped', ManagerInv, UNCHANGED mgr,
         subs'[FactorySub].st = "off" <=> subs[FactorySub].st = "off",
         \A c \in Contracts :
            /\ Pending(c)' <= Pending(c)
            /\ Len(objs'[c]) = Len(objs[c]) /\ chain'[c].sold >= chain[c].sold
            /\ ~chain'[c].made => ~chain[c].made
            /\ Rented(c)'
  PROVE  ManagerInv'
<1>1. Reads'
  BY ReadsKept DEF ManagerInv
<1>2. ASSUME NEW c \in Contracts PROVE Counted(c)'
  <2>1. StillToRead(c)' <=> StillToRead(c)
    BY DEF StillToRead
  <2>2. Counted(c)
    BY DEF ManagerInv
  <2>3. ~chain[c].made /\ StillToRead(c)' => mgr'.pc = "list"
    BY <2>1, <2>2 DEF Counted
  <2> QED BY <2>1, <2>2, <2>3, CountedKept
<1> QED
  BY <1>1, <1>2 DEF ManagerInv

\* A step of the manager that makes no object and takes no event.
LEMMA ReadingStep ==
  ASSUME Shaped, Shaped', ManagerInv, Reads', UNCHANGED <<chain, objs>>,
         subs'[FactorySub].logs = subs[FactorySub].logs,
         \A c \in Contracts : /\ StillToRead(c)' => StillToRead(c)
                              /\ mgr.pc = "list" /\ ~chain[c].made => ~StillToRead(c)'
  PROVE  ManagerInv'
<1>1. ASSUME NEW c \in Contracts PROVE Counted(c)' /\ Rented(c)'
  <2>1. Counted(c) /\ Rented(c)
    BY DEF ManagerInv
  <2>2. Pending(c)' <= Pending(c)
    <3>1. Pending(c)' = Pending(c) /\ Pending(c) \in Nat
      BY UsesTyped DEF Pending
    <3> QED BY <3>1
  <2>3. ~chain[c].made => ~StillToRead(c)'
    BY <2>1 DEF Counted
  <2>4. chain'[c].sold >= chain[c].sold
    BY UsesTyped
  <2>5. Counted(c)'
    BY <2>1, <2>2, <2>3, <2>4, CountedKept
  <2>6. Rented(c)'
    BY <2>1 DEF Rented
  <2> QED BY <2>5, <2>6
<1> QED
  BY <1>1 DEF ManagerInv

LEMMA ManagerReads ==
  ASSUME Shaped, Shaped', ManagerInv,
         \/ ReadContracts \/ Filter \/ NextExisting \/ ReadDest \/ ReadContractFails
         \/ ReadContractsFails \/ MgrStops
  PROVE  ManagerInv'
<1>1. /\ mgr \in Managers /\ mgr.todo \subseteq Contracts /\ 0 \notin Contracts /\ 0 \notin mgr.todo
      /\ Reads
  BY DiscoveryAssumption DEF Shaped, Managers, ManagerInv
<1>2. CASE ReadContracts
  <2>1. /\ mgr.pc = "list" /\ mgr'.pc = "filter" /\ mgr'.todo = {c \in Contracts : chain[c].made}
        /\ mgr'.kept = mgr.kept /\ mgr'.cur = mgr.cur /\ UNCHANGED <<chain, subs, objs>>
    BY <1>2, ReadContractsEffect
  <2>2. mgr.cur = 0 /\ mgr.kept = {} /\ Existing
    BY <1>1, <2>1 DEF Reads
  <2>3. Reads'
    BY <1>1, <2>1, <2>2 DEF Reads, Existing
  <2>4. ASSUME NEW c \in Contracts
        PROVE  /\ StillToRead(c)' => StillToRead(c)
               /\ ~chain[c].made => ~StillToRead(c)'
    BY <1>1, <2>1, <2>2, <2>4 DEF StillToRead
  <2> QED BY <2>1, <2>3, <2>4, ReadingStep
<1>3. CASE Filter
  <2>1. mgr.pc = "filter" /\ mgr'.cur = mgr.cur /\ UNCHANGED <<chain, subs, objs>>
    BY <1>3, FilterEffect
  <2>2. mgr.cur = 0 /\ Existing
    BY <1>1, <2>1 DEF Reads
  <2>3. mgr'.pc \in {"filter", "next"} /\ mgr'.todo \subseteq Contracts
    BY <1>3, FilterEffect DEF Managers
  <2>4. Reads'
    BY <1>1, <2>1, <2>2, <2>3 DEF Reads, Existing
  <2>5. ASSUME NEW c \in Contracts, StillToRead(c)' PROVE StillToRead(c)
    <3>1. c # mgr.cur /\ c # mgr'.cur
      BY <1>1, <2>1, <2>2
    <3>2. \/ mgr.todo = {} /\ mgr'.pc = "next" /\ mgr'.todo = mgr.kept /\ mgr'.kept = mgr.kept
          \/ \E d \in mgr.todo : /\ mgr'.pc = "filter" /\ mgr'.todo = mgr.todo \ {d}
                                 /\ mgr'.kept \in {mgr.kept, mgr.kept \cup {d}}
      BY <1>3, FilterEffect
    <3> QED BY <2>1, <2>5, <3>1, <3>2 DEF StillToRead
  <2> QED BY <2>1, <2>4, <2>5, ReadingStep
<1>4. CASE NextExisting
  <2>1. mgr.pc = "next" /\ mgr'.kept = mgr.kept /\ UNCHANGED <<chain, objs>>
    BY <1>4, NextEffect
  <2>2. mgr.cur = 0 /\ Existing
    BY <1>1, <2>1 DEF Reads
  <2>3. CASE /\ mgr.todo = {} /\ mgr'.pc = "select" /\ mgr'.todo = {} /\ mgr'.cur = mgr.cur
             /\ \E v \in Subscriptions :
                   /\ subs' = [subs EXCEPT ![FactorySub] = v]
                   /\ v.st = "init" /\ v.logs = subs[FactorySub].logs
    <3>1. subs'[FactorySub].st = "init" /\ subs'[FactorySub].logs = subs[FactorySub].logs
      BY <2>3, SubsShape DEF Shaped
    <3>2. Reads'
      BY <1>1, <2>1, <2>2, <2>3, <3>1 DEF Reads, Existing
    <3>3. \A c \in Contracts : ~StillToRead(c)'
      BY <1>1, <2>2, <2>3 DEF StillToRead
    <3> QED BY <2>1, <3>1, <3>2, <3>3, ReadingStep
  <2>4. CASE \E c \in mgr.todo : /\ mgr'.pc = "dest" /\ mgr'.todo = mgr.todo \ {c} /\ mgr'.cur = c
                                 /\ UNCHANGED subs
    <3>1. Reads'
      BY <1>1, <2>1, <2>2, <2>4 DEF Reads, Existing
    <3>2. \A c \in Contracts : StillToRead(c)' => StillToRead(c)
      BY <2>4 DEF StillToRead
    <3> QED BY <2>1, <2>4, <3>1, <3>2, ReadingStep
  <2> QED BY <1>4, <2>3, <2>4, NextEffect
<1>5. CASE ReadDest
  <2>1. /\ mgr.pc = "dest" /\ mgr'.pc = "vars" /\ mgr.cur \in Contracts
        /\ mgr'.todo = mgr.todo /\ mgr'.cur = mgr.cur /\ UNCHANGED <<chain, subs, objs>>
    BY <1>1, <1>5, ReadDestEffect
  <2>2. Reads'
    BY <1>1, <2>1 DEF Reads, Existing
  <2>3. \A c \in Contracts : StillToRead(c)' => StillToRead(c)
    BY <2>1 DEF StillToRead
  <2> QED BY <2>1, <2>2, <2>3, ReadingStep
<1>6. CASE ReadContractFails
  <2>1. /\ mgr.pc \in {"dest", "vars"} /\ mgr' = Back /\ UNCHANGED <<chain, subs, objs>>
    BY <1>6 DEF ReadContractFails, MgrAt, mgrUnchanged
  <2>2. mgr'.pc = (IF Existing THEN "next" ELSE "select") /\ mgr'.cur = 0 /\ mgr'.todo = mgr.todo
    BY <2>1, BackEffect
  <2>3. Reads'
    BY <1>1, <2>1, <2>2 DEF Reads, Existing
  <2>4. \A c \in Contracts : StillToRead(c)' => StillToRead(c)
    BY <1>1, <2>1, <2>2 DEF StillToRead
  <2> QED BY <2>1, <2>3, <2>4, ReadingStep
<1>7. CASE ReadContractsFails \/ MgrStops
  <2>1. /\ mgr.pc \in {"list", "filter", "select"} /\ mgr'.pc = "done" /\ mgr'.cur = mgr.cur
        /\ mgr'.todo = mgr.todo /\ UNCHANGED <<chain, subs, objs>>
    BY <1>7, DoneEffect
  <2>2. Reads' /\ mgr.cur = 0
    BY <1>1, <2>1 DEF Reads, Existing
  <2>3. \A c \in Contracts : /\ StillToRead(c)' => StillToRead(c)
                             /\ mgr.pc = "list" => ~StillToRead(c)'
    BY <1>1, <2>1, <2>2 DEF StillToRead, Reads
  <2> QED BY <2>1, <2>2, <2>3, ReadingStep
<1> QED
  BY <1>2, <1>3, <1>4, <1>5, <1>6, <1>7

\* An event is taken: what waited is now read.
LEMMA ManagerTakes ==
  ASSUME Shaped, Shaped', ManagerInv, TakeFactoryEvent
  PROVE  ManagerInv'
<1> DEFINE s == subs[FactorySub].logs
           d == Head(s)[2]
<1>1. /\ mgr.pc = "select" /\ mgr'.pc = "dest" /\ mgr'.todo = mgr.todo /\ mgr'.cur = d
      /\ s # <<>> /\ d \in Contracts /\ UNCHANGED <<chain, objs>>
  BY TakeFactoryEffect
<1>2. s \in Seq(Logs) /\ mgr.todo \subseteq Contracts /\ 0 \notin Contracts
  BY DiscoveryAssumption DEF Shaped, Managers
<1>3. ~Existing /\ mgr.todo = {} /\ mgr.cur = 0
  BY <1>1 DEF ManagerInv, Reads
<1>4. subs'[FactorySub].logs = Tail(s) /\ subs'[FactorySub].st = subs[FactorySub].st
  BY TakeFactoryEffect, SubsShape DEF Shaped
<1>5. Reads'
  BY <1>1, <1>3, <1>4 DEF Reads, Existing
<1>6. ASSUME NEW c \in Contracts PROVE Counted(c)' /\ Rented(c)'
  <2>1. Counted(c) /\ Rented(c)
    BY DEF ManagerInv
  <2>2. /\ Pending(c) = Cardinality(Places(s, c)) /\ Pending(c)' = Cardinality(Places(Tail(s), c))
        /\ Pending(c) \in Nat /\ Pending(c)' \in Nat /\ Len(objs[c]) \in Nat
    BY <1>4, UsesTyped, UsesTypedNext
  <2>3. Pending(c)' = Pending(c) - (IF d = c THEN 1 ELSE 0)
    BY <1>1, <1>2, <2>2, PlacesTail
  <2>4. ~StillToRead(c) /\ (StillToRead(c)' <=> c = d)
    BY <1>1, <1>2, <1>3 DEF StillToRead
  <2>5. Uses(c) = Len(objs[c]) + Pending(c) /\ Uses(c)' = Uses(c)
    <3> DEFINE b == Pending(c)
               y == Pending(c)'
               a == Len(objs[c])
    <3>1. /\ Uses(c) = a + b + 0 /\ Uses(c)' = a + y + (IF c = d THEN 1 ELSE 0)
          /\ y = b - (IF d = c THEN 1 ELSE 0) /\ a \in Nat /\ b \in Nat /\ y \in Nat
      BY <1>1, <2>2, <2>3, <2>4 DEF Uses
    <3> HIDE DEF a, b, y, d
    <3>2. Uses(c) = a + b /\ Uses(c)' = Uses(c)
      BY <3>1
    <3> QED BY <3>2 DEF a, b
  <2>6. chain[c].made \/ (d # c /\ objs'[c] = <<>> /\ Pending(c)' = 0)
    <3>1. ASSUME ~chain[c].made PROVE d # c /\ objs'[c] = <<>> /\ Pending(c)' = 0
      <4>1. Pending(c) = 0 /\ objs'[c] = <<>>
        BY <1>1, <2>1, <3>1 DEF Counted
      <4> DEFINE y == Pending(c)'
      <4>2. y \in Nat /\ (d = c => y = 0 - 1) /\ (d # c => y = 0 - 0)
        BY <2>2, <2>3, <4>1
      <4> HIDE DEF y, d
      <4>3. d # c
        <5>1. ~(0 - 1 \in Nat)
          OBVIOUS
        <5> QED BY <4>2, <5>1
      <4>4. y = 0
        BY <4>2, <4>3
      <4> QED BY <4>1, <4>3, <4>4 DEF y
    <3> QED BY <3>1
  <2>7. Counted(c)'
    BY <1>1, <2>1, <2>4, <2>5, <2>6 DEF Counted
  <2> QED BY <1>1, <2>1, <2>7 DEF Rented
<1> QED
  BY <1>5, <1>6 DEF ManagerInv

\* A contract is read, and an object made for it or not.
LEMMA ManagerMakes ==
  ASSUME Shaped, Shaped', ManagerInv, ReadVars
  PROVE  ManagerInv'
<1> PICK d \in Contracts : d = mgr.cur
  BY ReadVarsEffect DEF ManagerInv
<1>1. /\ mgr.pc = "vars" /\ d \in Contracts /\ mgr' = Back /\ UNCHANGED chain
      /\ mgr.todo \subseteq Contracts /\ 0 \notin Contracts /\ d \notin mgr.todo
  BY ReadVarsEffect, DiscoveryAssumption DEF ManagerInv, Reads, Shaped, Managers
<1>2. mgr'.pc = (IF Existing THEN "next" ELSE "select") /\ mgr'.cur = 0 /\ mgr'.todo = mgr.todo
  BY <1>1, BackEffect
<1>3. subs'[FactorySub] = subs[FactorySub]
  <2>1. CASE UNCHANGED subs
    BY <2>1
  <2>2. CASE /\ Len(objs[d]) + 1 \in Objects
             /\ subs' = [subs EXCEPT ![<<d, Len(objs[d]) + 1>>].st = "init"]
    <3>1. <<d, Len(objs[d]) + 1>> # FactorySub
      BY <1>1, <2>2, SubsShape
    <3> QED BY <2>2, <3>1, SubsShape DEF Shaped
  <2> QED BY <2>1, <2>2, ReadVarsEffect DEF ManagerInv
<1>4. Reads'
  BY <1>1, <1>2, <1>3 DEF ManagerInv, Reads, Existing
<1>5. \A c \in Contracts : c # d => objs'[c] = objs[c]
  BY ReadVarsEffect DEF ManagerInv, Shaped
<1>6. Len(objs'[d]) \in {Len(objs[d]), Len(objs[d]) + 1}
  <2>1. CASE UNCHANGED objs
    BY <2>1
  <2>2. CASE \E o \in ObjectStates : objs' = [objs EXCEPT ![d] = Append(objs[d], o)]
    <3>1. PICK o \in ObjectStates : objs'[d] = Append(objs[d], o) /\ objs[d] \in Seq(ObjectStates)
      BY <1>1, <2>2 DEF Shaped
    <3>2. Len(Append(objs[d], o)) = Len(objs[d]) + 1
      BY <3>1, AppendProperties
    <3> QED BY <3>1, <3>2
  <2> QED BY <2>1, <2>2, ReadVarsEffect DEF ManagerInv
<1>7. ASSUME NEW c \in Contracts PROVE Counted(c)' /\ Rented(c)'
  <2>1. Counted(c) /\ Rented(c)
    BY DEF ManagerInv
  <2>2. /\ Pending(c)' = Pending(c) /\ Pending(c) \in Nat /\ Len(objs[c]) \in Nat
        /\ Len(objs'[c]) \in Nat
    BY <1>3, UsesTyped, UsesTypedNext DEF Pending
  <2>3. (StillToRead(c)' => StillToRead(c)) /\ StillToRead(d) /\ ~StillToRead(d)'
    <3>1. /\ mgr'.pc \in {"next", "select"} /\ mgr'.cur # c /\ mgr'.cur # d
          /\ mgr'.todo = mgr.todo /\ d \notin mgr.todo
      BY <1>1, <1>2
    <3>2. StillToRead(c)' => StillToRead(c)
      BY <3>1 DEF StillToRead
    <3>3. ~StillToRead(d)'
      BY <3>1 DEF StillToRead
    <3>4. StillToRead(d)
      BY DEF StillToRead
    <3> QED BY <3>2, <3>3, <3>4
  <2>4. CASE c # d
    <3>1. Len(objs'[c]) = Len(objs[c]) /\ objs'[c] = objs[c] /\ Pending(c)' <= Pending(c)
      BY <1>5, <2>2, <2>4
    <3>2. chain'[c].sold >= chain[c].sold /\ chain'[c] = chain[c]
      BY <1>1, UsesTyped
    <3>3. ~chain[c].made => ~StillToRead(c)'
      BY <1>1, <2>1, <2>3 DEF Counted
    <3> QED BY <2>1, <2>3, <3>1, <3>2, <3>3, CountedKept DEF Rented
  <2>5. CASE c = d
    <3> DEFINE a == Len(objs[c])
               b == Pending(c)
               x == Len(objs'[c])
    <3>1. /\ Uses(c) = a + b + 1 /\ Uses(c)' = x + b + 0 /\ x \in {a, a + 1}
          /\ a \in Nat /\ b \in Nat /\ x \in Nat
      <4>1. x \in {a, a + 1} /\ a \in Nat /\ b \in Nat /\ x \in Nat
        BY <1>6, <2>2, <2>5
      <4>2. Uses(c) = a + b + 1
        BY <2>3, <2>5 DEF Uses
      <4>3. Uses(c)' = x + b + 0
        BY <2>2, <2>3, <2>5 DEF Uses
      <4> QED BY <4>1, <4>2, <4>3
    <3> HIDE DEF a, b, x
    <3>2. Uses(c)' <= Uses(c) /\ Uses(c)' \in Nat /\ Uses(c) \in Nat
      BY <3>1
    <3>3. chain[c].made
      BY <1>1, <2>1, <2>3, <2>5 DEF Counted
    <3>4. Uses(c) <= chain[c].sold + 1 /\ Uses(c) <= MaxObjects /\ chain[c].sold \in Nat
          /\ MaxObjects \in Nat
      BY <2>1, UsesTyped, DiscoveryAssumption DEF Counted
    <3>5. Uses(c)' <= chain'[c].sold + 1 /\ Uses(c)' <= MaxObjects
      <4>1. \A m, n, k \in Nat : m <= n /\ n <= k => m <= k
        OBVIOUS
      <4> DEFINE k == chain[c].sold + 1
      <4>2. k \in Nat /\ Uses(c) <= k
        BY <3>4
      <4> HIDE DEF k
      <4>3. Uses(c)' <= k
        BY <3>2, <4>1, <4>2
      <4> QED BY <1>1, <3>2, <3>4, <4>1, <4>3 DEF k
    <3> QED BY <1>1, <2>1, <3>3, <3>5 DEF Counted, Rented
  <2> QED BY <2>4, <2>5
<1> QED
  BY <1>4, <1>7 DEF ManagerInv

\* A contract is created or bought: the manager is told, if its subscription lives.
LEMMA ManagerTold ==
  ASSUME Shaped, Shaped', ManagerInv, NEW d \in Contracts, NEW e \in Logs, e[2] = d,
         NEW es \in Seq(ContractEvents), subs' = Published(<<e>>, d, es),
         UNCHANGED <<mgr, objs>>, chain'[d].made, chain'[d].sold >= chain[d].sold,
         \A c \in Contracts : Rented(c)' /\ (c # d => chain'[c] = chain[c]),
         Uses(d) < MaxObjects \/ ~chain[d].made,
         ~chain[d].made \/ chain'[d].sold = chain[d].sold + 1
  PROVE  ManagerInv'
<1> DEFINE s == subs[FactorySub].logs
           live == subs[FactorySub].st = "live"
<1>1. /\ s \in Seq(Logs) /\ <<e>> \in Seq(Logs) /\ subs'[FactorySub].st = subs[FactorySub].st
      /\ subs'[FactorySub].logs = (IF live THEN s \o <<e>> ELSE s)
  <2>1. s \in Seq(Logs) /\ <<e>> \in Seq(Logs)
    BY DEF Shaped
  <2> QED BY <2>1, PublishedLogs, SubsShape
<1>2. Reads'
  BY <1>1, ReadsKept DEF ManagerInv
<1>3. ASSUME NEW c \in Contracts PROVE Counted(c)'
  <2>1. Counted(c) /\ Reads
    BY DEF ManagerInv
  <2>2. /\ Pending(c) = Cardinality(Places(s, c))
        /\ Pending(c)' = Cardinality(Places(subs'[FactorySub].logs, c))
        /\ Pending(c) \in Nat /\ Pending(c)' \in Nat /\ Len(objs[c]) \in Nat
        /\ chain[c].sold \in Nat /\ chain'[c].sold \in Nat
    BY UsesTyped, UsesTypedNext
  <2>3. Pending(c)' = Pending(c) + (IF live /\ c = d THEN 1 ELSE 0)
    <3>1. CASE live
      <4>1. Cardinality(Places(s \o <<e>>, c)) = Cardinality(Places(s, c)) + (IF d = c THEN 1 ELSE 0)
        BY <1>1, PlacesAppend
      <4> HIDE DEF s
      <4> QED BY <1>1, <2>2, <3>1, <4>1
    <3>2. CASE ~live
      BY <1>1, <2>2, <3>2
    <3> QED BY <3>1, <3>2
  <2>4. StillToRead(c)' <=> StillToRead(c)
    BY DEF StillToRead
  <2>5. CASE c # d
    <3>1. Pending(c)' <= Pending(c) /\ chain'[c].sold >= chain[c].sold /\ chain'[c].made = chain[c].made
      BY <2>2, <2>3, <2>5
    <3>2. ~chain[c].made /\ StillToRead(c)' => mgr'.pc = "list"
      BY <2>1, <2>4 DEF Counted
    <3> QED BY <2>1, <2>4, <3>1, <3>2, CountedKept
  <2>6. CASE c = d
    <3> DEFINE a == Len(objs[c])
               b == Pending(c)
               n == IF StillToRead(c) THEN 1 ELSE 0
               m == IF live THEN 1 ELSE 0
               k == chain[c].sold
               l == chain'[c].sold
    <3>1. /\ Uses(c) = a + b + n /\ Uses(c)' = a + (b + m) + n
          /\ a \in Nat /\ b \in Nat /\ n \in 0..1 /\ m \in 0..1 /\ k \in Nat /\ l \in Nat /\ l >= k
      BY <2>2, <2>3, <2>4, <2>6 DEF Uses
    <3>2. Uses(c) <= k + 1 /\ Uses(c) <= MaxObjects /\ MaxObjects \in Nat \ {0}
      BY <2>1, DiscoveryAssumption DEF Counted
    <3>3. ASSUME ~chain[c].made PROVE a = 0 /\ b = 0 /\ n + m <= 1
      <4>1. a = 0 /\ b = 0 /\ (n = 1 => mgr.pc = "list")
        BY <2>1, <3>3, UsesTyped DEF Counted
      <4>2. mgr.pc = "list" => m = 0
        BY <2>1 DEF Reads, Existing
      <4> HIDE DEF n, m
      <4> QED BY <3>1, <4>1, <4>2
    <3>4. chain[c].made => Uses(c) < MaxObjects /\ l = k + 1
      BY <2>6
    <3> HIDE DEF a, b, n, m, k, l
    <3>5. a + (b + m) + n <= l + 1 /\ a + (b + m) + n <= MaxObjects
      <4>1. CASE ~chain[c].made
        BY <3>1, <3>2, <3>3, <4>1
      <4>2. CASE chain[c].made
        <5>1. a + b + n <= k + 1 /\ a + b + n < MaxObjects /\ l = k + 1
          BY <3>1, <3>2, <3>4, <4>2
        <5> QED BY <3>1, <3>2, <5>1
      <4> QED BY <4>1, <4>2
    <3>6. Uses(c)' <= chain'[c].sold + 1 /\ Uses(c)' <= MaxObjects
      BY <3>1, <3>5 DEF l
    <3> QED BY <2>6, <3>6 DEF Counted
  <2> QED BY <2>5, <2>6
<1> QED
  BY <1>2, <1>3 DEF ManagerInv

LEMMA SameLogs ==
  ASSUME Shaped, Shaped', subs'[FactorySub].logs = subs[FactorySub].logs, NEW c \in Contracts
  PROVE  Pending(c)' <= Pending(c)
<1>1. Pending(c)' = Pending(c) /\ Pending(c) \in Nat
  BY UsesTyped DEF Pending
<1> QED
  BY <1>1

LEMMA SameChain ==
  ASSUME Shaped, Shaped', ManagerInv, UNCHANGED <<mgr, chain>>,
         subs'[FactorySub].st = "off" <=> subs[FactorySub].st = "off",
         subs'[FactorySub].logs = subs[FactorySub].logs,
         \A c \in Contracts : Len(objs'[c]) = Len(objs[c])
  PROVE  ManagerInv'
<1>1. \A c \in Contracts : /\ Pending(c)' <= Pending(c) /\ chain'[c].sold >= chain[c].sold
                           /\ Rented(c)'
  BY SameLogs, UsesTyped DEF ManagerInv, Rented
<1> QED
  BY <1>1, QuietStep

LEMMA ManagerKeeps ==
  ASSUME Shaped, Shaped', ManagerInv, [DiscoveryNext]_discoveryVars
  PROVE  ManagerInv'
<1>1. \A c \in Contracts : Rented(c)' /\ chain'[c].sold >= chain[c].sold
  BY ChainSafe DEF ManagerInv
<1>2. ASSUME UNCHANGED <<mgr, chain, subs, objs>> PROVE ManagerInv'
  BY <1>2, SameChain
<1>3. CASE AppNext /\ UNCHANGED <<isBuyer, chain, faults, subs, mgr, objs, lost, cancels>>
  BY <1>2, <1>3
<1>4. CASE MgrPanics
  BY <1>2, <1>4 DEF MgrPanics, ZeroLog
<1>5. CASE ReadContracts \/ Filter \/ NextExisting \/ ReadDest \/ ReadContractFails
           \/ ReadContractsFails \/ MgrStops
  BY <1>5, ManagerReads
<1>6. CASE TakeFactoryEvent
  BY <1>6, ManagerTakes
<1>7. CASE ReadVars
  BY <1>7, ManagerMakes
<1>8. ASSUME NEW s \in Subs, SubConnects(s) \/ SubBreaks(s) PROVE ManagerInv'
  <2>1. UNCHANGED <<chain, mgr, objs>> /\ subs[s].st \in {"init", "live"}
    BY <1>8, SubEffect
  <2>2. PICK v \in Subscriptions :
           /\ subs' = [subs EXCEPT ![s] = v] /\ v.st \in {"init", "live"}
           /\ \E n \in 0..Len(subs[s].logs) : v.logs = SubSeq(subs[s].logs, 1, n)
    BY <1>8, SubEffect
  <2>3. FactorySub \in Subs /\ subs \in [Subs -> Subscriptions] /\ subs[FactorySub].logs \in Seq(Logs)
    BY SubsShape DEF Shaped
  <2>4. CASE s # FactorySub
    <3>1. subs'[FactorySub] = subs[FactorySub]
      BY <2>2, <2>3, <2>4
    <3> QED BY <2>1, <3>1, SameChain
  <2>5. CASE s = FactorySub
    <3>1. subs'[FactorySub] = v
      BY <2>2, <2>3, <2>5
    <3>2. ASSUME NEW c \in Contracts PROVE Pending(c)' <= Pending(c)
      <4>1. PICK n \in 0..Len(subs[FactorySub].logs) : v.logs = SubSeq(subs[FactorySub].logs, 1, n)
        BY <2>2, <2>5
      <4>2. Cardinality(Places(v.logs, c)) <= Cardinality(Places(subs[FactorySub].logs, c))
        BY <2>3, <4>1, PlacesPrefix
      <4> QED BY <3>1, <4>2, UsesTyped, UsesTypedNext
    <3> QED BY <1>1, <2>1, <2>2, <2>5, <3>1, <3>2, QuietStep
  <2> QED BY <2>4, <2>5
<1>9. ASSUME NEW c \in Contracts, NEW mine \in BOOLEAN, Create(c, mine) PROVE ManagerInv'
  <2> DEFINE e == <<"created", c>>
  <2>1. e \in Logs /\ e[2] = c /\ <<>> \in Seq(ContractEvents) /\ subs' = Published(<<e>>, c, <<>>)
    BY <1>9 DEF Logs, FactoryEvents, Create
  <2>2. UNCHANGED <<mgr, objs>> /\ ~chain[c].made
    BY <1>9 DEF Create, chainUnchanged
  <2>3. chain'[c].made /\ \A d \in Contracts : d # c => chain'[d] = chain[d]
    BY <1>9, CreateFields
  <2> HIDE DEF e
  <2> QED BY <1>1, <2>1, <2>2, <2>3, ManagerTold
<1>10. ASSUME NEW c \in Contracts, NEW me \in BOOLEAN, Purchase(c, me) PROVE ManagerInv'
  <2> DEFINE e == <<"purchased", c>>
             es == <<"purchased">>
  <2>1. e \in Logs /\ e[2] = c /\ es \in Seq(ContractEvents) /\ subs' = Published(<<e>>, c, es)
    BY <1>10 DEF Logs, FactoryEvents, ContractEvents, Purchase
  <2>2. UNCHANGED <<mgr, objs>> /\ chain[c].made
    BY <1>10 DEF Purchase, chainUnchanged
  <2>3. chain'[c].made /\ chain'[c].sold = chain[c].sold + 1
    BY <1>10, PurchaseFields
  <2>4. Uses(c) < MaxObjects
    BY <1>10 DEF Purchase, Room, Uses
  <2>5. \A d \in Contracts : d # c => chain'[d] = chain[d]
    BY <1>10, PurchaseFields
  <2> HIDE DEF e, es
  <2> QED BY <1>1, <2>1, <2>2, <2>3, <2>4, <2>5, ManagerTold
<1>11. ASSUME NEW c \in Contracts, TermEnds(c) PROVE ManagerInv'
  <2>1. UNCHANGED <<mgr, objs, subs>>
    BY <1>11 DEF TermEnds, chainUnchanged
  <2>2. \A d \in Contracts : chain'[d].made = chain[d].made
    BY <1>11, TermEndsFields
  <2> QED BY <1>1, <2>1, <2>2, SameLogs, QuietStep
<1>12. ASSUME NEW c \in Contracts, NEW es \in Seq(ContractEvents), UNCHANGED mgr,
              chain' = Closed(c), subs' = Published(<<>>, c, es),
              \A d \in Contracts : Len(objs'[d]) = Len(objs[d])
       PROVE  ManagerInv'
  <2>1. \A d \in Contracts : chain'[d].made = chain[d].made
    BY <1>12, ClosedFields
  <2>2. <<>> \in Seq(Logs) /\ subs[FactorySub].logs \in Seq(Logs) /\ FactorySub \in Subs
    BY SubsShape DEF Shaped
  <2>3. /\ subs'[FactorySub].st = subs[FactorySub].st
        /\ subs'[FactorySub].logs = (IF subs[FactorySub].st = "live"
                                     THEN subs[FactorySub].logs \o <<>> ELSE subs[FactorySub].logs)
    BY <1>12, <2>2, PublishedLogs
  <2>4. subs'[FactorySub].logs = subs[FactorySub].logs
    BY <2>2, <2>3, ConcatEmptySeq
  <2> QED BY <1>1, <1>12, <2>1, <2>3, <2>4, SameLogs, QuietStep
<1>13. ASSUME NEW c \in Contracts, NEW update \in BOOLEAN, CloseElsewhere(c, update)
       PROVE  ManagerInv'
  <2>1. UNCHANGED <<mgr, objs>> /\ chain' = Closed(c)
    BY <1>13 DEF CloseElsewhere, chainUnchanged
  <2>2. PICK es \in Seq(ContractEvents) : subs' = Published(<<>>, c, es)
    <3>1. <<"closed">> \in Seq(ContractEvents) /\ <<"closed", "updated">> \in Seq(ContractEvents)
      BY DEF ContractEvents
    <3> QED BY <1>13, <3>1 DEF CloseElsewhere
  <2> QED BY <1>12, <2>1, <2>2
<1>14. ASSUME NEW c \in Contracts, NEW i \in Objects, ListenerPanics(c, i) PROVE ManagerInv'
  BY <1>2, <1>14 DEF ListenerPanics, ZeroLog
<1>15. ASSUME NEW c \in Contracts, NEW i \in Objects,
              \/ LoadDest(c, i) \/ LoadVars(c, i) \/ LoadFails(c, i) \/ ListenerStops(c, i)
       PROVE  ManagerInv'
  <2>1. UNCHANGED <<mgr, chain, subs>>
    BY <1>15 DEF LoadDest, LoadVars, LoadFails, ListenerStops, objUnchanged
  <2>2. i \in DOMAIN objs[c] /\ \E o \in ObjectStates : Set(c, i, o)
    BY <1>15, LoadDestEffect, LoadVarsEffect, LoadFailsEffect, StopsEffect, ZenonT(30)
  <2>3. \A d \in Contracts : Len(objs'[d]) = Len(objs[d])
    BY <2>2, SetObject
  <2> QED BY <2>1, <2>3, SameChain
<1>16. ASSUME NEW c \in Contracts, NEW i \in Objects, TakeContractEvent(c, i) PROVE ManagerInv'
  <2>1. UNCHANGED <<mgr, chain>>
    BY <1>16 DEF TakeContractEvent, objUnchanged
  <2>2. i \in DOMAIN objs[c] /\ \E o \in ObjectStates : Set(c, i, o)
    BY <1>16, TakeEffect
  <2>3. \A d \in Contracts : Len(objs'[d]) = Len(objs[d])
    BY <2>2, SetObject
  <2>4. \E v \in Subscriptions : subs' = [subs EXCEPT ![<<c, i>>] = v]
    BY <1>16, TakeEffect
  <2>5. subs'[FactorySub] = subs[FactorySub]
    BY <2>4, SubsShape DEF Shaped
  <2> QED BY <2>1, <2>3, <2>5, SameChain
<1>17. ASSUME NEW c \in Contracts, NEW i \in Objects,
              NEW why \in {"expired", "allocation", "context"}, FulfilmentEnds(c, i, why)
       PROVE  ManagerInv'
  <2>1. UNCHANGED mgr
    BY <1>17 DEF FulfilmentEnds, objUnchanged
  <2>2. i \in DOMAIN objs[c] /\ \E o \in ObjectStates : Set(c, i, o)
    BY <1>17, EndsEffect
  <2>3. \A d \in Contracts : Len(objs'[d]) = Len(objs[d])
    BY <2>2, SetObject
  <2>4. \/ chain' = Closed(c) /\ subs' = Published(<<>>, c, <<"closed">>)
        \/ UNCHANGED <<chain, subs>>
    BY <1>17, EndsEffect
  <2>5. <<"closed">> \in Seq(ContractEvents)
    BY DEF ContractEvents
  <2> QED BY <1>12, <2>1, <2>3, <2>4, <2>5, SameChain
<1>18. CASE UNCHANGED discoveryVars
  BY <1>2, <1>18 DEF discoveryVars
<1> QED
  BY <1>3, <1>4, <1>5, <1>6, <1>7, <1>8, <1>9, <1>10, <1>11, <1>13, <1>14, <1>15, <1>16, <1>17,
     <1>18 DEF DiscoveryNext, ManagerSteps

\* Every object has its own subscription.
LEMMA ObjectsKnown ==
  ASSUME Shaped, NEW c \in Contracts, Counted(c)
  PROVE  /\ DOMAIN objs[c] \subseteq Objects /\ DOMAIN objs[c] = 1..Len(objs[c])
         /\ Len(objs[c]) \in Nat /\ Len(objs[c]) <= chain[c].sold + 1
<1>1. objs[c] \in Seq(ObjectStates) /\ MaxObjects \in Nat
  BY DiscoveryAssumption DEF Shaped
<1>2. DOMAIN objs[c] = 1..Len(objs[c]) /\ Len(objs[c]) \in Nat
  BY <1>1, LenProperties
<1>3. Pending(c) \in Nat /\ chain[c].sold \in Nat
  BY UsesTyped
<1> DEFINE a == Len(objs[c])
           b == Pending(c)
           n == IF StillToRead(c) THEN 1 ELSE 0
           k == chain[c].sold + 1
<1>4. a + b + n <= k /\ a + b + n <= MaxObjects
  BY DEF Counted, Uses
<1>5. a \in Nat /\ b \in Nat /\ n \in Nat /\ k \in Nat
  BY <1>2, <1>3
<1> HIDE DEF a, b, n, k
<1>6. a <= k /\ a <= MaxObjects
  BY <1>1, <1>4, <1>5
<1>7. 1..a \subseteq Objects
  BY <1>1, <1>5, <1>6 DEF Objects
<1> QED
  BY <1>2, <1>6, <1>7 DEF a, k

\* The purchases an object is still to be told of, by their places.
Bought(s) == {k \in DOMAIN s : s[k] = "purchased"}

LEMMA BoughtPrefix ==
  ASSUME NEW s \in Seq(ContractEvents), NEW n \in 0..Len(s)
  PROVE  Bought(SubSeq(s, 1, n)) \subseteq Bought(s)
<1> DEFINE t == SubSeq(s, 1, n)
<1>1. Len(s) \in Nat /\ DOMAIN s = 1..Len(s) /\ \A k \in 1..Len(s) : s[k] \in ContractEvents
  BY LenProperties, ElementOfSeq
<1>2. t \in Seq(ContractEvents) /\ Len(t) = n /\ \A k \in 1..n : t[k] = s[k]
  BY <1>1, SubSeqProperties
<1> HIDE DEF t
<1>3. DOMAIN t = 1..n
  BY <1>2, LenProperties
<1>4. Bought(t) \subseteq Bought(s)
  BY <1>1, <1>2, <1>3 DEF Bought
<1> QED
  BY <1>4 DEF t

LEMMA BoughtConcat ==
  ASSUME NEW s \in Seq(ContractEvents), NEW e \in Seq(ContractEvents), Bought(e) = {}
  PROVE  Bought(s \o e) \subseteq Bought(s)
<1> DEFINE t == s \o e
<1>1. /\ Len(s) \in Nat /\ DOMAIN s = 1..Len(s) /\ Len(e) \in Nat /\ DOMAIN e = 1..Len(e)
  BY LenProperties
<1>2. /\ t \in Seq(ContractEvents) /\ Len(t) = Len(s) + Len(e)
      /\ \A k \in 1..(Len(s) + Len(e)) : t[k] = IF k <= Len(s) THEN s[k] ELSE e[k - Len(s)]
  BY ConcatProperties
<1> HIDE DEF t
<1>3. DOMAIN t = 1..(Len(s) + Len(e))
  BY <1>2, LenProperties
<1>4. ASSUME NEW k \in Bought(t) PROVE k \in Bought(s)
  <2>1. k \in 1..(Len(s) + Len(e)) /\ t[k] = "purchased"
    BY <1>3 DEF Bought
  <2>2. CASE k <= Len(s)
    BY <1>1, <1>2, <2>1, <2>2 DEF Bought
  <2>3. CASE k > Len(s)
    <3> DEFINE l == k - Len(s)
    <3>1. l \in DOMAIN e /\ e[l] = "purchased"
      BY <1>1, <1>2, <2>1, <2>3
    <3> QED BY <3>1 DEF Bought
  <2> QED BY <1>1, <2>1, <2>2, <2>3
<1>5. Bought(t) \subseteq Bought(s)
  BY <1>4
<1> QED
  BY <1>5 DEF t

LEMMA BoughtTail ==
  ASSUME NEW s \in Seq(ContractEvents), s # <<>>
  PROVE  /\ \A k \in Bought(Tail(s)) : k \in Nat /\ k + 1 \in Bought(s) /\ k + 1 # 1
         /\ Head(s) = "purchased" => 1 \in Bought(s)
<1> DEFINE t == Tail(s)
<1>1. /\ Len(s) \in Nat \ {0} /\ DOMAIN s = 1..Len(s) /\ t \in Seq(ContractEvents)
      /\ Len(t) = Len(s) - 1 /\ DOMAIN t = 1..Len(t) /\ Len(t) \in Nat
      /\ Head(s) = s[1] /\ \A k \in 1..Len(t) : t[k] = s[k + 1]
  BY LenProperties, HeadTailProperties, EmptySeq
<1> HIDE DEF t
<1>2. ASSUME NEW k \in Bought(t) PROVE k \in Nat /\ k + 1 \in Bought(s) /\ k + 1 # 1
  <2>1. k \in 1..Len(t) /\ t[k] = "purchased"
    BY <1>1, <1>2 DEF Bought
  <2> QED BY <1>1, <2>1 DEF Bought
<1>3. Head(s) = "purchased" => 1 \in Bought(s)
  BY <1>1 DEF Bought
<1> QED
  BY <1>2, <1>3 DEF t

\* A step that starts no loop and tells no object of a purchase.
LEMMA ObjectsFall ==
  ASSUME Shaped, Shaped', NEW c \in Contracts, ObjectsInv(c), UNCHANGED isBuyer,
         chain'[c].sold = chain[c].sold, chain'[c].term \in {0, chain[c].term},
         DOMAIN objs'[c] = DOMAIN objs[c],
         \A i \in Objects : subs[<<c, i>>] = Off => subs'[<<c, i>>] = Off,
         \A i \in DOMAIN objs[c] :
            /\ objs'[c][i].work <= objs[c][i].work
            /\ objs'[c][i].start => objs[c][i].start
            /\ objs'[c][i].data = objs[c][i].data
            /\ chain[c].sold = 0 => objs'[c][i].pc \in {"listen", "ended"}
            /\ chain[c].sold <= 1 /\ ~isBuyer /\ objs'[c][i].pc = "vars" /\ chain'[c].term # 0
                  => objs'[c][i].half = 1
            /\ Bought(LogsOf(c, i)') \subseteq Bought(LogsOf(c, i))
            /\ chain[c].sold = 0 => LogsOf(c, i)' = LogsOf(c, i)
  PROVE  ObjectsInv(c)'
<1>1. /\ \A i \in DOMAIN objs[c] : objs[c][i].work \in Nat /\ objs[c][i].start \in BOOLEAN
      /\ \A i \in DOMAIN objs[c] : objs'[c][i].work \in Nat /\ objs'[c][i].start \in BOOLEAN
      /\ objs[c] \in Seq(ObjectStates) /\ objs'[c] \in Seq(ObjectStates)
  <2>1. objs[c] \in Seq(ObjectStates) /\ objs'[c] \in Seq(ObjectStates)
    BY DEF Shaped
  <2>2. /\ \A i \in DOMAIN objs[c] : objs[c][i] \in ObjectStates
        /\ \A i \in DOMAIN objs'[c] : objs'[c][i] \in ObjectStates
    BY <2>1, LenProperties, ElementOfSeq
  <2> QED BY <2>1, <2>2 DEF ObjectStates
<1>2. \A i \in DOMAIN objs[c] : Started(c, i)' => Started(c, i)
  BY <1>1 DEF Started, Bought
<1>3. objs[c] = <<>> => objs'[c] = <<>>
  <2>1. ASSUME objs[c] = <<>> PROVE objs'[c] = <<>>
    <3> DEFINE t == objs'[c]
    <3>1. t \in Seq(ObjectStates) /\ DOMAIN t = {}
      BY <1>1, <2>1
    <3> HIDE DEF t
    <3>2. Len(t) \in Nat /\ 1..Len(t) = {}
      BY <3>1, LenProperties
    <3>3. ASSUME Len(t) # 0 PROVE FALSE
      <4>1. 1 \in 1..Len(t)
        BY <3>2, <3>3
      <4> QED BY <3>2, <4>1
    <3> QED BY <3>1, <3>3, EmptySeq DEF t
  <2> QED BY <2>1
<1>4. Fresh(c)'
  BY DEF ObjectsInv, Fresh
<1>5. Unrented(c)'
  BY <1>2, <1>3 DEF ObjectsInv, Unrented
<1>6. OneLoop(c)'
  BY <1>1 DEF ObjectsInv, OneLoop, Bought
<1>7. Alone(c)'
  BY <1>2 DEF ObjectsInv, Alone
<1>8. Loaded(c)'
  BY <1>1 DEF ObjectsInv, Loaded
<1> QED
  BY <1>4, <1>5, <1>6, <1>7, <1>8 DEF ObjectsInv

\* A step leaves a contract's objects alone, but for the end of its rental, and its logs.
LEMMA ObjectsKept ==
  ASSUME Shaped, Shaped', NEW c \in Contracts, ObjectsInv(c), Counted(c), Rented(c),
         UNCHANGED isBuyer, objs'[c] = objs[c],
         chain'[c].sold = chain[c].sold, chain'[c].term \in {0, chain[c].term},
         \A i \in Objects : subs[<<c, i>>] = Off => subs'[<<c, i>>] = Off,
         \A i \in DOMAIN objs[c] :
            /\ Bought(LogsOf(c, i)') \subseteq Bought(LogsOf(c, i))
            /\ chain[c].sold = 0 => LogsOf(c, i)' = LogsOf(c, i) \/ LogsOf(c, i)' = <<>>
  PROVE  ObjectsInv(c)'
<1>1. DOMAIN objs[c] \subseteq Objects
  BY ObjectsKnown
<1>2. ASSUME NEW i \in DOMAIN objs[c]
      PROVE  /\ objs'[c][i].work <= objs[c][i].work
             /\ chain[c].sold = 0 => objs'[c][i].pc \in {"listen", "ended"}
             /\ chain[c].sold <= 1 /\ ~isBuyer /\ objs'[c][i].pc = "vars" /\ chain'[c].term # 0
                   => objs'[c][i].half = 1
             /\ chain[c].sold = 0 => LogsOf(c, i)' = LogsOf(c, i)
  <2>1. objs'[c][i].work <= objs[c][i].work /\ i \in Objects
    BY <1>1, ObjectKnown
  <2>2. /\ chain[c].sold = 0 => objs'[c][i].pc \in {"listen", "ended"}
        /\ chain[c].sold = 0 => LogsOf(c, i) = <<>>
    BY DEF ObjectsInv, Unrented
  <2>3. chain[c].sold <= 1 /\ ~isBuyer /\ objs'[c][i].pc = "vars" /\ chain'[c].term # 0
          => objs'[c][i].half = 1
    BY DEF ObjectsInv, Loaded
  <2> QED BY <2>1, <2>2, <2>3
<1> QED
  BY <1>1, <1>2, ObjectsFall

\* A transaction with no purchase: the logs of a rental's end, or none.
LEMMA NoPurchase ==
  ASSUME Shaped, NEW c \in Contracts, NEW fs \in Seq(Logs), NEW es \in Seq(ContractEvents),
         subs' = Published(fs, c, es), Bought(es) = {}, es = <<>> \/ chain[c].sold # 0,
         NEW d \in Contracts, NEW i \in Objects
  PROVE  /\ subs[<<d, i>>] = Off => subs'[<<d, i>>] = Off
         /\ Bought(LogsOf(d, i)') \subseteq Bought(LogsOf(d, i))
         /\ chain[d].sold = 0 => LogsOf(d, i)' = LogsOf(d, i)
<1>1. LogsOf(d, i) \in Seq(ContractEvents)
  BY DEF Shaped
<1>2. /\ subs[<<d, i>>] = Off => subs'[<<d, i>>] = Off
      /\ LogsOf(d, i)' = IF subs[<<d, i>>].st = "live" /\ d = c
                         THEN LogsOf(d, i) \o es ELSE LogsOf(d, i)
  BY PublishedLogs DEF LogsOf
<1>3. Bought(LogsOf(d, i) \o es) \subseteq Bought(LogsOf(d, i))
  BY <1>1, BoughtConcat
<1>4. LogsOf(d, i) \o <<>> = LogsOf(d, i)
  BY <1>1, ConcatEmptySeq
<1>5. chain[d].sold = 0 => LogsOf(d, i)' = LogsOf(d, i)
  BY <1>2, <1>4
<1> QED
  BY <1>2, <1>3, <1>5

LEMMA ObjectsTold ==
  ASSUME Shaped, Shaped', ManagerInv, \A d \in Contracts : ObjectsInv(d), UNCHANGED <<isBuyer, objs>>,
         NEW c \in Contracts, NEW fs \in Seq(Logs), NEW es \in Seq(ContractEvents),
         subs' = Published(fs, c, es), Bought(es) = {}, es = <<>> \/ chain[c].sold # 0,
         \A d \in Contracts : /\ chain'[d].sold = chain[d].sold
                              /\ chain'[d].term \in {0, chain[d].term}
  PROVE  \A d \in Contracts : ObjectsInv(d)'
<1> SUFFICES ASSUME NEW d \in Contracts PROVE ObjectsInv(d)'
  OBVIOUS
<1>1. Counted(d) /\ Rented(d) /\ ObjectsInv(d)
  BY DEF ManagerInv
<1> QED
  BY <1>1, NoPurchase, ObjectsKept, ObjectsKnown

\* No log and no object changes, and no rental but to end.
LEMMA ObjectsStill ==
  ASSUME Shaped, Shaped', ManagerInv, \A d \in Contracts : ObjectsInv(d),
         UNCHANGED <<isBuyer, objs, subs>>,
         \A d \in Contracts : /\ chain'[d].sold = chain[d].sold
                              /\ chain'[d].term \in {0, chain[d].term}
  PROVE  \A d \in Contracts : ObjectsInv(d)'
<1> SUFFICES ASSUME NEW d \in Contracts PROVE ObjectsInv(d)'
  OBVIOUS
<1>1. Counted(d) /\ Rented(d) /\ ObjectsInv(d)
  BY DEF ManagerInv
<1>2. \A i \in Objects : subs'[<<d, i>>] = subs[<<d, i>>] /\ LogsOf(d, i)' = LogsOf(d, i)
  BY DEF LogsOf
<1> QED
  BY <1>1, <1>2, ObjectsKept, ObjectsKnown

\* One subscription changes, and its logs are no more than before.
LEMMA ObjectsSub ==
  ASSUME Shaped, Shaped', ManagerInv, \A d \in Contracts : ObjectsInv(d),
         UNCHANGED <<isBuyer, objs, chain>>, NEW s \in Subs, NEW v,
         subs' = [subs EXCEPT ![s] = v], subs[s].st # "off",
         \E n \in 0..Len(subs[s].logs) : v.logs = SubSeq(subs[s].logs, 1, n)
  PROVE  \A d \in Contracts : ObjectsInv(d)'
<1> SUFFICES ASSUME NEW d \in Contracts PROVE ObjectsInv(d)'
  OBVIOUS
<1>1. Counted(d) /\ Rented(d) /\ ObjectsInv(d)
  BY DEF ManagerInv
<1>2. ASSUME NEW i \in Objects
      PROVE  /\ subs[<<d, i>>] = Off => subs'[<<d, i>>] = Off
             /\ Bought(LogsOf(d, i)') \subseteq Bought(LogsOf(d, i))
             /\ LogsOf(d, i)' = LogsOf(d, i) \/ LogsOf(d, i) # <<>> \/ LogsOf(d, i)' = <<>>
  <2>1. LogsOf(d, i) \in Seq(ContractEvents) /\ <<d, i>> \in Subs /\ subs \in [Subs -> Subscriptions]
    BY SubsShape DEF Shaped
  <2>2. CASE <<d, i>> # s
    <3>1. subs'[<<d, i>>] = subs[<<d, i>>]
      BY <2>1, <2>2
    <3> QED BY <3>1 DEF LogsOf
  <2>3. CASE <<d, i>> = s
    <3>1. subs'[<<d, i>>] = v /\ subs[<<d, i>>] # Off
      <4>1. subs'[s] = v
        BY <2>1, <2>3
      <4>2. Off.st = "off"
        BY DEF Off
      <4> QED BY <2>3, <4>1, <4>2
    <3>2. PICK n \in 0..Len(LogsOf(d, i)) : LogsOf(d, i)' = SubSeq(LogsOf(d, i), 1, n)
      BY <2>3, <3>1 DEF LogsOf
    <3>3. Bought(LogsOf(d, i)') \subseteq Bought(LogsOf(d, i))
      BY <2>1, <3>2, BoughtPrefix
    <3>4. LogsOf(d, i) = <<>> => LogsOf(d, i)' = <<>>
      <4> DEFINE t == LogsOf(d, i)
      <4>1. ASSUME t = <<>> PROVE SubSeq(t, 1, n) = <<>>
        <5>1. n = 0
          BY <3>2, <4>1
        <5> QED BY <5>1, SubSeqEmpty
      <4> QED BY <3>2, <4>1
    <3> QED BY <3>1, <3>3, <3>4
  <2> QED BY <2>2, <2>3
<1>3. chain[d].sold = 0 => \A i \in DOMAIN objs[d] : LogsOf(d, i) = <<>>
  BY <1>1 DEF ObjectsInv, Unrented
<1> QED
  BY <1>1, <1>2, <1>3, ObjectsKept, ObjectsKnown

\* A step of one object that starts no loop.
LEMMA ObjectsOne ==
  ASSUME Shaped, Shaped', ManagerInv, \A d \in Contracts : ObjectsInv(d), UNCHANGED isBuyer,
         NEW c \in Contracts, NEW i \in DOMAIN objs[c], NEW o \in ObjectStates, Set(c, i, o),
         o.work <= objs[c][i].work, o.start => objs[c][i].start, o.data = objs[c][i].data,
         chain[c].sold = 0 => o.pc \in {"listen", "ended"},
         chain[c].sold <= 1 /\ ~isBuyer /\ o.pc = "vars" /\ chain'[c].term # 0 => o.half = 1,
         \A d \in Contracts : /\ chain'[d].sold = chain[d].sold
                              /\ chain'[d].term \in {0, chain[d].term},
         \A d \in Contracts, j \in Objects :
            /\ subs[<<d, j>>] = Off => subs'[<<d, j>>] = Off
            /\ Bought(LogsOf(d, j)') \subseteq Bought(LogsOf(d, j))
            /\ chain[d].sold = 0 => LogsOf(d, j)' = LogsOf(d, j)
  PROVE  \A d \in Contracts : ObjectsInv(d)'
<1> SUFFICES ASSUME NEW d \in Contracts PROVE ObjectsInv(d)'
  OBVIOUS
<1>1. Counted(d) /\ Rented(d) /\ ObjectsInv(d) /\ DOMAIN objs[d] \subseteq Objects
  BY ObjectsKnown DEF ManagerInv
<1>2. /\ DOMAIN objs'[d] = DOMAIN objs[d] /\ (d # c => objs'[d] = objs[d])
      /\ objs'[c][i] = o /\ \A j \in DOMAIN objs[c] : j # i => objs'[c][j] = objs[c][j]
  BY SetObject
<1>3. CASE d # c
  BY <1>1, <1>2, <1>3, ObjectsKept
<1>4. CASE d = c
  <2>1. ASSUME NEW j \in DOMAIN objs[c], j # i
        PROVE  /\ objs'[c][j].work <= objs[c][j].work
               /\ objs'[c][j].start => objs[c][j].start
               /\ objs'[c][j].data = objs[c][j].data
               /\ chain[c].sold = 0 => objs'[c][j].pc \in {"listen", "ended"}
               /\ chain[c].sold <= 1 /\ ~isBuyer /\ objs'[c][j].pc = "vars" /\ chain'[c].term # 0
                     => objs'[c][j].half = 1
    <3>1. objs'[c][j] = objs[c][j]
      BY <1>2, <2>1
    <3>2. objs[c][j].work <= objs[c][j].work
      BY ObjectKnown
    <3>3. chain[c].sold = 0 => objs[c][j].pc \in {"listen", "ended"}
      BY <1>1, <1>4 DEF ObjectsInv, Unrented
    <3>4. chain'[c].term # 0 => chain[c].term # 0
      OBVIOUS
    <3>5. chain[c].sold <= 1 /\ ~isBuyer /\ objs[c][j].pc = "vars" /\ chain'[c].term # 0
            => objs[c][j].half = 1
      BY <1>1, <1>4, <3>4 DEF ObjectsInv, Loaded
    <3> QED BY <3>1, <3>2, <3>3, <3>5
  <2>2. \A j \in DOMAIN objs[c] :
            /\ objs'[c][j].work <= objs[c][j].work
            /\ objs'[c][j].start => objs[c][j].start
            /\ objs'[c][j].data = objs[c][j].data
            /\ chain[c].sold = 0 => objs'[c][j].pc \in {"listen", "ended"}
            /\ chain[c].sold <= 1 /\ ~isBuyer /\ objs'[c][j].pc = "vars" /\ chain'[c].term # 0
                  => objs'[c][j].half = 1
    BY <1>2, <2>1
  <2> QED BY <1>1, <1>2, <1>4, <2>2, ObjectsFall
<1> QED
  BY <1>3, <1>4

\* A contract an object loads has been bought; and so has one that is fulfilled.
LEMMA Sold ==
  ASSUME NEW c \in Contracts, ObjectsInv(c), NEW i \in DOMAIN objs[c],
         objs[c][i].pc \in {"dest", "vars"} \/ objs[c][i].work > 0 \/ LogsOf(c, i) # <<>>
  PROVE  chain[c].sold # 0
BY DEF ObjectsInv, Unrented, Started

LEMMA ObjectsReload ==
  ASSUME Shaped, Shaped', ManagerInv, \A d \in Contracts : ObjectsInv(d),
         NEW c \in Contracts, NEW i \in Objects, LoadDest(c, i) \/ LoadFails(c, i) \/ ListenerStops(c, i)
  PROVE  \A d \in Contracts : ObjectsInv(d)'
<1>1. UNCHANGED <<isBuyer, chain, subs>>
  BY DEF LoadDest, LoadFails, ListenerStops, objUnchanged
<1>2. /\ \A d \in Contracts : /\ chain'[d].sold = chain[d].sold
                              /\ chain'[d].term \in {0, chain[d].term}
      /\ \A d \in Contracts, j \in Objects :
            /\ subs[<<d, j>>] = Off => subs'[<<d, j>>] = Off
            /\ Bought(LogsOf(d, j)') \subseteq Bought(LogsOf(d, j))
            /\ chain[d].sold = 0 => LogsOf(d, j)' = LogsOf(d, j)
  BY <1>1 DEF LogsOf
<1>3. CASE LoadDest(c, i)
  <2>1. PICK o \in ObjectStates :
           /\ Set(c, i, o) /\ o.work = objs[c][i].work /\ o.data = objs[c][i].data
           /\ o.start = objs[c][i].start /\ o.pc = "vars" /\ o.half = chain[c].dest
    BY <1>3, LoadDestEffect
  <2>2. i \in DOMAIN objs[c] /\ objs[c][i].pc = "dest"
    BY <1>3, LoadDestEffect
  <2>3. chain[c].sold # 0 /\ o.work <= objs[c][i].work
    BY <2>1, <2>2, Sold, ObjectKnown
  <2>4. chain'[c].term # 0 => o.half = 1
    BY <1>1, <2>1 DEF ManagerInv, Rented
  <2> QED BY <1>1, <1>2, <2>1, <2>2, <2>3, <2>4, ObjectsOne
<1>4. CASE LoadFails(c, i)
  <2>1. PICK o \in ObjectStates :
           /\ Set(c, i, o) /\ o.work = objs[c][i].work /\ o.data = objs[c][i].data
           /\ o.start = FALSE /\ o.pc = "listen"
    BY <1>4, LoadFailsEffect
  <2>2. i \in DOMAIN objs[c]
    BY <1>4, LoadFailsEffect
  <2>3. o.work <= objs[c][i].work
    BY <2>1, <2>2, ObjectKnown
  <2> QED BY <1>1, <1>2, <2>1, <2>2, <2>3, ObjectsOne
<1>5. CASE ListenerStops(c, i)
  <2>1. PICK o \in ObjectStates :
           /\ Set(c, i, o) /\ o.work = objs[c][i].work /\ o.data = objs[c][i].data
           /\ o.start = objs[c][i].start /\ o.pc = "ended"
    BY <1>5, StopsEffect
  <2>2. i \in DOMAIN objs[c]
    BY <1>5, StopsEffect
  <2>3. o.work <= objs[c][i].work
    BY <2>1, <2>2, ObjectKnown
  <2> QED BY <1>1, <1>2, <2>1, <2>2, <2>3, ObjectsOne
<1> QED
  BY <1>3, <1>4, <1>5

\* The rental's end is published after a fulfilment's, or not.
LEMMA ObjectsEnd ==
  ASSUME Shaped, Shaped', ManagerInv, \A d \in Contracts : ObjectsInv(d),
         NEW c \in Contracts, NEW i \in Objects,
         NEW why \in {"expired", "allocation", "context"}, FulfilmentEnds(c, i, why)
  PROVE  \A d \in Contracts : ObjectsInv(d)'
<1>1. UNCHANGED isBuyer /\ i \in DOMAIN objs[c] /\ objs[c][i].work > 0
  BY EndsEffect DEF FulfilmentEnds, objUnchanged
<1>2. PICK o \in ObjectStates :
         /\ Set(c, i, o) /\ o.work = objs[c][i].work - 1 /\ o.data = objs[c][i].data
         /\ o.start = objs[c][i].start /\ o.pc = objs[c][i].pc /\ o.half = objs[c][i].half
  BY EndsEffect
<1>3. chain[c].sold # 0 /\ o.work <= objs[c][i].work
  BY <1>1, <1>2, Sold, ObjectKnown
<1>4. /\ \A d \in Contracts : /\ chain'[d].sold = chain[d].sold
                              /\ chain'[d].term \in {0, chain[d].term}
      /\ \A d \in Contracts, j \in Objects :
            /\ subs[<<d, j>>] = Off => subs'[<<d, j>>] = Off
            /\ Bought(LogsOf(d, j)') \subseteq Bought(LogsOf(d, j))
            /\ chain[d].sold = 0 => LogsOf(d, j)' = LogsOf(d, j)
  <2>1. CASE UNCHANGED <<chain, subs>>
    BY <2>1 DEF LogsOf
  <2>2. CASE chain' = Closed(c) /\ subs' = Published(<<>>, c, <<"closed">>)
    <3> DEFINE es == <<"closed">>
    <3>1. <<>> \in Seq(Logs) /\ es \in Seq(ContractEvents) /\ Bought(es) = {}
      BY DEF ContractEvents, Bought
    <3>2. subs' = Published(<<>>, c, es)
      BY <2>2
    <3> HIDE DEF es
    <3>3. \A d \in Contracts, j \in Objects :
             /\ subs[<<d, j>>] = Off => subs'[<<d, j>>] = Off
             /\ Bought(LogsOf(d, j)') \subseteq Bought(LogsOf(d, j))
             /\ chain[d].sold = 0 => LogsOf(d, j)' = LogsOf(d, j)
      BY <1>3, <3>1, <3>2, NoPurchase
    <3>4. \A d \in Contracts : /\ chain'[d].sold = chain[d].sold
                               /\ chain'[d].term \in {0, chain[d].term}
      BY <2>2, ClosedFields
    <3> QED BY <3>3, <3>4
  <2> QED BY <2>1, <2>2, EndsEffect
<1>5. chain[c].sold <= 1 /\ ~isBuyer /\ o.pc = "vars" /\ chain'[c].term # 0 => o.half = 1
  <2>1. chain'[c].term # 0 => chain[c].term # 0
    BY <1>4
  <2>2. ObjectsInv(c)
    OBVIOUS
  <2> QED BY <1>1, <1>2, <2>1, <2>2 DEF ObjectsInv, Loaded
<1> QED
  BY <1>1, <1>2, <1>3, <1>4, <1>5, ObjectsOne

\* The contract is loaded, and the loop a purchase asked for is started.
LEMMA ObjectsLoad ==
  ASSUME Shaped, Shaped', ManagerInv, \A d \in Contracts : ObjectsInv(d),
         NEW c \in Contracts, NEW i \in Objects, LoadVars(c, i)
  PROVE  \A d \in Contracts : ObjectsInv(d)'
<1> SUFFICES ASSUME NEW d \in Contracts PROVE ObjectsInv(d)'
  OBVIOUS
<1>1. UNCHANGED <<isBuyer, chain, subs>> /\ \A j \in Objects : LogsOf(d, j)' = LogsOf(d, j)
  BY DEF LoadVars, objUnchanged, LogsOf
<1>2. i \in DOMAIN objs[c] /\ objs[c][i].pc = "vars"
  BY LoadVarsEffect
<1>3. PICK o \in ObjectStates :
         /\ Set(c, i, o) /\ o.pc = "listen" /\ o.start = FALSE
         /\ o.work = (IF objs[c][i].start THEN objs[c][i].work + 1 ELSE objs[c][i].work)
         /\ o.data.term = chain[c].term /\ o.data.dest = objs[c][i].half
  BY LoadVarsEffect
<1>4. Counted(d) /\ Rented(d) /\ ObjectsInv(d) /\ DOMAIN objs[d] \subseteq Objects
  BY ObjectsKnown DEF ManagerInv
<1>5. /\ DOMAIN objs'[d] = DOMAIN objs[d] /\ (d # c => objs'[d] = objs[d])
      /\ objs'[c][i] = o /\ \A j \in DOMAIN objs[c] : j # i => objs'[c][j] = objs[c][j]
  BY <1>2, <1>3, SetObject
<1>6. CASE d # c
  BY <1>1, <1>4, <1>5, <1>6, ObjectsKept
<1>7. CASE d = c
  <2>1. chain[c].sold # 0
    BY <1>2, Sold
  <2>2. \A j \in DOMAIN objs[c] : LogsOf(c, j)' = LogsOf(c, j)
    BY <1>1, <1>4, <1>7
  <2>3. objs[c][i].work \in Nat /\ objs[c][i].start \in BOOLEAN
    BY <1>2, ObjectKnown
  <2>4. ASSUME NEW j \in DOMAIN objs[c], Started(c, j)' PROVE Started(c, j)
    <3>1. CASE j # i
      BY <1>5, <2>2, <2>4, <3>1 DEF Started
    <3>2. CASE j = i
      <4>1. o.work > 0 => objs[c][i].work > 0 \/ objs[c][i].start
        BY <1>3, <2>3
      <4> QED BY <1>3, <1>5, <2>2, <2>4, <3>2, <4>1 DEF Started
    <3> QED BY <3>1, <3>2
  <2>5. Fresh(c)'
    BY <1>1, <1>4, <1>5, <1>7 DEF ObjectsInv, Fresh
  <2>6. Unrented(c)'
    BY <1>1, <2>1 DEF Unrented
  <2>7. OneLoop(c)'
    <3>1. SUFFICES ASSUME chain[c].sold = 1, NEW j \in DOMAIN objs[c]
                   PROVE  /\ objs'[c][j].work <= 1 /\ (objs'[c][j].start => objs'[c][j].work = 0)
                          /\ \A k \in DOMAIN LogsOf(c, j) :
                                LogsOf(c, j)[k] = "purchased" =>
                                   /\ objs'[c][j].work = 0 /\ ~objs'[c][j].start
                                   /\ \A m \in DOMAIN LogsOf(c, j) : LogsOf(c, j)[m] = "purchased" => m = k
      BY <1>1, <1>5, <1>7, <2>2 DEF OneLoop
    <3>2. /\ objs[c][j].work <= 1 /\ (objs[c][j].start => objs[c][j].work = 0)
          /\ \A k \in DOMAIN LogsOf(c, j) :
                LogsOf(c, j)[k] = "purchased" =>
                   /\ objs[c][j].work = 0 /\ ~objs[c][j].start
                   /\ \A m \in DOMAIN LogsOf(c, j) : LogsOf(c, j)[m] = "purchased" => m = k
      BY <1>4, <1>7, <3>1 DEF ObjectsInv, OneLoop
    <3>3. CASE j # i
      BY <1>5, <3>2, <3>3
    <3>4. CASE j = i
      <4>1. CASE objs[c][i].start
        <5>1. o.work = 1 /\ \A k \in DOMAIN LogsOf(c, j) : LogsOf(c, j)[k] # "purchased"
          BY <1>3, <2>3, <3>2, <3>4, <4>1
        <5> QED BY <1>3, <1>5, <3>4, <5>1
      <4>2. CASE ~objs[c][i].start
        <5>1. o.work = objs[c][i].work
          BY <1>3, <4>2
        <5> QED BY <1>3, <1>5, <3>2, <3>4, <5>1
      <4> QED BY <4>1, <4>2
    <3> QED BY <3>3, <3>4
  <2>8. Alone(c)'
    BY <1>1, <1>4, <1>5, <1>7, <2>4 DEF ObjectsInv, Alone
  <2>9. Loaded(c)'
    <3>1. SUFFICES ASSUME chain[c].sold <= 1, NEW j \in DOMAIN objs[c]
                   PROVE  /\ ~isBuyer /\ objs'[c][j].pc = "vars" /\ chain[c].term # 0 => objs'[c][j].half = 1
                          /\ ~isBuyer /\ objs'[c][j].data.term # 0 => objs'[c][j].data.dest = 1
                          /\ objs'[c][j].work > 0 /\ objs'[c][j].data.term = 0 => chain[c].term = 0
      BY <1>1, <1>5, <1>7 DEF Loaded
    <3>2. /\ ~isBuyer /\ objs[c][j].pc = "vars" /\ chain[c].term # 0 => objs[c][j].half = 1
          /\ ~isBuyer /\ objs[c][j].data.term # 0 => objs[c][j].data.dest = 1
          /\ objs[c][j].work > 0 /\ objs[c][j].data.term = 0 => chain[c].term = 0
      BY <1>4, <1>7, <3>1 DEF ObjectsInv, Loaded
    <3>3. CASE j # i
      BY <1>5, <3>2, <3>3
    <3>4. CASE j = i
      BY <1>2, <1>3, <1>5, <3>2, <3>4
    <3> QED BY <3>3, <3>4
  <2> QED BY <1>7, <2>5, <2>6, <2>7, <2>8, <2>9 DEF ObjectsInv
<1> QED
  BY <1>6, <1>7

\* An object takes the next log of its contract.
LEMMA ObjectsTake ==
  ASSUME Shaped, Shaped', ManagerInv, \A d \in Contracts : ObjectsInv(d),
         NEW c \in Contracts, NEW i \in Objects, TakeContractEvent(c, i)
  PROVE  \A d \in Contracts : ObjectsInv(d)'
<1> SUFFICES ASSUME NEW d \in Contracts PROVE ObjectsInv(d)'
  OBVIOUS
<1> DEFINE s == LogsOf(c, i)
           e == Head(s)
<1>1. UNCHANGED <<isBuyer, chain>>
  BY DEF TakeContractEvent, objUnchanged
<1>2. i \in DOMAIN objs[c] /\ objs[c][i].pc = "listen" /\ s # <<>> /\ s \in Seq(ContractEvents)
  BY TakeEffect DEF Shaped
<1>3. PICK o \in ObjectStates :
         /\ Set(c, i, o) /\ o.work = objs[c][i].work /\ o.data = objs[c][i].data
         /\ IF e \in {"purchased", "updated"} THEN o.pc = "dest" /\ o.start = (e = "purchased")
            ELSE o = objs[c][i]
  BY TakeEffect
<1>4. PICK v \in Subscriptions : subs' = [subs EXCEPT ![<<c, i>>] = v] /\ v.logs = Tail(s)
  BY TakeEffect
<1>5. /\ subs'[<<c, i>>] = v
      /\ \A b \in Contracts, j \in Objects : <<b, j>> # <<c, i>> => subs'[<<b, j>>] = subs[<<b, j>>]
  BY <1>4, SubsShape DEF Shaped
<1>6. /\ LogsOf(c, i)' = Tail(s)
      /\ \A b \in Contracts, j \in Objects : <<b, j>> # <<c, i>> => LogsOf(b, j)' = LogsOf(b, j)
  BY <1>4, <1>5 DEF LogsOf
<1>7. Counted(d) /\ Rented(d) /\ ObjectsInv(d) /\ DOMAIN objs[d] \subseteq Objects
  BY ObjectsKnown DEF ManagerInv
<1>8. /\ DOMAIN objs'[d] = DOMAIN objs[d] /\ (d # c => objs'[d] = objs[d])
      /\ objs'[c][i] = o /\ \A j \in DOMAIN objs[c] : j # i => objs'[c][j] = objs[c][j]
  BY <1>2, <1>3, SetObject
<1>9. CASE d # c
  <2>1. \A j \in Objects : subs'[<<d, j>>] = subs[<<d, j>>] /\ LogsOf(d, j)' = LogsOf(d, j)
    BY <1>5, <1>6, <1>9
  <2> QED BY <1>1, <1>7, <1>8, <1>9, <2>1, ObjectsKept
<1>10. CASE d = c
  <2>1. chain[c].sold # 0
    BY <1>2, Sold
  <2>2. /\ \A k \in Bought(Tail(s)) : k \in Nat /\ k + 1 \in Bought(s) /\ k + 1 # 1
        /\ e = "purchased" => 1 \in Bought(s)
    BY <1>2, BoughtTail
  <2> HIDE DEF s, e
  <2>3. \A j \in DOMAIN objs[c] : j # i => LogsOf(c, j)' = LogsOf(c, j)
    BY <1>6, <1>7, <1>10
  <2>4. objs[c][i].work \in Nat /\ objs[c][i].start \in BOOLEAN /\ o.start \in BOOLEAN
    BY <1>2, ObjectKnown DEF ObjectStates
  <2>5. ASSUME NEW j \in DOMAIN objs[c], Started(c, j)' PROVE Started(c, j)
    <3>1. CASE j # i
      BY <1>8, <2>3, <2>5, <3>1 DEF Started
    <3>2. CASE j = i
      <4>1. o.work > 0 \/ o.start \/ \E k \in DOMAIN Tail(s) : Tail(s)[k] = "purchased"
        BY <1>6, <1>8, <2>5, <3>2 DEF Started
      <4>2. objs[c][i].work > 0 \/ objs[c][i].start \/ \E k \in DOMAIN s : s[k] = "purchased"
        BY <1>3, <2>2, <4>1 DEF Bought
      <4> QED BY <3>2, <4>2 DEF Started, s
    <3> QED BY <3>1, <3>2
  <2>6. Fresh(c)'
    BY <1>2, <1>5, <1>7, <1>8, <1>10 DEF ObjectsInv, Fresh
  <2>7. Unrented(c)'
    BY <1>1, <2>1 DEF Unrented
  <2>8. OneLoop(c)'
    <3>1. SUFFICES ASSUME chain[c].sold = 1, NEW j \in DOMAIN objs[c]
                   PROVE  /\ objs'[c][j].work <= 1 /\ (objs'[c][j].start => objs'[c][j].work = 0)
                          /\ \A k \in Bought(LogsOf(c, j)') :
                                /\ objs'[c][j].work = 0 /\ ~objs'[c][j].start
                                /\ \A m \in Bought(LogsOf(c, j)') : m = k
      BY <1>1, <1>8, <1>10 DEF OneLoop, Bought
    <3>2. /\ objs[c][j].work <= 1 /\ (objs[c][j].start => objs[c][j].work = 0)
          /\ \A k \in Bought(LogsOf(c, j)) :
                /\ objs[c][j].work = 0 /\ ~objs[c][j].start
                /\ \A m \in Bought(LogsOf(c, j)) : m = k
      BY <1>7, <1>10, <3>1 DEF ObjectsInv, OneLoop, Bought
    <3>3. CASE j # i
      BY <1>8, <2>3, <3>2, <3>3
    <3>4. CASE j = i
      <4>1. /\ objs[c][i].work <= 1 /\ (objs[c][i].start => objs[c][i].work = 0)
            /\ \A k \in Bought(s) : /\ objs[c][i].work = 0 /\ ~objs[c][i].start
                                    /\ \A m \in Bought(s) : m = k
        BY <3>2, <3>4 DEF s
      <4>2. o.work <= 1 /\ (o.start => o.work = 0)
        BY <1>3, <2>2, <4>1
      <4>3. ASSUME NEW k \in Bought(Tail(s))
            PROVE  o.work = 0 /\ ~o.start /\ \A m \in Bought(Tail(s)) : m = k
        <5>1. k + 1 \in Bought(s) /\ k + 1 # 1 /\ k \in Nat
          BY <2>2
        <5>2. e # "purchased" /\ o.work = 0 /\ ~objs[c][i].start
          BY <1>3, <2>2, <4>1, <5>1
        <5>3. ~o.start
          BY <1>3, <5>2
        <5>4. ASSUME NEW m \in Bought(Tail(s)) PROVE m = k
          <6>1. m + 1 \in Bought(s) /\ m \in Nat
            BY <2>2
          <6>2. m + 1 = k + 1
            BY <4>1, <5>1, <6>1
          <6> QED BY <5>1, <6>1, <6>2
        <5> QED BY <5>2, <5>3, <5>4
      <4> QED BY <1>6, <1>8, <3>4, <4>2, <4>3
    <3> QED BY <3>3, <3>4
  <2>9. Alone(c)'
    BY <1>1, <1>7, <1>8, <1>10, <2>5 DEF ObjectsInv, Alone
  <2>10. Loaded(c)'
    <3>1. SUFFICES ASSUME chain[c].sold <= 1, NEW j \in DOMAIN objs[c]
                   PROVE  /\ ~isBuyer /\ objs'[c][j].pc = "vars" /\ chain[c].term # 0 => objs'[c][j].half = 1
                          /\ ~isBuyer /\ objs'[c][j].data.term # 0 => objs'[c][j].data.dest = 1
                          /\ objs'[c][j].work > 0 /\ objs'[c][j].data.term = 0 => chain[c].term = 0
      BY <1>1, <1>8, <1>10 DEF Loaded
    <3>2. /\ ~isBuyer /\ objs[c][j].pc = "vars" /\ chain[c].term # 0 => objs[c][j].half = 1
          /\ ~isBuyer /\ objs[c][j].data.term # 0 => objs[c][j].data.dest = 1
          /\ objs[c][j].work > 0 /\ objs[c][j].data.term = 0 => chain[c].term = 0
      BY <1>7, <1>10, <3>1 DEF ObjectsInv, Loaded
    <3>3. CASE j # i
      BY <1>8, <3>2, <3>3
    <3>4. CASE j = i
      <4>1. o.pc # "vars" /\ o.work = objs[c][i].work /\ o.data = objs[c][i].data
        BY <1>2, <1>3
      <4> QED BY <1>8, <3>2, <3>4, <4>1
    <3> QED BY <3>3, <3>4
  <2> QED BY <1>10, <2>6, <2>7, <2>8, <2>9, <2>10 DEF ObjectsInv
<1> QED
  BY <1>9, <1>10

\* A purchase: the objects there are have not been told of one before.
LEMMA ObjectsBought ==
  ASSUME Shaped, Shaped', ManagerInv, \A d \in Contracts : ObjectsInv(d),
         NEW c \in Contracts, NEW me \in BOOLEAN, Purchase(c, me)
  PROVE  \A d \in Contracts : ObjectsInv(d)'
<1> SUFFICES ASSUME NEW d \in Contracts PROVE ObjectsInv(d)'
  OBVIOUS
<1> DEFINE fs == <<<<"purchased", c>>>>
           es == <<"purchased">>
<1>1. UNCHANGED <<isBuyer, objs>> /\ subs' = Published(fs, c, es)
  BY DEF Purchase, chainUnchanged
<1>2. fs \in Seq(Logs) /\ es \in Seq(ContractEvents)
  BY DEF Logs, FactoryEvents, ContractEvents
<1>3. /\ chain'[c].sold = chain[c].sold + 1 /\ chain'[c].term = chain[c].sold + 1
      /\ \A b \in Contracts : b # c => chain'[b] = chain[b]
  BY PurchaseFields
<1>4. Counted(d) /\ Rented(d) /\ ObjectsInv(d) /\ DOMAIN objs[d] \subseteq Objects
      /\ chain[d].sold \in Nat
  BY ObjectsKnown, UsesTyped DEF ManagerInv
<1> HIDE DEF fs
<1>5. \A j \in Objects :
         /\ LogsOf(d, j) \in Seq(ContractEvents)
         /\ LogsOf(d, j)' = (IF subs[<<d, j>>].st = "live" /\ d = c
                             THEN LogsOf(d, j) \o es ELSE LogsOf(d, j))
         /\ subs[<<d, j>>] = Off => subs'[<<d, j>>] = Off
  <2> HIDE DEF es
  <2> QED BY <1>1, <1>2, PublishedLogs DEF LogsOf, Shaped
<1>6. CASE d # c
  <2>1. \A j \in Objects : /\ LogsOf(d, j)' = LogsOf(d, j)
                           /\ subs[<<d, j>>] = Off => subs'[<<d, j>>] = Off
    BY <1>5, <1>6
  <2>2. chain'[d] = chain[d] /\ UNCHANGED isBuyer /\ objs'[d] = objs[d]
    BY <1>1, <1>3, <1>6
  <2> QED BY <1>4, <2>1, <2>2, ObjectsKept
<1>7. CASE d = c
  <2>1. Fresh(c)'
    BY <1>1, <1>4, <1>5, <1>7 DEF ObjectsInv, Fresh
  <2>2. CASE chain[c].sold # 0
    <3>1. chain'[c].sold # 0 /\ chain'[c].sold # 1 /\ ~(chain'[c].sold <= 1)
      BY <1>3, <1>4, <1>7, <2>2
    <3> QED BY <1>7, <2>1, <3>1 DEF ObjectsInv, Unrented, OneLoop, Alone, Loaded
  <2>3. CASE chain[c].sold = 0
    <3>1. ASSUME NEW j \in DOMAIN objs[c]
          PROVE  /\ objs[c][j].work = 0 /\ ~objs[c][j].start /\ objs[c][j].pc \in {"listen", "ended"}
                 /\ objs[c][j].data.term = 0
                 /\ \A k \in DOMAIN LogsOf(c, j)' : k = 1
      <4>1. /\ ~Started(c, j) /\ objs[c][j].pc \in {"listen", "ended"}
            /\ objs[c][j].data.term = 0 /\ LogsOf(c, j) = <<>>
        BY <1>4, <1>7, <2>3 DEF ObjectsInv, Unrented
      <4>2. objs[c][j].work = 0 /\ ~objs[c][j].start
        BY <4>1, ObjectKnown DEF Started
      <4>3. LogsOf(c, j)' \in {es, <<>>}
        <5>1. <<>> \o es = es
          BY <1>2, ConcatEmptySeq
        <5> QED BY <1>4, <1>5, <1>7, <4>1, <5>1
      <4>4. \A k \in DOMAIN LogsOf(c, j)' : k = 1
        BY <4>3
      <4> QED BY <4>1, <4>2, <4>4
    <3>2. chain'[c].sold = 1 /\ chain'[c].term = 1
      BY <1>3, <2>3
    <3>3. Unrented(c)'
      BY <3>2 DEF Unrented
    <3>4. OneLoop(c)'
      <4> SUFFICES ASSUME NEW j \in DOMAIN objs[c]
                   PROVE  /\ objs[c][j].work <= 1 /\ (objs[c][j].start => objs[c][j].work = 0)
                          /\ \A k \in DOMAIN LogsOf(c, j)' :
                                LogsOf(c, j)'[k] = "purchased" =>
                                   /\ objs[c][j].work = 0 /\ ~objs[c][j].start
                                   /\ \A m \in DOMAIN LogsOf(c, j)' : LogsOf(c, j)'[m] = "purchased" => m = k
        BY <1>1 DEF OneLoop
      <4> QED BY <3>1
    <3>5. Alone(c)'
      <4>1. Len(objs[c]) <= 1 /\ DOMAIN objs[c] = 1..Len(objs[c]) /\ Len(objs[c]) \in Nat
        BY <1>4, <1>7, <2>3, ObjectsKnown
      <4>2. \A i, j \in DOMAIN objs[c] : i = j
        BY <4>1
      <4> QED BY <1>1, <4>2 DEF Alone
    <3>6. Loaded(c)'
      BY <1>1, <3>1 DEF Loaded
    <3> QED BY <1>7, <2>1, <3>3, <3>4, <3>5, <3>6 DEF ObjectsInv
  <2> QED BY <2>2, <2>3
<1> QED
  BY <1>6, <1>7

\* An object is made: a seller's for a contract nobody rents, a buyer's for one it rents.
LEMMA ObjectsMade ==
  ASSUME Shaped, Shaped', ManagerInv, \A d \in Contracts : ObjectsInv(d), ReadVars
  PROVE  \A d \in Contracts : ObjectsInv(d)'
<1>1. UNCHANGED <<isBuyer, chain>> /\ Reads /\ \A d \in Contracts : Counted(d)
  BY ReadVarsEffect DEF ManagerInv
<1>2. CASE UNCHANGED <<objs, subs>>
  BY <1>1, <1>2, ObjectsStill
<1>3. CASE ~UNCHANGED <<objs, subs>>
  <2> SUFFICES ASSUME NEW d \in Contracts PROVE ObjectsInv(d)'
    OBVIOUS
  <2> PICK c \in Contracts : c = mgr.cur
    BY <1>1, ReadVarsEffect
  <2> PICK n : n = Len(objs[c]) + 1
    OBVIOUS
  <2> DEFINE s == objs[c]
             u == subs[<<c, n>>]
             v == [u EXCEPT !.st = "init"]
  <2>1. PICK o \in ObjectStates :
           /\ objs' = [objs EXCEPT ![c] = Append(s, o)] /\ o.pc = "listen" /\ o.start = FALSE
           /\ o.work = (IF chain[c].term = 0 THEN 0 ELSE 1) /\ o.data.term = chain[c].term
    BY <1>1, <1>3, ReadVarsEffect
  <2>2. n \in Objects /\ subs' = [subs EXCEPT ![<<c, n>>] = v] /\ ~Ignore(c)
    BY <1>1, <1>3, ReadVarsEffect
  <2>3. Counted(d) /\ Rented(d) /\ ObjectsInv(d) /\ DOMAIN objs[d] \subseteq Objects
        /\ chain[d].sold \in Nat
    BY ObjectsKnown, UsesTyped DEF ManagerInv
  <2>4. /\ subs \in [Subs -> Subscriptions] /\ objs \in [Contracts -> Seq(ObjectStates)]
        /\ \A b \in Contracts, j \in Objects : <<b, j>> \in Subs
    BY SubsShape DEF Shaped
  <2>5. v.logs = u.logs
    OBVIOUS
  <2> HIDE DEF v
  <2>6. /\ \A b \in Contracts, j \in Objects : <<b, j>> # <<c, n>> => subs'[<<b, j>>] = subs[<<b, j>>]
        /\ subs'[<<c, n>>] = v
    BY <2>2, <2>4
  <2>7. \A b \in Contracts, j \in Objects : LogsOf(b, j)' = LogsOf(b, j)
    BY <2>2, <2>5, <2>6 DEF LogsOf
  <2>8. CASE d # c
    <3>1. objs'[d] = objs[d] /\ \A j \in Objects : subs'[<<d, j>>] = subs[<<d, j>>]
      BY <2>1, <2>4, <2>6, <2>8
    <3> QED BY <1>1, <2>3, <2>7, <3>1, ObjectsKept
  <2>9. CASE d = c
    <3>1. /\ DOMAIN s = 1..Len(s) /\ Len(s) \in Nat /\ s \in Seq(ObjectStates)
      BY <2>4, LenProperties
    <3>2. /\ objs'[c] = Append(s, o) /\ Len(Append(s, o)) = n /\ Append(s, o) \in Seq(ObjectStates)
          /\ Append(s, o)[n] = o /\ \A j \in 1..Len(s) : Append(s, o)[j] = s[j]
      BY <2>1, <2>4, <3>1, AppendProperties
    <3>3. DOMAIN objs'[c] = 1..n
      BY <3>2, LenProperties
    <3>4. /\ DOMAIN objs'[c] = DOMAIN s \cup {n} /\ n \notin DOMAIN s /\ objs'[c][n] = o
          /\ \A j \in DOMAIN s : objs'[c][j] = s[j]
      BY <3>1, <3>2, <3>3
    <3>5. LogsOf(c, n) = <<>>
      BY <2>2, <2>3, <2>9, <3>4 DEF ObjectsInv, Fresh, LogsOf, Off
    <3>6. Fresh(c)'
      <4> SUFFICES ASSUME NEW j \in Objects, j \notin DOMAIN objs'[c] PROVE subs'[<<c, j>>] = Off
        BY DEF Fresh
      <4>1. j \notin DOMAIN s /\ j # n
        BY <3>4
      <4>2. subs'[<<c, j>>] = subs[<<c, j>>]
        BY <2>6, <4>1
      <4> QED BY <2>3, <2>9, <4>1, <4>2 DEF ObjectsInv, Fresh
    <3>7. /\ isBuyer => chain[c].term # 0
          /\ ~isBuyer => chain[c].term = 0
      BY <2>2 DEF Ignore
    <3>8. isBuyer => chain[c].sold # 0
      BY <2>3, <2>9, <3>7 DEF Rented
    <3>9. o.work \in {0, 1} /\ (~isBuyer => o.work = 0)
      BY <2>1, <3>7
    <3>10. \A j \in DOMAIN s : Started(c, j)' <=> Started(c, j)
      BY <2>3, <2>7, <2>9, <3>4 DEF Started
    <3>11. ~isBuyer => ~Started(c, n)'
      <4>1. LogsOf(c, n)' = <<>> /\ objs'[c][n] = o
        BY <2>2, <2>7, <3>4, <3>5
      <4> QED BY <2>1, <3>9, <4>1 DEF Started
    <3>12. Unrented(c)'
      <4> SUFFICES ASSUME chain[c].sold = 0, NEW j \in DOMAIN objs'[c]
                   PROVE  /\ ~isBuyer /\ ~Started(c, j)' /\ objs'[c][j].pc \in {"listen", "ended"}
                          /\ objs'[c][j].data.term = 0 /\ LogsOf(c, j) = <<>>
        BY <1>1, <2>2, <2>3, <2>7, <2>9, <3>4, <3>8 DEF Unrented
      <4>1. CASE j = n
        BY <2>1, <3>4, <3>5, <3>7, <3>8, <3>11, <4>1
      <4>2. CASE j \in DOMAIN s
        BY <2>3, <2>9, <3>4, <3>8, <3>10, <4>2 DEF ObjectsInv, Unrented
      <4> QED BY <3>4, <4>1, <4>2
    <3>13. OneLoop(c)'
      <4> SUFFICES ASSUME chain[c].sold = 1, NEW j \in DOMAIN objs'[c]
                   PROVE  /\ objs'[c][j].work <= 1 /\ (objs'[c][j].start => objs'[c][j].work = 0)
                          /\ \A k \in Bought(LogsOf(c, j)) :
                                /\ objs'[c][j].work = 0 /\ ~objs'[c][j].start
                                /\ \A m \in Bought(LogsOf(c, j)) : m = k
        BY <1>1, <2>2, <2>3, <2>7, <2>9, <3>4 DEF OneLoop, Bought
      <4>1. CASE j = n
        BY <2>1, <3>4, <3>5, <3>9, <4>1 DEF Bought
      <4>2. CASE j \in DOMAIN s
        BY <2>3, <2>9, <3>4, <4>2 DEF ObjectsInv, OneLoop, Bought
      <4> QED BY <3>4, <4>1, <4>2
    <3>14. Alone(c)'
      BY <1>1, <2>3, <2>9, <3>4, <3>10, <3>11 DEF ObjectsInv, Alone
    <3>15. Loaded(c)'
      <4> SUFFICES ASSUME chain[c].sold <= 1, NEW j \in DOMAIN objs'[c]
                   PROVE  /\ ~isBuyer /\ objs'[c][j].pc = "vars" /\ chain[c].term # 0 => objs'[c][j].half = 1
                          /\ ~isBuyer /\ objs'[c][j].data.term # 0 => objs'[c][j].data.dest = 1
                          /\ objs'[c][j].work > 0 /\ objs'[c][j].data.term = 0 => chain[c].term = 0
        BY <1>1 DEF Loaded
      <4>1. CASE j = n
        BY <2>1, <3>4, <3>7, <4>1
      <4>2. CASE j \in DOMAIN s
        BY <2>3, <2>9, <3>4, <4>2 DEF ObjectsInv, Loaded
      <4> QED BY <3>4, <4>1, <4>2
    <3> QED BY <2>9, <3>6, <3>12, <3>13, <3>14, <3>15 DEF ObjectsInv
  <2> QED BY <2>8, <2>9
<1> QED
  BY <1>2, <1>3

LEMMA ObjectsStep ==
  ASSUME Shaped, Shaped', ManagerInv, \A d \in Contracts : ObjectsInv(d),
         [DiscoveryNext]_discoveryVars
  PROVE  \A d \in Contracts : ObjectsInv(d)'
<1> DEFINE Goal == \A d \in Contracts : ObjectsInv(d)'
<1>1. ASSUME UNCHANGED <<isBuyer, chain, subs, objs>> PROVE Goal
  BY <1>1, ObjectsStill
<1>2. CASE AppNext /\ UNCHANGED <<isBuyer, chain, faults, subs, mgr, objs, lost, cancels>>
  BY <1>1, <1>2
<1>3. CASE MgrPanics
  BY <1>1, <1>3 DEF MgrPanics, ZeroLog
<1>4. CASE ReadContracts \/ Filter \/ ReadDest
  <2>1. UNCHANGED <<isBuyer, chain, subs, objs>>
    BY <1>4 DEF ReadContracts, Filter, ReadDest, mgrUnchanged
  <2> QED BY <1>1, <2>1
<1>5. CASE ReadContractFails \/ ReadContractsFails \/ MgrStops
  <2>1. UNCHANGED <<isBuyer, chain, subs, objs>>
    BY <1>5 DEF ReadContractFails, ReadContractsFails, MgrStops, MgrReturns, mgrUnchanged
  <2> QED BY <1>1, <2>1
<1>6. CASE NextExisting \/ TakeFactoryEvent
  <2>1. UNCHANGED <<isBuyer, chain, objs>>
    BY <1>6 DEF NextExisting, TakeFactoryEvent, mgrUnchanged
  <2>2. UNCHANGED subs \/ \E v : subs' = [subs EXCEPT ![FactorySub] = v]
    BY <1>6, NextEffect, TakeFactoryEffect
  <2>3. ASSUME NEW d \in Contracts, NEW i \in Objects
        PROVE  subs'[<<d, i>>] = subs[<<d, i>>] /\ LogsOf(d, i)' = LogsOf(d, i)
    BY <2>2, SubsShape DEF Shaped, LogsOf
  <2>4. ASSUME NEW d \in Contracts PROVE ObjectsInv(d)'
    <3>1. Counted(d) /\ Rented(d) /\ ObjectsInv(d) /\ DOMAIN objs[d] \subseteq Objects
      BY ObjectsKnown DEF ManagerInv
    <3>2. objs'[d] = objs[d] /\ chain'[d] = chain[d]
      BY <2>1
    <3> QED BY <2>1, <2>3, <3>1, <3>2, ObjectsKept
  <2> QED BY <2>4
<1>7. CASE ReadVars
  BY <1>7, ObjectsMade
<1>8. ASSUME NEW s \in Subs, SubConnects(s) \/ SubBreaks(s) PROVE Goal
  <2>1. UNCHANGED <<isBuyer, objs, chain>> /\ subs[s].st # "off"
    <3>1. UNCHANGED isBuyer
      BY <1>8 DEF SubConnects, SubBreaks, subUnchanged
    <3>2. UNCHANGED <<objs, chain>> /\ subs[s].st \in {"init", "live"}
      BY <1>8, SubEffect
    <3> QED BY <3>1, <3>2
  <2>2. PICK v \in Subscriptions :
           /\ subs' = [subs EXCEPT ![s] = v]
           /\ \E n \in 0..Len(subs[s].logs) : v.logs = SubSeq(subs[s].logs, 1, n)
    BY <1>8, SubEffect
  <2> QED BY <2>1, <2>2, ObjectsSub
<1>9. ASSUME NEW c \in Contracts, NEW mine \in BOOLEAN, Create(c, mine) PROVE Goal
  <2> DEFINE fs == <<<<"created", c>>>>
  <2>1. UNCHANGED <<isBuyer, objs>> /\ subs' = Published(fs, c, <<>>)
    BY <1>9 DEF Create, chainUnchanged
  <2>2. fs \in Seq(Logs) /\ <<>> \in Seq(ContractEvents) /\ Bought(<<>>) = {}
    BY DEF Logs, FactoryEvents, Bought
  <2>3. \A d \in Contracts : chain'[d].sold = chain[d].sold /\ chain'[d].term = chain[d].term
    BY <1>9, CreateFields
  <2> HIDE DEF fs
  <2> QED BY <2>1, <2>2, <2>3, ObjectsTold
<1>10. ASSUME NEW c \in Contracts, NEW me \in BOOLEAN, Purchase(c, me) PROVE Goal
  BY <1>10, ObjectsBought
<1>11. ASSUME NEW c \in Contracts, TermEnds(c) PROVE Goal
  <2>1. UNCHANGED <<isBuyer, objs, subs>>
    BY <1>11 DEF TermEnds, chainUnchanged
  <2>2. \A d \in Contracts : chain'[d].sold = chain[d].sold /\ chain'[d].term = chain[d].term
    BY <1>11, TermEndsFields
  <2> QED BY <2>1, <2>2, ObjectsStill
<1>12. ASSUME NEW c \in Contracts, NEW update \in BOOLEAN, CloseElsewhere(c, update) PROVE Goal
  <2> DEFINE es == IF update THEN <<"closed", "updated">> ELSE <<"closed">>
  <2>1. UNCHANGED <<isBuyer, objs>> /\ subs' = Published(<<>>, c, es) /\ chain' = Closed(c)
        /\ chain[c].term # 0
    BY <1>12 DEF CloseElsewhere, chainUnchanged
  <2>2. /\ Bought(<<"closed">>) = {} /\ Bought(<<"closed", "updated">>) = {}
        /\ <<"closed">> \in Seq(ContractEvents) /\ <<"closed", "updated">> \in Seq(ContractEvents)
    BY DEF Bought, ContractEvents
  <2>3. <<>> \in Seq(Logs) /\ es \in Seq(ContractEvents) /\ Bought(es) = {}
    BY <2>2
  <2>4. chain[c].sold # 0
    BY <2>1 DEF ManagerInv, Rented
  <2>5. \A d \in Contracts : /\ chain'[d].sold = chain[d].sold
                             /\ chain'[d].term \in {0, chain[d].term}
    BY <2>1, ClosedFields
  <2> HIDE DEF es
  <2> QED BY <2>1, <2>3, <2>4, <2>5, ObjectsTold
<1>13. ASSUME NEW c \in Contracts, NEW i \in Objects, ListenerPanics(c, i) PROVE Goal
  BY <1>1, <1>13 DEF ListenerPanics, ZeroLog
<1>14. ASSUME NEW c \in Contracts, NEW i \in Objects,
              LoadDest(c, i) \/ LoadFails(c, i) \/ ListenerStops(c, i)
       PROVE  Goal
  BY <1>14, ObjectsReload
<1>15. ASSUME NEW c \in Contracts, NEW i \in Objects, LoadVars(c, i) PROVE Goal
  BY <1>15, ObjectsLoad
<1>16. ASSUME NEW c \in Contracts, NEW i \in Objects, TakeContractEvent(c, i) PROVE Goal
  BY <1>16, ObjectsTake
<1>17. ASSUME NEW c \in Contracts, NEW i \in Objects,
              NEW why \in {"expired", "allocation", "context"}, FulfilmentEnds(c, i, why)
       PROVE  Goal
  BY <1>17, ObjectsEnd
<1>18. CASE UNCHANGED discoveryVars
  BY <1>1, <1>18 DEF discoveryVars
<1> QED
  BY <1>2, <1>3, <1>4, <1>5, <1>6, <1>7, <1>8, <1>9, <1>10, <1>11, <1>12, <1>13, <1>14, <1>15,
     <1>16, <1>17, <1>18 DEF DiscoveryNext, ManagerSteps

\* A fulfilment that ends because its term is over: if the rental is not, it is a later one.
LEMMA CancelsStep ==
  ASSUME Shaped, Shaped', ManagerInv, \A d \in Contracts : ObjectsInv(d),
         \A z \in cancels : z[1] \in Contracts /\ (z[2] = "expired" => ~z[3] /\ chain[z[1]].sold > 1),
         [DiscoveryNext]_discoveryVars
  PROVE  \A z \in cancels' : z[1] \in Contracts /\ (z[2] = "expired" => ~z[3] /\ chain'[z[1]].sold > 1)
<1>1. \A c \in Contracts : /\ chain'[c].sold >= chain[c].sold
                           /\ chain[c].sold \in Nat /\ chain'[c].sold \in Nat
  BY ChainSafe, UsesTyped, UsesTypedNext DEF ManagerInv
<1>2. \A c \in Contracts : chain[c].sold > 1 => chain'[c].sold > 1
  BY <1>1
<1>3. CASE UNCHANGED cancels
  BY <1>2, <1>3
<1>4. ASSUME NEW c \in Contracts, NEW i \in Objects,
             NEW why \in {"expired", "allocation", "context"}, FulfilmentEnds(c, i, why),
             cancels' # cancels
      PROVE  \A z \in cancels' : z[1] \in Contracts /\ (z[2] = "expired" => ~z[3] /\ chain'[z[1]].sold > 1)
  <2> DEFINE t == objs[c][i].data.term
             new == <<c, why, t = chain[c].term>>
  <2>1. chain[c].term > chain[c].ended /\ cancels' = cancels \cup {new}
    BY <1>4 DEF FulfilmentEnds
  <2>2. i \in DOMAIN objs[c] /\ objs[c][i].work > 0
    BY <1>4, EndsEffect
  <2>3. chain[c].term \in Nat /\ chain[c].ended \in Nat /\ chain[c].sold \in Nat /\ t \in Nat
        /\ chain[c].term \in {0, chain[c].sold}
    <3>1. chain[c].term \in Nat /\ chain[c].ended \in Nat /\ chain[c].sold \in Nat
      BY DiscoveryAssumption DEF Shaped, OnChain
    <3>2. chain[c].term \in {0, chain[c].sold}
      BY DEF ManagerInv, Rented
    <3>3. objs[c][i].data \in Datas
      BY <2>2, ObjectKnown
    <3>4. t \in Nat
      BY <3>3, DiscoveryAssumption DEF Datas
    <3> QED BY <3>1, <3>2, <3>4
  <2>4. ASSUME why = "expired" PROVE t # chain[c].term /\ chain[c].sold > 1
    <3>1. t <= chain[c].ended
      BY <1>4, <2>4 DEF FulfilmentEnds, Expired
    <3>2. t # chain[c].term /\ chain[c].term # 0
      BY <2>1, <2>3, <3>1
    <3>3. ASSUME chain[c].sold <= 1 PROVE FALSE
      <4>1. chain[c].term = 1 /\ chain[c].ended = 0 /\ t = 0
        BY <2>1, <2>3, <3>1, <3>2, <3>3
      <4>2. chain[c].term = 0
        BY <2>2, <3>3, <4>1 DEF ObjectsInv, Loaded
      <4> QED BY <4>1, <4>2
    <3> QED BY <2>3, <3>2, <3>3
  <2>5. new[1] \in Contracts /\ (new[2] = "expired" => ~new[3] /\ chain'[new[1]].sold > 1)
    BY <1>2, <2>4
  <2> HIDE DEF new
  <2> QED BY <1>2, <2>1, <2>5
<1>5. UNCHANGED cancels \/ \E c \in Contracts, i \in Objects,
                              why \in {"expired", "allocation", "context"} : FulfilmentEnds(c, i, why)
  <2>1. CASE ManagerSteps \/ ReadContractFails \/ ReadContractsFails \/ MgrStops \/ MgrPanics
    BY <2>1 DEF ManagerSteps, ReadContracts, Filter, NextExisting, TakeFactoryEvent, ReadDest,
       ReadVars, ReadContractFails, mgrUnchanged, ReadContractsFails, MgrStops, MgrPanics,
       MgrReturns, ZeroLog
  <2>2. ASSUME NEW s \in Subs, SubConnects(s) \/ SubBreaks(s) PROVE UNCHANGED cancels
    BY <2>2 DEF SubConnects, SubBreaks, subUnchanged
  <2>3. ASSUME NEW c \in Contracts,
               \/ \E mine \in BOOLEAN : Create(c, mine)
               \/ \E me \in BOOLEAN : Purchase(c, me)
               \/ TermEnds(c) \/ \E update \in BOOLEAN : CloseElsewhere(c, update)
        PROVE  UNCHANGED cancels
    BY <2>3 DEF Create, Purchase, TermEnds, CloseElsewhere, chainUnchanged
  <2>4. ASSUME NEW c \in Contracts, NEW i \in Objects,
               \/ TakeContractEvent(c, i) \/ LoadDest(c, i) \/ LoadVars(c, i)
               \/ LoadFails(c, i) \/ ListenerStops(c, i) \/ ListenerPanics(c, i)
        PROVE  UNCHANGED cancels
    BY <2>4 DEF TakeContractEvent, LoadDest, LoadVars, LoadFails, ListenerStops, ListenerPanics,
       ZeroLog
  <2>5. CASE UNCHANGED discoveryVars
    BY <2>5 DEF discoveryVars
  <2> QED BY <2>1, <2>2, <2>3, <2>4, <2>5 DEF DiscoveryNext
<1> QED
  BY <1>3, <1>4, <1>5

LEMMA DiscoverySound == DiscoveryInv /\ [DiscoveryNext]_discoveryVars => DiscoveryInv'
<1> SUFFICES ASSUME DiscoveryInv, [DiscoveryNext]_discoveryVars PROVE DiscoveryInv'
  OBVIOUS
<1>1. /\ AppTypeOK /\ Shaped /\ ManagerInv /\ Harmless /\ \A c \in Contracts : ObjectsInv(c)
  BY DEF DiscoveryInv
<1>2. Shaped'
  BY <1>1, ShapedStep
<1>3. ManagerInv'
  BY <1>1, <1>2, ManagerKeeps
<1>4. \A c \in Contracts : ObjectsInv(c)'
  BY <1>1, <1>2, ObjectsStep
<1>5. /\ AppTypeOK'
      /\ app' = "init" => \A k \in Components : part'[k] = "off"
      /\ app' = "panicked" /\ part'["tcp"] # "off" => cancelled'
  BY <1>1, AppSafe DEF Harmless
<1>6. \A z \in cancels' : z[1] \in Contracts /\ (z[2] = "expired" => ~z[3] /\ chain'[z[1]].sold > 1)
  BY <1>1, <1>2, CancelsStep DEF Harmless
<1>7. Harmless'
  BY <1>5, <1>6 DEF Harmless
<1> QED
  BY <1>2, <1>3, <1>4, <1>5, <1>7 DEF DiscoveryInv
=============================================================================
