----------------------------- MODULE MCSession ------------------------------
(***************************************************************************)
(* A miner's connection from its handler to its end, and the switches of a *)
(* connection between pools, checked in one run.  A behaviour exercises    *)
(* one of them, named by which: a session has one pool, and PoolSwitch no  *)
(* handler.                                                                *)
(***************************************************************************)
EXTENDS MinerSession, PoolSwitch

VARIABLE which

all == <<sessionVars, routeVars, which>>

Init == SessionInit /\ SwitchInit /\ which \in {"session", "switch"}

Relays == which = "session" /\ UNCHANGED <<which, routeVars>>
Routes == which = "switch" /\ UNCHANGED <<which, sessionVars>>

PeerStep ==
    \/ \E k \in DOMAIN Handshake : (Relays /\ MinerShakesHands(k))
    \/ (Relays /\ MinerSubmits) \/ (Relays /\ MinerAsksElse) \/ (Relays /\ MinerGarbles)
    \/ (Relays /\ MinerLeaves) \/ (Relays /\ PoolLeaves)
    \/ \E q \in theirs.asked, error \in BOOLEAN : (Relays /\ PoolAnswers(q, error))
    \/ \E cleanJobs \in BOOLEAN : (Relays /\ PoolNotifies(cleanJobs))
    \/ (Relays /\ PoolSetsExtranonce) \/ (Relays /\ PoolShowsMessage)

SessionStep ==
    \/ (Relays /\ Peek) \/ (Relays /\ PeekFails) \/ (Relays /\ DialDefault)
    \/ (Relays /\ DialDefaultFails) \/ (Relays /\ Subscribed) \/ (Relays /\ Authorized)
    \/ (Relays /\ LoginFails) \/ (Relays /\ Hold) \/ (Relays /\ StartSession)
    \/ (Relays /\ ChangesDest) \/ (Relays /\ DestChanged) \/ (Relays /\ ChangeDestFails)
    \/ (Relays /\ ContextDone) \/ (Relays /\ TakeError)
    \/ (Relays /\ ReadPool) \/ (Relays /\ Emit) \/ (Relays /\ RegisterWait)
    \/ (Relays /\ ReadConfigure) \/ (Relays /\ ReadHandshake) \/ (Relays /\ ConfigureResult)
    \/ (Relays /\ ConnectFails) \/ (Relays /\ StartRelays)
    \/ (Relays /\ RelayUp) \/ (Relays /\ RelayDown) \/ (Relays /\ RelayDownFails)

SwitchStep ==
    \/ \E w \in Callers :
          \/ \E h \in Hosts : (Routes /\ SetDest(w, h))
          \/ (Routes /\ Load(w)) \/ (Routes /\ SetCached(w)) \/ (Routes /\ ResendCurrent(w))
          \/ (Routes /\ ResendEnds(w)) \/ (Routes /\ Dial(w)) \/ (Routes /\ DialFails(w))
          \/ (Routes /\ ResendNew(w)) \/ (Routes /\ ResendNewEnds(w))
          \/ (Routes /\ SetNew(w)) \/ (Routes /\ Store(w))
    \/ (Routes /\ TellDifficulty) \/ \E d \in Difficulties : (Routes /\ poolInterceptor(d))
    \/ \E s \in Shares :
          \/ (Routes /\ MineShare(s)) \/ (Routes /\ Register(s)) \/ (Routes /\ Write(s))
          \/ \E c \in Conns, ok \in BOOLEAN : (Routes /\ Answer(c, s, ok))

Next == PeerStep \/ SessionStep \/ SwitchStep

\* Goroutines run, and a select that finds an error over again and again takes it.
\* Nothing is assumed of pools, miners or changes of destination.
Fairness == /\ WF_all(Relays /\ Handling) /\ WF_all(Relays /\ Modelling)
            /\ WF_all(Relays /\ RegisterWait) /\ WF_all(Relays /\ (RelayDown \/ RelayDownFails))
            /\ SF_all(Relays /\ TakeError)

Spec == Init /\ [][Next]_all /\ Fairness
-----------------------------------------------------------------------------
\* The types of a session and of a switch.
TypeOK == SessionTypeOK /\ SwitchTypeOK

\* What a miner and its pool may rely on (see MinerSession).
SessionSound == AnswersMatch /\ ExtranonceFresh /\ SharesNamed
=============================================================================
