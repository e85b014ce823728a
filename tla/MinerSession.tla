---------------------------- MODULE MinerSession ----------------------------
(***************************************************************************)
(* The life of one miner's connection: the TCP server's handler peeks at   *)
(* it, dials the default pool, lists the miner in the collection and runs  *)
(* its scheduler, until the miner's handshake, one of the two goroutines   *)
(* that relay messages, or the scheduler itself fails (miner_controller.go,*)
(* stratum_v1_miner_model.go, stratum_v1_miner_conn.go,                    *)
(* stratum_v1_pool_conn.go, the TCP server).                               *)
(*                                                                         *)
(* There is one destination: StratumRouting and PoolSwitch have the        *)
(* switches between pools, and here an attempt to go elsewhere only        *)
(* succeeds or fails.  The difficulty, which is cached and resent as a job *)
(* is, timers, logging and the channels' capacity of 100 are left out.     *)
(***************************************************************************)
EXTENDS StratumMessages, Sequences, FiniteSets

CONSTANTS MaxLines,    \* lines the miner sends
          MaxPushes    \* lines the pool sends of its own accord

ASSUME SessionAssumption == {MaxLines, MaxPushes} \subseteq Nat

VARIABLES serving,   \* where HandleConnection and the scheduler's Run stand
          listed,    \* the miner is in the collection
          asking,    \* the SendPoolRequestWait under way
          model,     \* where stratumV1MinerModel.Run stands
          up, down,  \* its relays: pool to miner, miner to pool
          miner,     \* the miner: lines sent and not read, ids used, handshake, gone
          told,      \* how many results the miner was given, by id
          nonce,     \* the extranonce the miner was given last
          theirs,    \* the pool: requests unanswered, lines not read, extranonce, users of
                     \* the shares it got, gone
          answers,   \* the miner's requests the pool has answered
          msgCh, emitted, isReading, resHandlers, extraNonceMsg, notifyMsgs, lastRequestId,
          early      \* an extranonce was read from the pool before the relays started

poolConnVars == <<msgCh, emitted, isReading, resHandlers, extraNonceMsg, notifyMsgs, lastRequestId>>
runVars == <<serving, listed, asking, model, up, down>>
peerVars == <<miner, told, nonce, theirs, answers, early>>
sessionVars == <<runVars, peerVars, poolConnVars>>

SessionIds == 0..(MaxLines + 3)
NotAsking == [id |-> NoID, for |-> NoID, st |-> "none", result |-> NoField]
Waiting == asking.st \in {"written", "registered"}
Done == serving = "done"

SessionTypeOK ==
    /\ serving \in {"peek", "dial", "subscribe", "authorize", "hold", "resend", "select", "changing", "done"}
    /\ listed = (serving \in {"select", "changing"})
    /\ asking.id \in SessionIds /\ asking.st \in {"none", "written", "registered", "true", "refused"}
    /\ model \in {"off", "connect", "resend", "send", "done"}
    /\ {up, down} \subseteq {"off", "read", "send", "done"}
    /\ miner.asked \subseteq SessionIds /\ miner.sent \in 0..MaxLines
    /\ told \in [SessionIds -> Nat] /\ {nonce, extraNonceMsg} \subseteq 0..(MaxPushes + 1)
    /\ resHandlers \subseteq SessionIds /\ lastRequestId \in SessionIds /\ Len(emitted) <= 1

SessionInit ==
    /\ serving = "peek" /\ listed = FALSE /\ asking = NotAsking
    /\ model = "off" /\ up = "off" /\ down = "off"
    /\ miner = [sent |-> 0, unread |-> <<>>, step |-> 0, asked |-> {}, gone |-> FALSE]
    /\ told = [i \in SessionIds |-> 0] /\ nonce = 0
    /\ theirs = [asked |-> {}, unread |-> <<>>, pushed |-> 0, nonce |-> 1, users |-> {},
                 gone |-> FALSE]
    /\ answers = {} /\ early = FALSE
    /\ msgCh = <<>> /\ emitted = <<>> /\ isReading = FALSE /\ resHandlers = {}
    /\ extraNonceMsg = 0 /\ notifyMsgs = <<>> /\ lastRequestId = 0
-----------------------------------------------------------------------------
(* The miner: configure if it likes, subscribe, authorize, and submits once it is told *)
(* that it is authorized; at any time a method the node does not know, or garbage.     *)

Handshake == <<"mining.configure", "mining.subscribe", "mining.authorize">>
minerUnchanged == UNCHANGED <<runVars, poolConnVars, told, nonce, theirs, answers, early>>
Sends(l, step) ==
    /\ ~miner.gone /\ ~Done /\ miner.sent < MaxLines
    /\ miner' = [miner EXCEPT !.sent = @ + 1, !.unread = Append(@, l), !.step = step,
                              !.asked = IF l.sound THEN @ \cup {l.id} ELSE @]
    /\ minerUnchanged
MinerAsks(method, step) == Sends(Request(method, miner.sent + 1, "worker"), step)

MinerShakesHands(k) == /\ k > miner.step /\ (k = 3 => miner.step = 2) /\ MinerAsks(Handshake[k], k)
MinerSubmits == miner.step = 3 /\ model = "done" /\ MinerAsks("mining.submit", 3)
MinerAsksElse == MinerAsks("mining.extranonce.subscribe", miner.step)
MinerGarbles == Sends(Garbled, miner.step)
MinerLeaves == ~miner.gone /\ ~Done /\ miner' = [miner EXCEPT !.gone = TRUE] /\ minerUnchanged

(* The pool: it answers requests in any order, an error or the extranonce it has, and  *)
(* pushes jobs, a new extranonce, and methods the node does not know.                  *)

poolUnchanged == UNCHANGED <<runVars, poolConnVars, miner, told, nonce, early>>
PoolIsConnected == serving \notin {"peek", "dial", "done"} /\ ~theirs.gone
PoolAnswers(q, error) ==
    /\ PoolIsConnected /\ q \in theirs.asked
    /\ theirs' = [theirs EXCEPT !.asked = @ \ {q},
                                !.unread = Append(@, Line("", q[1], NoField, theirs.nonce, error))]
    /\ answers' = IF q[2] = "miner" THEN answers \cup {q[1]} ELSE answers
    /\ poolUnchanged
Pushes(l, n) == /\ PoolIsConnected /\ theirs.pushed < MaxPushes
                /\ theirs' = [theirs EXCEPT !.pushed = @ + 1, !.unread = Append(@, l), !.nonce = n]
                /\ UNCHANGED answers /\ poolUnchanged
PoolNotifies(cleanJobs) == Pushes(Request("mining.notify", NoID, <<"job", cleanJobs>>), theirs.nonce)
PoolSetsExtranonce == Pushes(Request("mining.set_extranonce", NoID, <<theirs.nonce + 1, "float64">>),
                             theirs.nonce + 1)
PoolShowsMessage == Pushes(Request("client.show_message", NoID, <<"text", "">>), theirs.nonce)
PoolLeaves == /\ PoolIsConnected /\ theirs' = [theirs EXCEPT !.gone = TRUE]
              /\ UNCHANGED answers /\ poolUnchanged
-----------------------------------------------------------------------------
(* StratumV1PoolConn: its reader, and requests of its own. *)

Handled(m) == m.kind = "result" /\ m.id \in resHandlers

\* One line: readInterceptor caches a job, or calls the handler of a result, which
\* passes the result to the SendPoolRequestWait that waits for it.  Nobody closes the
\* connection to the pool (miner_controller.go:60): what its reader does once the handler
\* has returned is left out, as nobody sees it.
ReadPool ==
    /\ ~Done /\ emitted = <<>> /\ theirs.unread # <<>>
    /\ LET m == ParseMessageFromPool(Head(theirs.unread)) IN
       /\ emitted' = <<m>>
       /\ notifyMsgs' = IF m.kind # "mining.notify" THEN notifyMsgs
                        ELSE IF m.params[2] THEN <<m>> ELSE Append(notifyMsgs, m)
       /\ resHandlers' = IF Handled(m) THEN resHandlers \ {m.id} ELSE resHandlers
       /\ asking' = IF Handled(m) /\ asking.st = "registered" /\ asking.id = m.id
                    THEN [asking EXCEPT !.st = IF IsError(m) THEN "refused" ELSE "true",
                                        !.result = m.result]
                    ELSE asking
    /\ theirs' = [theirs EXCEPT !.unread = Tail(@)]
    /\ UNCHANGED <<serving, listed, model, up, down, miner, told, nonce, answers, early,
                   msgCh, isReading, extraNonceMsg, lastRequestId>>

\* A "fix" of the handlers' "do not proxy this request" that drops every handled result.
EmitUnhandled ==
    /\ ~Done /\ emitted # <<>> /\ emitted' = <<>>
    /\ msgCh' = IF isReading /\ (emitted[1].kind # "result") THEN msgCh \o emitted ELSE msgCh
    /\ early' = (early \/ (emitted[1].kind = "mining.set_extranonce" /\ up = "off"))
    /\ UNCHANGED <<runVars, miner, told, nonce, theirs, answers, isReading, resHandlers,
                   extraNonceMsg, notifyMsgs, lastRequestId>>

\* What was read goes on to the miner if the connection is not held, whether a handler
\* took it or not, and also when it could not be parsed and is nil.
Emit ==
    /\ ~Done /\ emitted # <<>> /\ emitted' = <<>>
    /\ msgCh' = IF isReading THEN msgCh \o emitted ELSE msgCh
    /\ early' = (early \/ (emitted[1].kind = "mining.set_extranonce" /\ up = "off"))
    /\ UNCHANGED <<runVars, miner, told, nonce, theirs, answers, isReading, resHandlers,
                   extraNonceMsg, notifyMsgs, lastRequestId>>

\* SendPoolRequestWait writes the request under an id of the connection's own, and
\* registers the handler of its answer after that.
SendPoolRequest(original) ==
    /\ lastRequestId' = lastRequestId + 1
    /\ asking' = [NotAsking EXCEPT !.id = lastRequestId + 1, !.for = original, !.st = "written"]
    /\ theirs' = [theirs EXCEPT !.asked = @ \cup {<<lastRequestId + 1, "node">>}]
RegisterWait ==
    /\ asking.st = "written" /\ asking' = [asking EXCEPT !.st = "registered"]
    /\ resHandlers' = resHandlers \cup {asking.id}
    /\ UNCHANGED <<serving, listed, model, up, down, peerVars, msgCh, emitted, isReading,
                   extraNonceMsg, notifyMsgs, lastRequestId>>

GetExtranonce == extraNonceMsg
Resent == msgCh \o <<NewMiningSetExtranonceV2(GetExtranonce)>> \o notifyMsgs
-----------------------------------------------------------------------------
(* HandleConnection, with the Connect of its pool connection, and the scheduler's Run. *)

At(s) == serving = s
\* The collection is not told of the end (no defer).
ServesOn(s) == serving' = s /\ listed' = (listed \/ s = "select")
Serves(s) == serving' = s /\ listed' = (s \in {"select", "changing"})
runUnchanged == UNCHANGED <<up, down, miner, told, nonce, answers, early, msgCh, emitted>>
connUnchanged == UNCHANGED <<isReading, resHandlers, extraNonceMsg, notifyMsgs>>
asksUnchanged == UNCHANGED <<asking, theirs, lastRequestId>>
Closes == /\ Serves("done") /\ connUnchanged /\ runUnchanged /\ UNCHANGED <<model, theirs, lastRequestId>>
          /\ asking' = NotAsking

\* The first JSON value has to look like a request; then the default pool is dialled.
Peek == /\ At("peek") /\ miner.unread # <<>> /\ Head(miner.unread).sound
        /\ Serves("dial") /\ connUnchanged /\ asksUnchanged /\ runUnchanged /\ UNCHANGED model
PeekFails == /\ At("peek") /\ IF miner.unread = <<>> THEN miner.gone ELSE ~Head(miner.unread).sound
             /\ Closes
DialDefault == /\ At("dial") /\ Serves("subscribe") /\ SendPoolRequest(NoID)
        /\ connUnchanged /\ runUnchanged /\ UNCHANGED model
DialDefaultFails == At("dial") /\ Closes
Subscribed ==
    /\ At("subscribe") /\ asking.st = "true" /\ extraNonceMsg' = asking.result
    /\ ~theirs.gone /\ Serves("authorize") /\ SendPoolRequest(NoID)
    /\ runUnchanged /\ UNCHANGED <<model, isReading, resHandlers, notifyMsgs>>
Authorized ==
    /\ At("authorize") /\ asking.st = "true" /\ asking' = NotAsking
    /\ Serves("hold") /\ isReading' = TRUE
    /\ runUnchanged /\ UNCHANGED <<model, theirs, lastRequestId, resHandlers, extraNonceMsg, notifyMsgs>>
LoginFails == /\ \/ (At("subscribe") \/ At("authorize")) /\ asking.st = "refused"
                 \/ At("subscribe") /\ asking.st = "true" /\ theirs.gone
              /\ Closes
Hold == /\ At("hold") /\ Serves("resend") /\ isReading' = FALSE
        /\ asksUnchanged /\ runUnchanged /\ UNCHANGED <<model, resHandlers, extraNonceMsg, notifyMsgs>>
\* The jobs are resent, the miner is listed, and its model runs in a goroutine.
StartSession ==
    /\ At("resend") /\ Serves("select") /\ msgCh' = Resent /\ isReading' = TRUE
    /\ model' = "connect" /\ asksUnchanged
    /\ UNCHANGED <<up, down, peerVars, emitted, resHandlers, extraNonceMsg, notifyMsgs>>
        
ChangesDest == /\ At("select") /\ Serves("changing")
               /\ connUnchanged /\ asksUnchanged /\ runUnchanged /\ UNCHANGED model
DestChanged == /\ At("changing") /\ Serves("select")
               /\ connUnchanged /\ asksUnchanged /\ runUnchanged /\ UNCHANGED model
SchedulerReturns == /\ Serves("done") /\ connUnchanged /\ asksUnchanged
        /\ UNCHANGED <<miner, told, nonce, answers, early, msgCh, emitted>>
ChangeDestFails == At("changing") /\ SchedulerReturns /\ UNCHANGED <<model, up, down>>
ContextDone == At("select") /\ SchedulerReturns /\ UNCHANGED <<model, up, down>>
\* errCh has no buffer: a sender waits until the scheduler selects, for ever if that has
\* returned.
TakeError ==
    /\ At("select") /\ SchedulerReturns
    /\ \/ model = "send" /\ model' = "done" /\ UNCHANGED <<up, down>>
       \/ up = "send" /\ up' = "done" /\ UNCHANGED <<model, down>>
       \/ down = "send" /\ down' = "done" /\ UNCHANGED <<model, up>>
-----------------------------------------------------------------------------
(* stratumV1MinerModel: Connect, then the relays. *)

modelUnchanged == UNCHANGED <<serving, listed, answers, early, emitted, isReading, extraNonceMsg,
                              notifyMsgs>>
Tells(id) == told' = [told EXCEPT ![id] = @ + 1]
\* A write to a miner that left may fail; one to a connection that was closed does.
Unreachable == miner.gone \/ Done
Reads(at) == at /\ ~Done /\ miner.unread # <<>> /\ miner' = [miner EXCEPT !.unread = Tail(@)]
ReadFails(at) == at /\ (Done \/ (miner.gone /\ miner.unread = <<>>))
FromMiner == ParseMessageToPool(Head(miner.unread))
quietly == UNCHANGED <<up, down, msgCh, resHandlers>> /\ modelUnchanged

ReadConfigure ==
    /\ Reads(model = "connect" /\ ~Waiting /\ asking.st = "none") /\ FromMiner.kind = "mining.configure"
    /\ \/ ~theirs.gone /\ SendPoolRequest(FromMiner.id) /\ UNCHANGED model
       \/ theirs.gone /\ model' = "send" /\ asksUnchanged
    /\ UNCHANGED <<told, nonce>> /\ quietly
\* The handshake: a subscribe is answered with the pool's extranonce, an authorize with
\* true, and what is not of the handshake is dropped without an answer.
ReadHandshake ==
    /\ Reads(model = "connect" /\ asking.st = "none") /\ FromMiner.kind # "mining.configure"
    /\ LET m == FromMiner IN
       CASE m.kind = "mining.subscribe" ->
                \/ Tells(m.id) /\ nonce' = GetExtranonce /\ UNCHANGED model
                \/ Unreachable /\ model' = "send" /\ UNCHANGED <<told, nonce>>
         [] m.kind = "mining.authorize" ->
                \/ Tells(m.id) /\ model' = "resend" /\ UNCHANGED nonce
                \/ Unreachable /\ model' = "send" /\ UNCHANGED <<told, nonce>>
         [] OTHER -> UNCHANGED <<told, nonce, model>>
    /\ asksUnchanged /\ quietly

\* Sends the configure's result under the id of the connection's own request.
ConfigureResultWithoutID ==
    /\ model = "connect" /\ asking.st \in {"true", "refused"} /\ asking' = NotAsking
    /\ \/ asking.st = "true" /\ Tells(asking.id) /\ UNCHANGED model
       \/ (asking.st = "refused" \/ Unreachable) /\ model' = "send" /\ UNCHANGED told
    /\ UNCHANGED <<miner, nonce, theirs, lastRequestId>> /\ quietly
\* The configure's result goes back under the miner's id; an error ends the handshake.
ConfigureResult ==
    /\ model = "connect" /\ asking.st \in {"true", "refused"} /\ asking' = NotAsking
    /\ \/ asking.st = "true" /\ Tells(asking.for) /\ UNCHANGED model
       \/ (asking.st = "refused" \/ Unreachable) /\ model' = "send" /\ UNCHANGED told
    /\ UNCHANGED <<miner, nonce, theirs, lastRequestId>> /\ quietly
ConnectFails == /\ ReadFails(model = "connect" /\ asking.st = "none") /\ model' = "send"
                /\ UNCHANGED <<miner, told, nonce>> /\ asksUnchanged /\ quietly
StartRelays == /\ model = "resend" /\ model' = "done" /\ up' = "read" /\ down' = "read"
               /\ msgCh' = Resent
               /\ UNCHANGED <<resHandlers, miner, told, nonce>> /\ asksUnchanged /\ modelUnchanged

relayUnchanged == UNCHANGED <<model, asking, lastRequestId>> /\ modelUnchanged
\* The pool's message, or an error when it is nil or the miner is out of reach.
RelayUp ==
    /\ up = "read" /\ msgCh # <<>> /\ msgCh' = Tail(msgCh)
    /\ LET m == Head(msgCh) IN
       \/ /\ m.kind # "nil" /\ ~Done /\ UNCHANGED up
          /\ IF m.kind = "result" THEN Tells(m.id) ELSE UNCHANGED told
          /\ nonce' = IF m.kind = "mining.set_extranonce" THEN m.params[1] ELSE nonce
       \/ (m.kind = "nil" \/ Unreachable) /\ up' = "send" /\ UNCHANGED <<told, nonce>>
    /\ UNCHANGED <<down, miner, theirs, resHandlers>> /\ relayUnchanged
\* A submit goes out under the name the destination gives its user, whatever name the
\* miner has; everything else as it came.
Username == "user"
writeInterceptor(m) == IF m.kind = "mining.submit" THEN [m EXCEPT !.params = Username] ELSE m
\* StratumV1PoolConn.Write: the line the pool gets.
Written(m) == Serialize(writeInterceptor(m))
Gets(l) == theirs' = [theirs EXCEPT !.asked = @ \cup {<<l.id, "miner">>},
                                    !.users = IF l.method = "mining.submit" THEN @ \cup {l.params} ELSE @]

\* The miner's message: a submit's handler is registered, and the pool is written to.
RelayDown ==
    /\ Reads(down = "read")
    /\ LET m == FromMiner IN
       /\ resHandlers' = IF m.kind = "mining.submit" THEN resHandlers \cup {m.id} ELSE resHandlers
       /\ IF m.kind = "nil" THEN UNCHANGED <<theirs, down>>
          ELSE \/ ~theirs.gone /\ Gets(Written(m)) /\ UNCHANGED down
               \/ theirs.gone /\ down' = "send" /\ UNCHANGED theirs
    /\ UNCHANGED <<up, told, nonce, msgCh>> /\ relayUnchanged
\* A relay that gives up without a word.
RelayDownReturns == /\ ReadFails(down = "read") /\ down' = "done"
                    /\ UNCHANGED <<up, miner, theirs, told, nonce, msgCh, resHandlers>> /\ relayUnchanged
RelayDownFails == /\ ReadFails(down = "read") /\ down' = "send"
                  /\ UNCHANGED <<up, miner, theirs, told, nonce, msgCh, resHandlers>> /\ relayUnchanged
-----------------------------------------------------------------------------
Handling == \/ Peek \/ PeekFails \/ DialDefault \/ DialDefaultFails \/ Subscribed \/ Authorized \/ LoginFails
            \/ Hold \/ StartSession
Modelling == \/ ReadConfigure \/ ReadHandshake \/ ConfigureResult \/ ConnectFails \/ StartRelays

\* The pool was quiet long enough for everything it said to have reached the miner.
Relayed == up = "read" /\ theirs.unread = <<>> /\ emitted = <<>> /\ msgCh = <<>>

\* The miner is told at most one result for each request, under the id of that request,
\* and the answer the pool gave to a request reaches it.  Beyond that only the answers to
\* the connection's own authorize and configure slip through, under ids that may also
\* be the miner's (stratum_v1_pool_conn.go:170, :97; stratum_v1_miner_model.go:61).
AnswersMatch ==
    /\ \A i \in SessionIds : told[i] <= Cardinality({i} \cap miner.asked) + Cardinality({i} \cap (2..lastRequestId))
    /\ Relayed => \A i \in answers : told[i] > 0

\* A miner that has all the pool said mines with the pool's extranonce, unless the pool
\* changed that before the relays started: the one cached then is resent after it
\* (stratum_v1_pool_conn.go:28; stratum_v1_miner_model.go:101).
ExtranonceFresh == Relayed /\ ~early /\ miner.unread = <<>> => nonce = theirs.nonce

\* Whoever mined them, the pool gets shares of the destination's user only
\* (stratum_v1_pool_conn.go:283).
SharesNamed == theirs.users \subseteq {Username}

\* A miner that left is taken off the collection, unless a request to the pool stays
\* without an answer for ever, or a change of destination never ends
\* (stratum_v1_miner_model.go:94; on_demand_miner_scheduler.go:64).
SessionEnds == <>miner.gone => <>Done \/ <>[](Waiting \/ At("changing"))
=============================================================================
