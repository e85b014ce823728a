---------------------------- MODULE StratumRouting ----------------------------
(***************************************************************************)
(* protocol/: how one miner is kept at the right pool.  The node keeps the *)
(* connection to every pool the miner has worked for.  A connection's      *)
(* reader caches the jobs its pool announces and puts each message into    *)
(* the connection's channel, whether the connection is the current one or  *)
(* not; while it is on hold (isReading is false) messages are cached and   *)
(* dropped.  The copy loop of the miner model takes messages from the      *)
(* connection that was current when it last looked and writes them to the  *)
(* miner.  SetDest makes another connection current and resends what that  *)
(* connection has cached.                                                  *)
(*                                                                         *)
(* Two goroutines work on connections besides the readers and the copy     *)
(* loop: "set", the scheduler in SetDest, and "run", the miner model,      *)
(* which answers the miner's handshake and resends before it starts the    *)
(* copy loop.  SetDest is called by one goroutine at a time, so a pool has *)
(* one connection, and one request under way.  A second request before     *)
(* the handshake (mining.configure) would be like the first.  What the     *)
(* miner sends once it is connected is left out.                           *)
(***************************************************************************)
EXTENDS Naturals, Sequences

CONSTANTS Pools, Default,
          NoPool,
          Cap,       \* the capacity of msgCh
          MaxJobs,   \* bound: the jobs the pools announce
          MaxOther,  \* bound: what they send besides jobs and answers
          MaxSwitches \* bound: the calls of SetDest

ASSUME PoolsAssumption == Default \in Pools /\ NoPool \notin Pools
ASSUME CapAssumption == Cap \in Nat \ {0} /\ MaxJobs \in Nat /\ MaxOther \in Nat
                         /\ MaxSwitches \in Nat

VARIABLES conn,     \* StratumV1PoolConnPool.conn
          cached,   \* the connections in its map
          reading,  \* isReading of each connection
          jobs,     \* the array under notifyMsgs; jobs are numbered as they come
          size,     \* the length of notifyMsgs
          made,     \* how many jobs have been announced
          spoken,   \* how many other messages have come
          reader,   \* where the reader of each connection stands
          held,     \* the message it holds
          ch,       \* msgCh of each connection
          asked,    \* pools that owe an answer
          handler,  \* pools whose answer has a handler in resHandlers
          pc,       \* where "set" and "run" stand
          on,       \* the connection they work on
          step,     \* the request they send, or their position in notifyMsgs
          end,      \* the length of notifyMsgs when they began to range over it
          carry,    \* the job they are about to resend
          switches, \* the calls of SetDest so far
          from,     \* the connection the copy loop waits for
          miner,    \* the pool of the miner's extranonce; its job
          raced     \* history: pools that announced a job during a resend of theirs

pools == <<conn, cached, reading>>
cache == <<jobs, size, made, spoken, raced>>
requests == <<asked, handler>>
readers == <<reader, held>>
walks == <<on, step, end, carry, switches>>
copier == <<from, miner>>
vars == <<pools, cache, readers, ch, requests, pc, walks, copier>>

\* What travels through a channel: the extranonce and difficulty of a pool,
\* anything else that is relayed without being cached, and jobs.
Setup == "setup"
Other == "other"
Jobs == 1..MaxJobs
Message(kind, n) == [kind |-> kind, job |-> n]
Nothing == Message("none", 0)
Messages == {Message(Setup, 0), Message(Other, 0)} \cup {Message("job", n) : n \in Jobs}

Workers == {"set", "run"}
Resending == {"setup", "walk", "push"}

TypeOK == /\ conn \in Pools /\ cached \subseteq Pools
          /\ reading \in [Pools -> BOOLEAN]
          /\ jobs \in [Pools -> [Jobs -> 0..MaxJobs]]
          /\ size \in [Pools -> 0..MaxJobs] 
          /\ made \in 0..MaxJobs /\ spoken \in 0..MaxOther
          /\ reader \in [Pools -> {"off", "idle", "check", "emit", "dead"}]
          /\ held \in [Pools -> Messages \cup {Nothing}]
          /\ ch \in [Pools -> Seq(Messages)]
          /\ \A p \in Pools : Len(ch[p]) <= Cap
          /\ asked \subseteq Pools /\ handler \subseteq Pools /\ raced \subseteq Pools
          /\ pc \in [Workers -> Resending \cup {"new", "idle", "write", "register",
                        "wait", "open", "hold", "subscribe", "authorize", "done", "failed"}]
          /\ on \in [Workers -> Pools]
          /\ step \in [Workers -> 1..(MaxJobs + 2)] /\ end \in [Workers -> 0..MaxJobs]
          /\ carry \in [Workers -> 0..MaxJobs]
          /\ switches \in 0..MaxSwitches
          /\ from \in Pools \cup {NoPool}
          /\ miner \in [setup : Pools \cup {NoPool}, job : 0..MaxJobs]

\* HandleConnection has set the default destination: its handshake is done,
\* its setup has been resent, no job has come.
Init == /\ conn = Default /\ cached = {Default}
        /\ reading = [p \in Pools |-> p = Default]
        /\ jobs = [p \in Pools |-> [n \in Jobs |-> 0]]
        /\ size = [p \in Pools |-> 0] /\ made = 0 /\ spoken = 0
        /\ reader = [p \in Pools |-> IF p = Default THEN "idle" ELSE "off"]
        /\ held = [p \in Pools |-> Nothing]
        /\ ch = [p \in Pools |-> IF p = Default THEN <<Message(Setup, 0)>> ELSE <<>>]
        /\ asked = {} /\ handler = {} /\ raced = {}
        /\ pc = [w \in Workers |-> IF w = "set" THEN "idle" ELSE "new"]
        /\ on = [w \in Workers |-> Default]
        /\ step = [w \in Workers |-> 1] /\ end = [w \in Workers |-> 0]
        /\ carry = [w \in Workers |-> 0]
        /\ switches = 0
        /\ from = NoPool
        /\ miner = [setup |-> NoPool, job |-> 0]
-----------------------------------------------------------------------------
(* A connection's reader.                                                   *)

\* Mutant: a channel without a limit.
SendAnyway(p, m) == ch' = [ch EXCEPT ![p] = Append(@, m)]

\* sendToReadCh: blocks while the channel is full.
Send(p, m) == Len(ch[p]) < Cap /\ ch' = [ch EXCEPT ![p] = Append(@, m)]

Stands(p, at, m) == /\ reader' = [reader EXCEPT ![p] = at]
                    /\ held' = [held EXCEPT ![p] = m]

Reads(p, m) == /\ reader[p] = "idle"
               /\ Stands(p, "check", m)
               /\ UNCHANGED <<pools, ch, walks, copier>>

\* Goroutines that have taken the length of p's notifyMsgs and resend them.
Walking(p) == {w \in Workers : on[w] = p /\ pc[w] \in {"walk", "push"}}

\* readInterceptor: a job is cached; one with clean_jobs replaces the earlier
\* ones and is written over the first of them.  The first job is a clean one.
ReadNotify(p) ==
    /\ made < MaxJobs
    /\ made' = made + 1
    /\ Reads(p, Message("job", made'))
    /\ \E at \in {1, size[p] + 1} :
          /\ jobs' = [jobs EXCEPT ![p][at] = made']
          /\ size' = [size EXCEPT ![p] = at]
    /\ raced' = IF Walking(p) = {} THEN raced \ {p} ELSE raced \cup {p}
    /\ UNCHANGED <<spoken, requests, pc>>

ReadOther(p) == /\ spoken < MaxOther
                /\ spoken' = spoken + 1
                /\ Reads(p, Message(Other, 0))
                /\ UNCHANGED <<jobs, size, made, raced, requests, pc>>

Awaits(w, p) == pc[w] = "wait" /\ on[w] = p

\* Who waits for p's answer goes on; an error ends the handshake.
Answered(p, ok) ==
    pc' = [w \in Workers |->
             IF ~Awaits(w, p) THEN pc[w]
             ELSE IF ~ok THEN "failed"
             ELSE IF w = "run" THEN "subscribe"
             ELSE IF step[w] = 1 THEN "write" ELSE "open"]

\* readInterceptor: an answer goes to the handler registered for it, if there
\* is one already, and is relayed in any case.
ReadAnswer(p) ==
    /\ p \in asked
    /\ asked' = asked \ {p}
    /\ handler' = handler \ {p}
    /\ reader[p] = "idle"
    /\ Stands(p, "check", Message(Other, 0))
    /\ IF p \in handler
       THEN /\ \E ok \in BOOLEAN : Answered(p, ok)
            /\ step' = [w \in Workers |-> IF Awaits(w, p) THEN 2 ELSE step[w]]
       ELSE UNCHANGED <<pc, step>>
    /\ UNCHANGED <<pools, cache, ch, on, end, carry, switches, copier>>

\* getIsReading.
Check(p) == /\ reader[p] = "check"
            /\ IF reading[p] THEN Stands(p, "emit", held[p]) ELSE Stands(p, "idle", Nothing)
            /\ UNCHANGED <<pools, cache, ch, requests, pc, walks, copier>>

Emit(p) == /\ reader[p] = "emit"
           /\ Send(p, held[p])
           /\ Stands(p, "idle", Nothing)
           /\ UNCHANGED <<pools, cache, requests, pc, walks, copier>>

\* The pool closes the connection: its reader ends and tells nobody.
PoolFails(p) == /\ reader[p] = "idle"
                /\ reader' = [reader EXCEPT ![p] = "dead"]
                /\ UNCHANGED <<pools, cache, held, ch, requests, pc, walks, copier>>
-----------------------------------------------------------------------------
(* SendPoolRequestWait and the resending of cached messages.                *)

Goes(w, a, b) == pc[w] = a /\ pc' = [pc EXCEPT ![w] = b]

Write(w) == /\ Goes(w, "write", "register")
            /\ asked' = asked \cup {on[w]}
            /\ UNCHANGED <<pools, cache, readers, ch, handler, walks, copier>>

Register(w) == /\ Goes(w, "register", "wait")
               /\ handler' = handler \cup {on[w]}
               /\ UNCHANGED <<pools, cache, readers, ch, asked, walks, copier>>

\* Mutant: the resending begins with the second job.
SendSetupSkip(w) ==
    /\ Goes(w, "setup", "walk")
    /\ Send(on[w], Message(Setup, 0))
    /\ step' = [step EXCEPT ![w] = 2]
    /\ end' = [end EXCEPT ![w] = size[on[w]]]
    /\ raced' = IF Walking(on[w]) = {} THEN raced \ {on[w]} ELSE raced
    /\ UNCHANGED <<pools, jobs, size, made, spoken, readers, requests, on, carry, switches, copier>>

\* The extranonce and the difficulty; then range takes the length.
SendSetup(w) ==
    /\ Goes(w, "setup", "walk")
    /\ Send(on[w], Message(Setup, 0))
    /\ step' = [step EXCEPT ![w] = 1]
    /\ end' = [end EXCEPT ![w] = size[on[w]]]
    /\ raced' = IF Walking(on[w]) = {} THEN raced \ {on[w]} ELSE raced
    /\ UNCHANGED <<pools, jobs, size, made, spoken, readers, requests, on, carry, switches, copier>>

\* The next element of the array as it is now.
Fetch(w) ==
    /\ step[w] <= end[w]
    /\ Goes(w, "walk", "push")
    /\ carry' = [carry EXCEPT ![w] = jobs[on[w]][step[w]]]
    /\ step' = [step EXCEPT ![w] = @ + 1]
    /\ UNCHANGED <<pools, cache, readers, ch, requests, on, end, switches, copier>>

Push(w) == /\ Goes(w, "push", "walk")
           /\ Send(on[w], Message("job", carry[w]))
           /\ carry' = [carry EXCEPT ![w] = 0]
           /\ UNCHANGED <<pools, cache, readers, requests, on, step, end, switches, copier>>

\* The range is over; its variables are not used again.
Walked(w) == /\ step[w] > end[w]
             /\ on' = [on EXCEPT ![w] = Default]
             /\ step' = [step EXCEPT ![w] = 1]
             /\ end' = [end EXCEPT ![w] = 0]
-----------------------------------------------------------------------------
(* SetDest.                                                                 *)

Target(p, next) == /\ p # conn
                   /\ Goes("set", "idle", next)
                   /\ switches < MaxSwitches /\ switches' = switches + 1
                   /\ on' = [on EXCEPT !["set"] = p]
                   /\ step' = [step EXCEPT !["set"] = 1]

\* Mutant: a connection that is reused becomes the current one as it is.
ReuseSilently(p) ==
    /\ p \in cached
    /\ Target(p, "idle")
    /\ conn' = p
    /\ UNCHANGED <<cached, reading, cache, readers, ch, requests, end, carry, copier>>

Reuse(p) ==
    /\ p \in cached
    /\ Target(p, "hold")
    /\ conn' = p
    /\ UNCHANGED <<cached, reading, cache, readers, ch, requests, end, carry, copier>>

\* net.Dial; Connect starts the reader and sends mining.subscribe.
Dial(p) ==
    /\ p \notin cached
    /\ Target(p, "write")
    /\ reader' = [reader EXCEPT ![p] = "idle"]
    /\ UNCHANGED <<pools, cache, held, ch, requests, end, carry, copier>>

\* Run returns the error and the miner is given up.
DialFails == /\ Goes("set", "idle", "failed")
             /\ cached # Pools
             /\ UNCHANGED <<pools, cache, readers, ch, requests, walks, copier>>

SetReading(b) == reading' = [reading EXCEPT ![on["set"]] = b]

\* The end of Connect.
Open == /\ Goes("set", "open", "hold")
        /\ SetReading(TRUE)
        /\ UNCHANGED <<conn, cached, cache, readers, ch, requests, walks, copier>>

Hold == /\ Goes("set", "hold", "setup")
        /\ SetReading(FALSE)
        /\ UNCHANGED <<conn, cached, cache, readers, ch, requests, walks, copier>>

\* Mutant: reading is not resumed.
ReleaseHeld ==
    /\ Walked("set")
    /\ Goes("set", "walk", "idle")
    /\ conn' = on["set"]
    /\ cached' = cached \cup {on["set"]}
    /\ UNCHANGED <<reading, cache, readers, ch, requests, carry, switches, copier>>

\* The resending is over; a connection that was dialled becomes the current one.
Release ==
    /\ Walked("set")
    /\ Goes("set", "walk", "idle")
    /\ SetReading(TRUE)
    /\ conn' = on["set"]
    /\ cached' = cached \cup {on["set"]}
    /\ UNCHANGED <<cache, readers, ch, requests, carry, switches, copier>>
-----------------------------------------------------------------------------
(* The miner model: Connect, the resending, the copy loop.                  *)

\* mining.configure is passed on to the pool that is current.
Configure == /\ Goes("run", "new", "write")
             /\ on' = [on EXCEPT !["run"] = conn]
             /\ UNCHANGED <<pools, cache, readers, ch, requests, step, end, carry, switches, copier>>

\* mining.subscribe is answered with the extranonce of the current pool.
Subscribe == /\ pc["run"] \in {"new", "subscribe"}
             /\ pc' = [pc EXCEPT !["run"] = "authorize"]
             /\ miner' = [miner EXCEPT !.setup = conn]
             /\ UNCHANGED <<pools, cache, readers, ch, requests, walks, from>>

\* mining.authorize: the pool that is current by now resends, not held.
Authorize == /\ Goes("run", "authorize", "setup")
             /\ on' = [on EXCEPT !["run"] = conn]
             /\ UNCHANGED <<pools, cache, readers, ch, requests, step, end, carry, switches, copier>>

Resent == /\ Walked("run")
          /\ Goes("run", "walk", "done")
          /\ UNCHANGED <<pools, cache, readers, ch, requests, carry, switches, copier>>

\* Read, of the pool of connections: p.conn is read once, without the lock.
Choose == /\ pc["run"] = "done" /\ from = NoPool
          /\ from' = conn
          /\ UNCHANGED <<pools, cache, readers, ch, requests, pc, walks, miner>>

\* The message is written to the miner.
Told(m) == CASE m.kind = Setup -> [miner EXCEPT !.setup = from]
             [] m.kind = "job" -> [miner EXCEPT !.job = m.job]
             [] OTHER -> miner

Receive == /\ from # NoPool /\ ch[from] # <<>>
           /\ ch' = [ch EXCEPT ![from] = Tail(@)]
           /\ miner' = Told(Head(ch[from]))
           /\ from' = NoPool
           /\ UNCHANGED <<pools, cache, readers, requests, pc, walks>>
-----------------------------------------------------------------------------
Reader(p) == Check(p) \/ Emit(p)
Resend(w) == SendSetup(w) \/ Fetch(w) \/ Push(w)
SetDest == \/ Write("set") \/ Register("set") \/ Open \/ Hold \/ Resend("set") \/ Release
RunModel == Resend("run") \/ Resent

Pool(p) == ReadNotify(p) \/ ReadOther(p) \/ ReadAnswer(p) \/ Reader(p) \/ PoolFails(p)
Handshake == Configure \/ Write("run") \/ Register("run") \/ Subscribe \/ Authorize

Next == \/ \E p \in Pools : Pool(p) \/ Reuse(p) \/ Dial(p)
        \/ DialFails \/ SetDest
        \/ Handshake \/ RunModel
        \/ Choose \/ Receive

Spec == Init /\ [][Next]_vars
-----------------------------------------------------------------------------
\* A connected pool is on hold only while SetDest resends what it has cached,
\* and a pool whose handshake is not over has given nothing to the miner.
HoldWindow ==
    /\ \A p \in cached \cup {conn} :
          ~reading[p] => on["set"] = p /\ pc["set"] \in Resending
    /\ \A p \in Pools \ cached :
          pc["set"] \in {"idle", "write", "register", "wait", "open"} \/ on["set"] # p
             => ~reading[p] /\ ch[p] = <<>> /\ reader[p] # "emit"

\* Nothing on its way to the miner: SetDest is through, the copy loop looks at
\* the current connection and has emptied its channel, its reader holds nothing.
Settled == /\ pc["set"] = "idle" /\ pc["run"] = "done"
           /\ from = conn /\ ch[conn] = <<>>
           /\ reader[conn] \in {"idle", "dead"}

\* Whatever switches happened, and in whatever order old and new messages were
\* delivered: a settled miner works with the extranonce of the current pool.
OnCurrentPool == Settled => miner.setup = conn

Cached(p) == {jobs[p][n] : n \in 1..size[p]}

\* And it has the newest job that pool has announced, unless the job came
\* during a resend: such a job is dropped by the hold, or overtaken.
JobFresh == /\ Settled
            /\ size[conn] > 0
            /\ conn \notin raced
            => \A n \in Jobs : jobs[conn][n] <= miner.job /\ miner.job \in Cached(conn)

\* Nothing more will happen unless a pool or the miner speaks or SetDest is called: readers
\* and resends wait for room in a channel, SetDest for an answer, the copy loop for a
\* message.  (No action of Reader, SetDest, RunModel, Choose or Receive is enabled.)
Full(p) == Len(ch[p]) = Cap
Quiet == /\ \A p \in Pools : reader[p] # "check" /\ (reader[p] = "emit" => Full(p))
         /\ \A w \in Workers : /\ pc[w] \in {"setup", "push"} => Full(on[w])
                               /\ pc[w] # "walk"
         /\ pc["set"] \notin {"write", "register", "open", "hold"}
         /\ IF from = NoPool THEN pc["run"] # "done" ELSE ch[from] = <<>>

\* Run has an error to return: HandleConnection closes the miner's connection.
Gone == \E w \in Workers : pc[w] = "failed"

\* A switch does not get stuck: when the node comes to rest and the miner has
\* not been given up, it has the extranonce of the current pool, unless the
\* copy loop waits for a former pool that says nothing, or was never started
\* because the channel was full by then.
SwitchTakesEffect ==
    /\ ~Gone /\ pc["run"] \in Resending \cup {"done"}
    /\ Quiet
    => \/ miner.setup = conn
       \/ from \notin {NoPool, conn} /\ ch[from] = <<>>
       \/ pc["run"] # "done" /\ Len(ch[on["run"]]) = Cap

\* What SendPoolRequestWait says it does, "sends a message and awaits for the
\* response": whoever waits has a response coming.
RequestReturns == \A w \in Workers : pc[w] = "wait" => on[w] \in asked
=============================================================================
