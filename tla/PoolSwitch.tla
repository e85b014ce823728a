----------------------------- MODULE PoolSwitch ------------------------------
(***************************************************************************)
(* protocol/stratum_v1_pool_conn_pool.go and the submits of                *)
(* stratum_v1_miner_model.go: SetDest called by the miner's scheduler and  *)
(* by the HTTP API at once, while the miner goes on submitting shares.  A  *)
(* call is cut wherever it gives up the mutex; connections are numbered in *)
(* the order they are dialled and are never closed.  What travels through  *)
(* a connection is the subject of StratumRouting.                          *)
(***************************************************************************)
EXTENDS Integers, FiniteSets

CONSTANTS Hosts, First,
          Difficulties,
          MaxCalls,  \* bound: calls of SetDest
          MaxShares, \* bound: the miner's submits
          MaxRetunes \* bound: difficulties the pools set

ASSUME SwitchAssumption == /\ First \in Hosts /\ 1 \in Difficulties
                           /\ {MaxCalls, MaxShares, MaxRetunes} \subseteq Nat

Callers == {"scheduler", "api"}
Conns == 1..(MaxCalls + 1)
Shares == 1..MaxShares

VARIABLES host,     \* the destination of each connection dialled so far
          current,  \* p.conn
          pool,     \* p.pool: the connection cached for each destination, 0 if none
          reading,  \* isReading of each connection
          pc, dest, \* where each caller stands in SetDest, and its argument
          hand,     \* the connection each caller works on
          calls,
          difficulty, \* of the miner model
          share,    \* where the copy loop stands with each submit
          results,  \* resHandlers: connections and the submits they have handlers for
          owed,     \* connections and the submits they will answer
          onSubmit, \* calls of the submit handlers: share, destination and difficulty
          \* history:
          resent,   \* connections whose cache was resent since they were last left
          together, \* destinations two calls were looking for at the same time
          accepted, \* shares accepted, and by whom
          moved,    \* shares between whose registration and answer current changed
          knows,    \* the difficulty the miner was told last
          mined,    \* the difficulty each share was mined at
          retuned,  \* shares that were mined or under way when difficulty was not knows
          retunes

switchVars == <<host, current, pool, reading, pc, dest, hand, calls, resent, together>>
submitVars == <<share, results, owed, onSubmit, accepted>>
creditVars == <<difficulty, knows, mined, retuned, retunes>>
routeVars == <<switchVars, submitVars, moved, creditVars>>

Dialled == DOMAIN host
NoConn == 0

SwitchTypeOK ==
    /\ Dialled \subseteq Conns /\ host \in [Dialled -> Hosts] /\ current \in Dialled
    /\ pool \in [Hosts -> {NoConn} \cup Dialled] /\ reading \in [Dialled -> BOOLEAN]
    /\ pc \in [Callers -> {"idle", "load", "set", "again", "resend", "dial", "first",
                           "firstEnd", "setNew", "store"}]
    /\ dest \in [Callers -> Hosts] /\ hand \in [Callers -> {NoConn} \cup Dialled]
    /\ calls \in 0..MaxCalls
    /\ share \in [Shares -> {"none", "mined", "registered", "written", "answered"}]
    /\ results \subseteq Dialled \X Shares /\ owed \subseteq Dialled \X Shares
    /\ {difficulty, knows} \subseteq Difficulties /\ retunes \in 0..MaxRetunes
    /\ mined \in [Shares -> Difficulties] /\ retuned \subseteq Shares
    /\ onSubmit \subseteq Shares \X Hosts \X Difficulties /\ accepted \subseteq Shares \X Hosts
    /\ resent \subseteq Dialled /\ together \subseteq Hosts /\ moved \subseteq Shares

\* HandleConnection has set the first destination.
SwitchInit ==
    /\ host = [c \in {1} |-> First] /\ current = 1
    /\ pool = [h \in Hosts |-> IF h = First THEN 1 ELSE NoConn]
    /\ reading = [c \in {1} |-> TRUE]
    /\ pc = [w \in Callers |-> "idle"]
    /\ dest = [w \in Callers |-> First] /\ hand = [w \in Callers |-> NoConn]
    /\ calls = 0
    /\ share = [s \in Shares |-> "none"]
    /\ results = {} /\ owed = {} /\ onSubmit = {} /\ accepted = {} /\ moved = {}
    /\ resent = {1} /\ together = {}
    /\ difficulty = 1 /\ knows = 1 /\ mined = [s \in Shares |-> 1]
    /\ retuned = {} /\ retunes = 0
-----------------------------------------------------------------------------
(* SetDest.                                                                 *)

Goes(w, from, to) == pc[w] = from /\ pc' = [pc EXCEPT ![w] = to]
Ends(w, from) == /\ Goes(w, from, "idle") /\ hand' = [hand EXCEPT ![w] = NoConn]

\* What the mutex guards: p.conn, and the destination it leads to.
getConn == current
GetDest == host[getConn]

\* p.conn is set: to the former one's submits under way this is a move.
MakesCurrent(c) ==
    /\ current' = c
    /\ resent' = IF c = current THEN resent ELSE resent \ {current}
    /\ moved' = IF c = current THEN moved
                ELSE moved \cup {s \in Shares : share[s] \in {"registered", "written"}}

\* The first critical section: nothing to do if the destination is the same.
SetDest(w, h) ==
    /\ pc[w] = "idle" /\ calls < MaxCalls
    /\ calls' = calls + 1
    /\ IF GetDest = h THEN UNCHANGED <<pc, dest, together>>
       ELSE /\ pc' = [pc EXCEPT ![w] = "load"]
            /\ dest' = [dest EXCEPT ![w] = h]
            /\ together' = IF \E v \in Callers \ {w} : pc[v] # "idle" /\ dest[v] = h
                           THEN together \cup {h} ELSE together
    /\ UNCHANGED <<host, current, pool, reading, hand, resent, submitVars, moved, creditVars>>

Load(w) ==
    /\ Goes(w, "load", IF pool[dest[w]] # NoConn THEN "set" ELSE "dial")
    /\ hand' = [hand EXCEPT ![w] = pool[dest[w]]]
    /\ UNCHANGED <<host, current, pool, reading, dest, calls, resent, together, submitVars, moved, creditVars>>

\* Mutant: a cached connection is not resent.
SetCachedQuietly(w) ==
    /\ Ends(w, "set")
    /\ MakesCurrent(hand[w])
    /\ UNCHANGED <<host, pool, reading, dest, calls, together, submitVars, creditVars>>

SetCached(w) ==
    /\ Goes(w, "set", "again")
    /\ MakesCurrent(hand[w])
    /\ UNCHANGED <<host, pool, reading, dest, hand, calls, together, submitVars, creditVars>>

\* ResendRelevantNotifications of whatever connection is current by now.
Pauses(w, c) == /\ hand' = [hand EXCEPT ![w] = c]
                /\ reading' = [reading EXCEPT ![c] = FALSE]

ResendCurrent(w) ==
    /\ Goes(w, "again", "resend")
    /\ Pauses(w, current)
    /\ UNCHANGED <<host, current, pool, dest, calls, resent, together, submitVars, moved, creditVars>>

Resends(w) == /\ reading' = [reading EXCEPT ![hand[w]] = TRUE]
              /\ resent' = resent \cup {hand[w]}

ResendEnds(w) ==
    /\ Ends(w, "resend")
    /\ Resends(w)
    /\ UNCHANGED <<host, current, pool, dest, calls, together, submitVars, moved, creditVars>>

\* Dial and Connect.
Dial(w) ==
    LET c == Cardinality(Dialled) + 1
    IN /\ Goes(w, "dial", "first")
       /\ host' = [x \in Dialled \cup {c} |-> IF x = c THEN dest[w] ELSE host[x]]
       /\ reading' = [x \in Dialled \cup {c} |-> IF x = c THEN TRUE ELSE reading[x]]
       /\ hand' = [hand EXCEPT ![w] = c]
       /\ UNCHANGED <<current, pool, dest, calls, resent, together, submitVars, moved, creditVars>>

DialFails(w) ==
    /\ Ends(w, "dial")
    /\ UNCHANGED <<host, current, pool, reading, dest, calls, resent, together, submitVars, moved, creditVars>>

\* The new connection's notifications, before it becomes the current one.
ResendNew(w) ==
    /\ Goes(w, "first", "firstEnd")
    /\ Pauses(w, hand[w])
    /\ UNCHANGED <<host, current, pool, dest, calls, resent, together, submitVars, moved, creditVars>>

ResendNewEnds(w) ==
    /\ Goes(w, "firstEnd", "setNew")
    /\ Resends(w)
    /\ UNCHANGED <<host, current, pool, dest, hand, calls, together, submitVars, moved, creditVars>>

SetNew(w) ==
    /\ Goes(w, "setNew", "store")
    /\ MakesCurrent(hand[w])
    /\ UNCHANGED <<host, pool, reading, dest, hand, calls, together, submitVars, creditVars>>

Store(w) ==
    /\ Ends(w, "store")
    /\ pool' = [pool EXCEPT ![dest[w]] = hand[w]]
    /\ UNCHANGED <<host, current, reading, dest, calls, resent, together, submitVars, moved, creditVars>>
-----------------------------------------------------------------------------
(* Submits: minerInterceptor, then the write; the copy loop takes the next  *)
(* message of the miner only after that.  The other one takes a difficulty  *)
(* down, and then writes it to the miner.                                   *)

\* The miner finds a share for the difficulty it knows.
MineShare(s) ==
    /\ share[s] = "none" /\ \A r \in Shares : r < s => share[r] # "none"
    /\ share' = [share EXCEPT ![s] = "mined"]
    /\ mined' = [mined EXCEPT ![s] = knows]
    /\ retuned' = IF knows = difficulty THEN retuned ELSE retuned \cup {s}
    /\ UNCHANGED <<switchVars, results, owed, onSubmit, accepted, moved, difficulty, knows, retunes>>

poolInterceptor(d) ==
    /\ retunes < MaxRetunes /\ difficulty = knows /\ d # difficulty
    /\ retunes' = retunes + 1
    /\ difficulty' = d
    /\ retuned' = retuned \cup {s \in Shares : share[s] \notin {"none", "answered"}}
    /\ UNCHANGED <<switchVars, submitVars, moved, knows, mined>>

TellDifficulty ==
    /\ knows # difficulty
    /\ knows' = difficulty
    /\ UNCHANGED <<switchVars, submitVars, moved, difficulty, mined, retuned, retunes>>

Register(s) ==
    /\ share[s] = "mined"
    /\ \A r \in Shares : share[r] # "registered" /\ (r < s => share[r] # "mined")
    /\ share' = [share EXCEPT ![s] = "registered"]
    /\ results' = results \cup {<<getConn, s>>}
    /\ UNCHANGED <<switchVars, owed, onSubmit, accepted, moved, creditVars>>

Write(s) ==
    /\ share[s] = "registered"
    /\ share' = [share EXCEPT ![s] = "written"]
    /\ owed' = owed \cup {<<current, s>>}
    /\ UNCHANGED <<switchVars, results, onSubmit, accepted, moved, creditVars>>

Answered(c, s, ok, counts) ==
    /\ <<c, s>> \in owed
    /\ owed' = owed \ {<<c, s>>}
    /\ share' = [share EXCEPT ![s] = "answered"]
    /\ results' = results \ {<<c, s>>}
    /\ accepted' = IF ok THEN accepted \cup {<<s, host[c]>>} ELSE accepted
    /\ onSubmit' = IF counts THEN onSubmit \cup {<<s, GetDest, difficulty>>} ELSE onSubmit
    /\ UNCHANGED <<switchVars, moved, creditVars>>

\* Mutant: the handler does not ask whether the answer is an error.
AnswerUnchecked(c, s, ok) == Answered(c, s, ok, <<c, s>> \in results)

\* readInterceptor: the handler, if the connection has one, is taken out and called; it
\* asks for the destination and the difficulty only now.
Answer(c, s, ok) == Answered(c, s, ok, ok /\ <<c, s>> \in results)

SwitchNext ==
    \/ \E w \in Callers :
          \/ \E h \in Hosts : SetDest(w, h)
          \/ Load(w) \/ SetCached(w) \/ ResendCurrent(w) \/ ResendEnds(w) \/ Dial(w)
          \/ DialFails(w) \/ ResendNew(w) \/ ResendNewEnds(w) \/ SetNew(w) \/ Store(w)
    \/ TellDifficulty \/ \E d \in Difficulties : poolInterceptor(d)
    \/ \E s \in Shares :
          \/ MineShare(s) \/ Register(s) \/ Write(s)
          \/ \E c \in Conns, ok \in BOOLEAN : Answer(c, s, ok)

SwitchSpec == SwitchInit /\ [][SwitchNext]_routeVars
-----------------------------------------------------------------------------
\* Once no call is under way the connection in use has been resent since another one was
\* in use, all connections are reading, and a destination has a second connection, or one
\* that is not in the cache, only if two calls were looking for it at the same time.  A
\* call re-reads p.conn at pool_conn_pool.go:60, perhaps another call's.
SwitchesSettle ==
    (\A w \in Callers : pc[w] = "idle") =>
        /\ current \in resent
        /\ \A c \in Dialled : reading[c]
        /\ \A c \in Dialled : host[c] \notin together => pool[host[c]] = c

\* A share is counted once at most, only if it was accepted, and at the destination that
\* accepted it, and none is missed, as long as the miner is not switched between the
\* registration of its handler and the answer (miner_model.go:145, :155); it counts with
\* the difficulty it was mined at unless that changed on its way (miner_model.go:150).
SharesCredited ==
    /\ \A s \in Shares \ moved : \A h \in Hosts :
          <<s, h>> \in accepted <=> \E d \in Difficulties : <<s, h, d>> \in onSubmit
    /\ \A x \in onSubmit : /\ \E y \in accepted : x[1] = y[1]
                           /\ x[1] \notin retuned => x[3] = mined[x[1]]
    /\ Cardinality({x[1] : x \in onSubmit}) = Cardinality(onSubmit)
=============================================================================
