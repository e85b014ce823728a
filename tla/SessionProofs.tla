---------------------------- MODULE SessionProofs ----------------------------
(***************************************************************************)
(* A miner's connection from its handler to its end, with a pool that      *)
(* answers and pushes as it likes, and its switches between pools by two   *)
(* callers at once: for any number of lines, ids, pushes, destinations,    *)
(* calls, shares and difficulties.                                         *)
(***************************************************************************)
EXTENDS MCSession, TLAPS, FiniteSetTheorems, SequenceTheorems

-----------------------------------------------------------------------------
(* The session.  What is on the way to whom.                                *)

One(b) == IF b THEN 1 ELSE 0
Where(s, X) == {k \in DOMAIN s : s[k] \in X}
Count(s, X) == Cardinality(Where(s, X))
Nonces == 0..(MaxPushes + 1)

\* The lines of the miner and of the pool, and the messages read from the pool.
MinerMethods == {"mining.configure", "mining.subscribe", "mining.authorize", "mining.submit",
                 "mining.extranonce.subscribe"}
MinerLines == {Garbled} \cup {Request(method, i, "worker") : method \in MinerMethods, i \in 1..MaxLines}
PoolAnswer(i, n, e) == Line("", i, NoField, n, e)
PoolNotify(b) == Request("mining.notify", NoID, <<"job", b>>)
PoolExtranonce(n) == Request("mining.set_extranonce", NoID, <<n, "float64">>)
PoolUnknown == Request("client.show_message", NoID, <<"text", "">>)
PoolLines == {PoolAnswer(i, n, e) : i \in SessionIds, n \in Nonces \ {0}, e \in BOOLEAN}
             \cup {PoolNotify(b) : b \in BOOLEAN} \cup {PoolExtranonce(n) : n \in Nonces}
             \cup {PoolUnknown}
Jobs == {MiningNotify("job", b) : b \in BOOLEAN}
PoolMessages ==
    {MiningResult(i, n, e) : i \in SessionIds, n \in Nonces \ {0}, e \in BOOLEAN}
    \cup {MiningSetExtranonce(n, size) : n \in Nonces, size \in {"int", "float64"}}
    \cup Jobs \cup {Nil}

MinerShape == miner \in [sent : 0..MaxLines, unread : Seq(MinerLines), step : 0..3,
                         asked : SUBSET (1..MaxLines), gone : BOOLEAN]
PoolShape ==
    /\ theirs \in [asked : SUBSET (SessionIds \X {"node", "miner"}), unread : Seq(PoolLines),
                   pushed : 0..MaxPushes, nonce : Nonces \ {0}, users : SUBSET {Username},
                   gone : BOOLEAN]
    /\ theirs.nonce <= theirs.pushed + 1
AskingShape == asking \in [id : SessionIds, for : SessionIds, result : Nonces,
                           st : {"none", "written", "registered", "true", "refused"}]
QueueShape ==
    /\ msgCh \in Seq(PoolMessages) /\ notifyMsgs \in Seq(Jobs)
    /\ emitted = <<>> \/ \E m \in PoolMessages : emitted = <<m>>
RunShape ==
    /\ serving \in {"peek", "dial", "subscribe", "authorize", "hold", "resend", "select", "changing", "done"}
    /\ listed = (serving \in {"select", "changing"})
    /\ model \in {"off", "connect", "resend", "send", "done"}
    /\ {up, down} \subseteq {"off", "read", "send", "done"}
    /\ told \in [SessionIds -> Nat] /\ {nonce, extraNonceMsg} \subseteq Nonces
    /\ resHandlers \subseteq SessionIds /\ lastRequestId \in SessionIds
    /\ answers \subseteq SessionIds /\ isReading \in BOOLEAN /\ early \in BOOLEAN
SessionShape == MinerShape /\ PoolShape /\ AskingShape /\ QueueShape /\ RunShape

\* Where handler, model and relays stand together.
Login == serving \in {"peek", "dial", "subscribe", "authorize"}
Stages ==
    /\ Login \/ serving \in {"hold", "resend"} => model = "off"
    /\ serving \in {"peek", "dial", "hold", "resend"} => asking.st = "none"
    /\ serving \in {"select", "changing"} => model # "off"
    /\ up # "off" => model = "done"
    /\ up = "off" <=> down = "off"
    /\ serving = "hold" \/ model # "off" => isReading
    /\ serving \in {"hold", "resend"} \/ model # "off" => lastRequestId >= 2
    /\ answers # {} \/ (\E i \in SessionIds : <<i, "miner">> \in theirs.asked) => up # "off"

\* The miner's lines, each with an id of its own.
LinesWith(i) == {l \in MinerLines : l.sound /\ l.id = i}
LinesOf(i) == Count(miner.unread, LinesWith(i))
Lined ==
    /\ miner.asked \subseteq 1..miner.sent /\ Len(miner.unread) <= miner.sent
    /\ \A i \in SessionIds : LinesOf(i) <= One(i \in miner.asked)
    /\ ~Login => lastRequestId + Len(miner.unread) <= 2 + miner.sent

\* The answers to request i that are on the way to the miner.
AnswersTo(i) == {l \in PoolLines : l.method = "" /\ l.id = i}
ResultsOf(i) == {m \in PoolMessages : m.kind = "result" /\ m.id = i}
OnTheWay(i) == Count(theirs.unread, AnswersTo(i)) + Count(emitted, ResultsOf(i))
               + Count(msgCh, ResultsOf(i))

\* Before the handshake with the pool is over nothing reaches the miner, and of the
\* answer to the first request nothing is left when the second one is answered.
LoggingIn ==
    Login =>
        /\ msgCh = <<>> /\ ~isReading /\ told = [i \in SessionIds |-> 0]
        /\ serving \in {"peek", "dial"} => /\ lastRequestId = 0 /\ theirs.asked = {}
                                           /\ theirs.unread = <<>> /\ emitted = <<>>
        /\ \A i \in SessionIds :
              One(<<i, "node">> \in theirs.asked) + OnTheWay(i) <= One(i \in 1..lastRequestId)
        /\ serving = "subscribe" =>
              /\ lastRequestId = 1 /\ asking.id = 1 /\ asking.st # "none"
              /\ asking.st \in {"true", "refused"} =>
                    <<1, "node">> \notin theirs.asked /\ Count(theirs.unread, AnswersTo(1)) = 0
        /\ serving = "authorize" =>
              /\ lastRequestId = 2 /\ asking.id = 2 /\ asking.st # "none"
              /\ <<1, "node">> \notin theirs.asked /\ Count(theirs.unread, AnswersTo(1)) = 0
              /\ asking.st \in {"true", "refused"} => Count(emitted, ResultsOf(1)) = 0

\* What the miner has been told of a request, and what it may still be told.
Configures(i) == model = "connect" /\ asking.st # "none" /\ asking.for = i
MayBeTold(i) ==
    told[i] + LinesOf(i) + One(Configures(i))
    + (IF Done THEN 0 ELSE One(<<i, "miner">> \in theirs.asked) + One(<<i, "node">> \in theirs.asked)
                           + OnTheWay(i))
Counted == ~Login => \A i \in SessionIds : MayBeTold(i) <= One(i \in miner.asked) + One(i \in 2..lastRequestId)

\* An answer of the pool is on the way, has come, or has met the end of the relay.
Delivered ==
    \A i \in answers : \/ told[i] > 0 \/ up \in {"send", "done"}
                       \/ Count(theirs.unread, AnswersTo(i)) > 0 \/ Count(emitted, ResultsOf(i)) > 0
                       \/ Count(msgCh, ResultsOf(i)) > 0

\* Whoever has extranonce n has extranonce `to` after messages, or lines from a + 1 on.
Resets(m) == m.kind = "mining.set_extranonce"
MessagesLead(s, n, to) ==
    \/ \E k \in DOMAIN s : /\ Resets(s[k]) /\ s[k].params[1] = to
                           /\ \A j \in DOMAIN s : j > k => ~Resets(s[j])
    \/ n = to /\ \A j \in DOMAIN s : ~Resets(s[j])
ResetsLine(l) == l.method = "mining.set_extranonce"
LinesLead(s, a, n, to) ==
    \/ \E k \in DOMAIN s : /\ k > a /\ ResetsLine(s[k]) /\ s[k].params[1] = to
                           /\ \A j \in DOMAIN s : j > k => ~ResetsLine(s[j])
    \/ n = to /\ \A j \in DOMAIN s : j > a => ~ResetsLine(s[j])
Leads(n) == \E k \in Nonces : MessagesLead(emitted, n, k) /\ LinesLead(theirs.unread, 0, k, theirs.nonce)

\* Unless an extranonce was lost before the relays started, all that is on the way leads
\* to the pool's: from the answer to the subscription, from what is cached of it, and
\* from what the miner has.
Extranonce ==
    ~early =>
        /\ serving = "subscribe" =>
              /\ \A k \in Where(theirs.unread, AnswersTo(1)) :
                    LinesLead(theirs.unread, k, theirs.unread[k].result, theirs.nonce)
              /\ asking.st = "true" => Leads(asking.result)
        /\ up = "off" /\ (serving \in {"authorize", "hold", "resend"} \/ model # "off") => Leads(extraNonceMsg)
        /\ up = "read" => \E n \in Nonces : MessagesLead(msgCh, nonce, n) /\ Leads(n)

SessionInv == /\ SessionShape /\ Stages /\ Lined /\ LoggingIn /\ Counted /\ Delivered
              /\ Extranonce

(* Counting in a sequence.                                                  *)

LEMMA CountType ==
  ASSUME NEW T, NEW s \in Seq(T), NEW X
  PROVE  /\ IsFiniteSet(Where(s, X)) /\ Count(s, X) \in Nat
         /\ Count(s, X) = 0 <=> \A k \in DOMAIN s : s[k] \notin X
<1>1. Len(s) \in Nat /\ DOMAIN s = 1..Len(s)
  BY LenProperties
<1>2. PICK n \in Nat : n = Len(s)
  BY <1>1
<1>3. IsFiniteSet(1..n)
  BY <1>2, FS_Interval
<1>4. Where(s, X) \subseteq 1..n
  BY <1>1, <1>2 DEF Where
<1>5. IsFiniteSet(Where(s, X)) /\ Count(s, X) \in Nat
  BY <1>3, <1>4, FS_Subset, FS_CardinalityType DEF Count
<1>6. Count(s, X) = 0 <=> Where(s, X) = {}
  BY <1>5, FS_EmptySet DEF Count
<1> QED
  BY <1>5, <1>6 DEF Where

LEMMA CountEmpty ==
  ASSUME NEW X
  PROVE  Count(<<>>, X) = 0
<1>1. Where(<<>>, X) = {}
  BY DEF Where
<1> QED
  BY <1>1, FS_EmptySet DEF Count

LEMMA CountAppend ==
  ASSUME NEW T, NEW s \in Seq(T), NEW e \in T, NEW X
  PROVE  Count(Append(s, e), X) = Count(s, X) + One(e \in X)
<1> DEFINE n == Len(s) + 1
           t == Append(s, e)
<1>1. /\ Len(s) \in Nat /\ DOMAIN s = 1..Len(s) /\ t \in Seq(T)
      /\ Len(t) = n /\ DOMAIN t = 1..n /\ t[n] = e /\ \A k \in 1..Len(s) : t[k] = s[k]
  BY LenProperties, AppendProperties
<1> HIDE DEF t
<1>2. n \notin Where(s, X) /\ 1..n = 1..Len(s) \cup {n}
  BY <1>1 DEF Where
<1>3. Where(t, X) = IF e \in X THEN Where(s, X) \cup {n} ELSE Where(s, X)
  BY <1>1, <1>2 DEF Where
<1>4. IsFiniteSet(Where(s, X)) /\ Cardinality(Where(s, X)) \in Nat
  BY CountType DEF Count
<1>5. Cardinality(Where(s, X) \cup {n}) = Cardinality(Where(s, X)) + 1
  BY <1>2, <1>4, FS_AddElement
<1> QED
  BY <1>3, <1>4, <1>5 DEF t, Count, One

LEMMA CountOne ==
  ASSUME NEW m, NEW X
  PROVE  Count(<<m>>, X) = One(m \in X)
<1>1. PICK T : T = {m}
  OBVIOUS
<1>2. PICK s : s = <<>>
  OBVIOUS
<1>3. s \in Seq(T) /\ Append(s, m) = <<m>> /\ m \in T
  BY <1>1, <1>2
<1>4. Count(s, X) = 0
  BY <1>2, CountEmpty
<1>5. Count(Append(s, m), X) = Count(s, X) + One(m \in X)
  BY <1>3, CountAppend
<1> QED
  BY <1>3, <1>4, <1>5 DEF One

LEMMA CountTail ==
  ASSUME NEW T, NEW s \in Seq(T), s # <<>>, NEW X
  PROVE  Count(s, X) = Count(Tail(s), X) + One(Head(s) \in X)
<1> DEFINE t == Tail(s)
           P == Where(s, X) \ {1}
           Q == Where(t, X)
           move == [k \in Q |-> k + 1]
<1>1. /\ Len(s) \in Nat \ {0} /\ DOMAIN s = 1..Len(s) /\ t \in Seq(T)
      /\ Len(t) = Len(s) - 1 /\ DOMAIN t = 1..Len(t) /\ Len(t) \in Nat
      /\ Head(s) = s[1] /\ \A k \in 1..Len(t) : t[k] = s[k + 1]
  BY LenProperties, HeadTailProperties, EmptySeq
<1> HIDE DEF t
<1>2. Q \subseteq 1..Len(t) /\ P \subseteq 2..Len(s)
  BY <1>1 DEF Where
<1>3. \A k \in Q : k + 1 \in P
  BY <1>1, <1>2 DEF Where
<1>4. \A k \in P : k - 1 \in Q
  BY <1>1, <1>2 DEF Where
<1>5. move \in Injection(Q, P)
  <2>1. \A k, l \in Q : k + 1 = l + 1 => k = l
    BY <1>1, <1>2
  <2> QED BY <1>3, <2>1 DEF Injection, IsInjective
<1>6. move \in Surjection(Q, P)
  <2>1. \A k \in P : move[k - 1] = k
    BY <1>1, <1>2, <1>4
  <2>2. \A k \in P : \E l \in Q : move[l] = k
    BY <1>4, <2>1
  <2> QED BY <1>3, <2>2 DEF Surjection
<1>7. Cardinality(P) = Cardinality(Q)
  <2>1. IsFiniteSet(Q) /\ ExistsBijection(Q, P)
    BY <1>1, <1>5, <1>6, CountType DEF ExistsBijection, Bijection
  <2> HIDE DEF P, Q
  <2> QED BY <2>1, FS_Bijection
<1>8. IsFiniteSet(Where(s, X)) /\ Cardinality(Where(s, X)) \in Nat /\ Cardinality(Q) \in Nat
  BY <1>1, CountType DEF Count
<1>9. Cardinality(P) = IF 1 \in Where(s, X) THEN Cardinality(Where(s, X)) - 1
                       ELSE Cardinality(Where(s, X))
  BY <1>8, FS_RemoveElement
<1>10. 1 \in Where(s, X) <=> Head(s) \in X
  BY <1>1 DEF Where
<1> QED
  BY <1>7, <1>8, <1>9, <1>10 DEF t, Count, One

\* What is appended is counted, as far as any of it is in X.
LEMMA CountConcat ==
  ASSUME NEW T, NEW s \in Seq(T), NEW t \in Seq(T), NEW X,
         \A k \in DOMAIN t : t[k] \notin X
  PROVE  Count(s \o t, X) = Count(s, X)
<1>1. /\ Len(s) \in Nat /\ Len(t) \in Nat /\ DOMAIN s = 1..Len(s) /\ DOMAIN t = 1..Len(t)
      /\ s \o t \in Seq(T) /\ Len(s \o t) = Len(s) + Len(t)
      /\ DOMAIN (s \o t) = 1..(Len(s) + Len(t))
      /\ \A k \in 1..(Len(s) + Len(t)) :
            (s \o t)[k] = IF k <= Len(s) THEN s[k] ELSE t[k - Len(s)]
  BY LenProperties, ConcatProperties
<1>2. \A k \in Where(s, X) : k \in Where(s \o t, X)
  BY <1>1 DEF Where
<1>3. ASSUME NEW k \in Where(s \o t, X)
      PROVE  k \in Where(s, X)
  <2>1. k \in 1..(Len(s) + Len(t)) /\ (s \o t)[k] \in X
    BY <1>1 DEF Where
  <2>2. ~(k <= Len(s)) => k - Len(s) \in DOMAIN t
    BY <1>1, <2>1
  <2>3. k <= Len(s)
    BY <1>1, <2>1, <2>2
  <2> QED BY <1>1, <2>1, <2>3 DEF Where
<1>4. Where(s \o t, X) = Where(s, X)
  BY <1>2, <1>3
<1> QED
  BY <1>4 DEF Count

(* Which extranonce a sequence leads to.                                    *)

LEMMA LeadEmpty ==
  ASSUME NEW n, NEW to
  PROVE  MessagesLead(<<>>, n, to) <=> n = to
BY DEF MessagesLead

LEMMA LeadOne ==
  ASSUME NEW m, NEW n, NEW to
  PROVE  MessagesLead(<<m>>, n, to) <=> to = IF Resets(m) THEN m.params[1] ELSE n
<1> DEFINE s == <<m>>
<1>1. DOMAIN s = {1} /\ s[1] = m
  OBVIOUS
<1> HIDE DEF s
<1>2. \A j \in DOMAIN s : ~(j > 1)
  BY <1>1
<1>3. MessagesLead(s, n, to) <=> \/ Resets(m) /\ m.params[1] = to
                                 \/ n = to /\ ~Resets(m)
  BY <1>1, <1>2 DEF MessagesLead
<1> QED
  BY <1>3 DEF s

\* Several messages that begin with an extranonce and go on without one.
LEMMA LeadConcat ==
  ASSUME NEW s \in Seq(PoolMessages), NEW t \in Seq(Jobs), NEW m \in PoolMessages, Resets(m), NEW n
  PROVE  MessagesLead(s \o <<m>> \o t, n, m.params[1])
<1> DEFINE u == s \o <<m>>
           r == u \o t
           k == Len(s) + 1
<1>1. t \in Seq(PoolMessages) /\ \A j \in 1..Len(t) : ~Resets(t[j])
  <2>1. Jobs \subseteq PoolMessages /\ \A j \in Jobs : ~Resets(j)
    BY DEF Jobs, PoolMessages, Resets, MiningNotify
  <2>2. Len(t) \in Nat /\ \A j \in 1..Len(t) : t[j] \in Jobs
    BY LenProperties, ElementOfSeq
  <2>3. t \in Seq(PoolMessages)
    BY <2>1, <2>2, LenProperties, IsASeq
  <2> QED BY <2>1, <2>2, <2>3
<1>2. /\ Len(s) \in Nat /\ u \in Seq(PoolMessages) /\ Len(u) = k /\ u[k] = m
  <2>1. u = Append(s, m)
    BY AppendIsConcat
  <2> QED BY <2>1, LenProperties, AppendProperties
<1> HIDE DEF u
<1>3. /\ Len(t) \in Nat /\ r \in Seq(PoolMessages) /\ DOMAIN r = 1..(k + Len(t))
      /\ \A j \in 1..(k + Len(t)) : r[j] = IF j <= k THEN u[j] ELSE t[j - k]
  <2>1. /\ Len(t) \in Nat /\ r \in Seq(PoolMessages) /\ Len(r) = Len(u) + Len(t)
        /\ \A j \in 1..(Len(u) + Len(t)) : r[j] = IF j <= Len(u) THEN u[j] ELSE t[j - Len(u)]
    BY <1>1, <1>2, LenProperties, ConcatProperties
  <2> HIDE DEF r
  <2>2. DOMAIN r = 1..Len(r)
    BY <2>1, LenProperties
  <2> QED BY <1>2, <2>1, <2>2
<1> HIDE DEF r
<1>4. k \in DOMAIN r /\ r[k] = m
  BY <1>2, <1>3
<1>5. \A j \in DOMAIN r : j > k => ~Resets(r[j])
  <2>1. ASSUME NEW j \in DOMAIN r, j > k PROVE ~Resets(r[j])
    <3>1. j \in 1..(k + Len(t)) /\ j - k \in 1..Len(t) /\ r[j] = t[j - k]
      BY <1>2, <1>3, <2>1
    <3> QED BY <1>1, <3>1
  <2> QED BY <2>1
<1>6. MessagesLead(r, n, m.params[1])
  BY <1>4, <1>5 DEF MessagesLead
<1> QED
  BY <1>6 DEF r, u

\* One message more, at the end or from the front.
LEMMA LeadAppend ==
  ASSUME NEW T, NEW s \in Seq(T), NEW m \in T, NEW n, NEW to
  PROVE  /\ Resets(m) => MessagesLead(Append(s, m), n, m.params[1])
         /\ ~Resets(m) /\ MessagesLead(s, n, to) => MessagesLead(Append(s, m), n, to)
<1> DEFINE t == Append(s, m)
           e == Len(s) + 1
<1>1. /\ Len(s) \in Nat /\ DOMAIN s = 1..Len(s) /\ DOMAIN t = 1..e /\ t[e] = m
      /\ \A k \in 1..Len(s) : t[k] = s[k]
  BY LenProperties, AppendProperties
<1> HIDE DEF t
<1>2. ASSUME Resets(m) PROVE MessagesLead(t, n, m.params[1])
  <2>1. e \in DOMAIN t /\ \A j \in DOMAIN t : ~(j > e)
    BY <1>1
  <2> QED BY <1>1, <1>2, <2>1 DEF MessagesLead
<1>3. ASSUME ~Resets(m), MessagesLead(s, n, to) PROVE MessagesLead(t, n, to)
  <2>1. \A j \in DOMAIN t : (j \in DOMAIN s /\ t[j] = s[j]) \/ ~Resets(t[j])
    BY <1>1, <1>3
  <2>2. \A j \in DOMAIN s : j \in DOMAIN t /\ t[j] = s[j]
    BY <1>1
  <2>3. CASE n = to /\ \A j \in DOMAIN s : ~Resets(s[j])
    BY <2>1, <2>3 DEF MessagesLead
  <2>4. ASSUME NEW k \in DOMAIN s, Resets(s[k]), s[k].params[1] = to,
               \A j \in DOMAIN s : j > k => ~Resets(s[j])
        PROVE  MessagesLead(t, n, to)
    <3>1. \A j \in DOMAIN t : j > k => ~Resets(t[j])
      BY <2>1, <2>4
    <3> QED BY <2>2, <2>4, <3>1 DEF MessagesLead
  <2> QED BY <1>3, <2>3, <2>4 DEF MessagesLead
<1> QED
  BY <1>2, <1>3 DEF t

LEMMA LeadTail ==
  ASSUME NEW T, NEW s \in Seq(T), s # <<>>, NEW n, NEW to, MessagesLead(s, n, to)
  PROVE  MessagesLead(Tail(s), IF Resets(Head(s)) THEN Head(s).params[1] ELSE n, to)
<1> DEFINE t == Tail(s)
           h == IF Resets(Head(s)) THEN Head(s).params[1] ELSE n
<1>1. /\ Len(s) \in Nat \ {0} /\ DOMAIN s = 1..Len(s)
      /\ DOMAIN t = 1..(Len(s) - 1) /\ Head(s) = s[1]
      /\ \A k \in 1..(Len(s) - 1) : t[k] = s[k + 1]
  BY LenProperties, HeadTailProperties, EmptySeq
<1> HIDE DEF t
<1>2. \A j \in DOMAIN t : j \in Nat /\ j + 1 \in DOMAIN s /\ t[j] = s[j + 1]
  BY <1>1
<1>3. 1 \in DOMAIN s /\ \A k \in DOMAIN s : k \in Nat /\ (k = 1 \/ (k - 1 \in DOMAIN t /\ t[k - 1] = s[k]))
  BY <1>1
<1>4. CASE n = to /\ \A j \in DOMAIN s : ~Resets(s[j])
  <2>1. h = to
    BY <1>1, <1>3, <1>4
  <2>2. \A j \in DOMAIN t : ~Resets(t[j])
    BY <1>2, <1>4
  <2> QED BY <2>1, <2>2 DEF MessagesLead, t
<1>5. ASSUME NEW k \in DOMAIN s, Resets(s[k]), s[k].params[1] = to,
             \A j \in DOMAIN s : j > k => ~Resets(s[j])
      PROVE  MessagesLead(t, h, to)
  <2>1. k \in Nat /\ \A j \in DOMAIN t : j > k - 1 => ~Resets(t[j])
    BY <1>2, <1>3, <1>5
  <2>2. CASE k = 1
    <3>1. h = to
      BY <1>1, <1>5, <2>2
    <3>2. \A j \in DOMAIN t : ~Resets(t[j])
      BY <1>1, <2>1, <2>2
    <3> QED BY <3>1, <3>2 DEF MessagesLead
  <2>3. CASE k # 1
    <3>1. k - 1 \in DOMAIN t /\ Resets(t[k - 1]) /\ t[k - 1].params[1] = to
      BY <1>3, <1>5, <2>3
    <3> QED BY <2>1, <3>1 DEF MessagesLead
  <2> QED BY <2>2, <2>3
<1> QED
  BY <1>4, <1>5 DEF MessagesLead, t

\* The same of the lines after the first a.
LEMMA LinesAppend ==
  ASSUME NEW T, NEW s \in Seq(T), NEW l \in T, NEW n, NEW to, NEW a \in Nat, a <= Len(s)
  PROVE  /\ ResetsLine(l) => LinesLead(Append(s, l), a, n, l.params[1])
         /\ ~ResetsLine(l) /\ LinesLead(s, a, n, to) => LinesLead(Append(s, l), a, n, to)
<1> DEFINE t == Append(s, l)
           e == Len(s) + 1
<1>1. /\ Len(s) \in Nat /\ DOMAIN s = 1..Len(s) /\ DOMAIN t = 1..e /\ t[e] = l
      /\ \A k \in 1..Len(s) : t[k] = s[k]
  BY LenProperties, AppendProperties
<1> HIDE DEF t
<1>2. ASSUME ResetsLine(l) PROVE LinesLead(t, a, n, l.params[1])
  <2>1. e \in DOMAIN t /\ e > a /\ \A j \in DOMAIN t : ~(j > e)
    BY <1>1
  <2> QED BY <1>1, <1>2, <2>1 DEF LinesLead
<1>3. ASSUME ~ResetsLine(l), LinesLead(s, a, n, to) PROVE LinesLead(t, a, n, to)
  <2>1. \A j \in DOMAIN t : (j \in DOMAIN s /\ t[j] = s[j]) \/ ~ResetsLine(t[j])
    BY <1>1, <1>3
  <2>2. \A j \in DOMAIN s : j \in DOMAIN t /\ t[j] = s[j]
    BY <1>1
  <2>3. CASE n = to /\ \A j \in DOMAIN s : j > a => ~ResetsLine(s[j])
    BY <2>1, <2>3 DEF LinesLead
  <2>4. ASSUME NEW k \in DOMAIN s, k > a, ResetsLine(s[k]), s[k].params[1] = to,
               \A j \in DOMAIN s : j > k => ~ResetsLine(s[j])
        PROVE  LinesLead(t, a, n, to)
    <3>1. \A j \in DOMAIN t : j > k => ~ResetsLine(t[j])
      BY <2>1, <2>4
    <3> QED BY <2>2, <2>4, <3>1 DEF LinesLead
  <2> QED BY <1>3, <2>3, <2>4 DEF LinesLead
<1> QED
  BY <1>2, <1>3 DEF t

LEMMA LinesTail ==
  ASSUME NEW T, NEW s \in Seq(T), s # <<>>, NEW n, NEW to
  PROVE  /\ LinesLead(s, 0, n, to) =>
              LinesLead(Tail(s), 0, IF ResetsLine(Head(s)) THEN Head(s).params[1] ELSE n, to)
         /\ \A a \in DOMAIN s : LinesLead(s, a, n, to) => LinesLead(Tail(s), a - 1, n, to)
<1> DEFINE t == Tail(s)
           h == IF ResetsLine(Head(s)) THEN Head(s).params[1] ELSE n
<1>1. /\ Len(s) \in Nat \ {0} /\ DOMAIN s = 1..Len(s)
      /\ DOMAIN t = 1..(Len(s) - 1) /\ Head(s) = s[1]
      /\ \A k \in 1..(Len(s) - 1) : t[k] = s[k + 1]
  BY LenProperties, HeadTailProperties, EmptySeq
<1> HIDE DEF t
<1>2. \A j \in DOMAIN t : j \in Nat \ {0} /\ j + 1 \in DOMAIN s /\ t[j] = s[j + 1]
  BY <1>1
<1>3. 1 \in DOMAIN s /\ \A k \in DOMAIN s : k \in Nat /\ (k = 1 \/ (k - 1 \in DOMAIN t /\ t[k - 1] = s[k]))
  BY <1>1
<1>4. ASSUME LinesLead(s, 0, n, to) PROVE LinesLead(t, 0, h, to)
  <2>1. CASE n = to /\ \A j \in DOMAIN s : j > 0 => ~ResetsLine(s[j])
    <3>1. h = to
      BY <1>1, <1>3, <2>1
    <3>2. \A j \in DOMAIN t : ~ResetsLine(t[j])
      BY <1>2, <2>1
    <3> QED BY <3>1, <3>2 DEF LinesLead
  <2>2. ASSUME NEW k \in DOMAIN s, ResetsLine(s[k]), s[k].params[1] = to,
               \A j \in DOMAIN s : j > k => ~ResetsLine(s[j])
        PROVE  LinesLead(t, 0, h, to)
    <3>1. k \in Nat /\ \A j \in DOMAIN t : j > k - 1 => ~ResetsLine(t[j])
      BY <1>2, <1>3, <2>2
    <3>2. CASE k = 1
      <4>1. h = to
        BY <1>1, <2>2, <3>2
      <4>2. \A j \in DOMAIN t : ~ResetsLine(t[j])
        BY <1>1, <3>1, <3>2
      <4> QED BY <4>1, <4>2 DEF LinesLead
    <3>3. CASE k # 1
      <4>1. k - 1 \in DOMAIN t /\ k - 1 > 0 /\ ResetsLine(t[k - 1]) /\ t[k - 1].params[1] = to
        BY <1>2, <1>3, <2>2, <3>3, SMTT(30)
      <4> QED BY <3>1, <4>1 DEF LinesLead
    <3> QED BY <3>2, <3>3
  <2> QED BY <1>4, <2>1, <2>2 DEF LinesLead
<1>5. ASSUME NEW a \in DOMAIN s, LinesLead(s, a, n, to) PROVE LinesLead(t, a - 1, n, to)
  <2>1. a \in Nat \ {0}
    BY <1>1
  <2>2. CASE n = to /\ \A j \in DOMAIN s : j > a => ~ResetsLine(s[j])
    <3>1. \A j \in DOMAIN t : j > a - 1 => ~ResetsLine(t[j])
      BY <1>2, <2>1, <2>2
    <3> QED BY <2>2, <3>1 DEF LinesLead
  <2>3. ASSUME NEW k \in DOMAIN s, k > a, ResetsLine(s[k]), s[k].params[1] = to,
               \A j \in DOMAIN s : j > k => ~ResetsLine(s[j])
        PROVE  LinesLead(t, a - 1, n, to)
    <3>1. \A j \in DOMAIN t : j > k - 1 => ~ResetsLine(t[j])
      BY <1>2, <1>3, <2>3
    <3>2. k - 1 \in DOMAIN t /\ k - 1 > a - 1 /\ t[k - 1] = s[k]
      BY <1>3, <2>1, <2>3
    <3> QED BY <2>3, <3>1, <3>2 DEF LinesLead
  <2> QED BY <1>5, <2>2, <2>3 DEF LinesLead
<1> QED
  BY <1>4, <1>5 DEF t

(* Lines and messages.                                                      *)

LEMMA MinerLine ==
  ASSUME NEW l \in MinerLines
  PROVE  /\ ParseMessageToPool(l).kind = "nil" <=> ~l.sound
         /\ l.sound => l.id \in 1..MaxLines /\ ParseMessageToPool(l).id = l.id
         /\ l.sound => /\ Written(ParseMessageToPool(l)).id = l.id
                       /\ Written(ParseMessageToPool(l)).method = "mining.submit" =>
                             Written(ParseMessageToPool(l)).params = Username
         /\ \A i : l \in LinesWith(i) <=> l.sound /\ l.id = i
<1>1. ASSUME l = Garbled
      PROVE  ~l.sound /\ ParseMessageToPool(l).kind = "nil"
  <2>1. ~l.sound
    BY <1>1 DEF Garbled, Line
  <2> QED BY <2>1 DEF ParseMessageToPool, Nil
<1>2. ASSUME NEW method \in MinerMethods, NEW i \in 1..MaxLines, l = Request(method, i, "worker")
      PROVE  /\ ParseMessageToPool(l).kind # "nil" /\ l.sound /\ l.id = i
             /\ ParseMessageToPool(l).id = l.id /\ Written(ParseMessageToPool(l)).id = l.id
             /\ Written(ParseMessageToPool(l)).method = "mining.submit" =>
                   Written(ParseMessageToPool(l)).params = Username
  <2>1. l = [method |-> method, id |-> i, params |-> "worker", result |-> NoField,
             error |-> FALSE, sound |-> TRUE]
    BY <1>2 DEF Request, Line
  <2>2. CASE method \in ToPool
    <3>1. ParseMessageToPool(l) = [kind |-> method, id |-> i, params |-> "worker"]
      BY <2>1, <2>2 DEF ParseMessageToPool
    <3>2. method # "result" /\ method # "nil" /\ method \notin FromPool /\ method # "unknown"
      BY <2>2 DEF ToPool, FromPool
    <3>3. CASE method = "mining.submit"
      <4>1. writeInterceptor(ParseMessageToPool(l))
               = [kind |-> method, id |-> i, params |-> Username]
        BY <3>1, <3>3 DEF writeInterceptor
      <4> QED BY <2>1, <3>1, <3>2, <3>3, <4>1 DEF Written, Serialize, Request, Line
    <3>4. CASE method # "mining.submit"
      <4>1. writeInterceptor(ParseMessageToPool(l)) = ParseMessageToPool(l)
        BY <3>1, <3>4 DEF writeInterceptor
      <4> QED BY <2>1, <3>1, <3>2, <3>4, <4>1 DEF Written, Serialize, Request, Line
    <3> QED BY <3>3, <3>4
  <2>3. CASE method \notin ToPool
    <3>1. ParseMessageToPool(l)
             = [kind |-> "unknown", id |-> i, method |-> method, params |-> "worker"]
      BY <2>1, <2>3 DEF ParseMessageToPool, MiningUnknown
    <3>2. writeInterceptor(ParseMessageToPool(l)) = ParseMessageToPool(l) /\ method # "mining.submit"
      BY <3>1, <2>3 DEF writeInterceptor, ToPool
    <3> QED BY <2>1, <3>1, <3>2 DEF Written, Serialize, Request, Line, FromPool
  <2> QED BY <2>2, <2>3
<1>3. \A i : l \in LinesWith(i) <=> l.sound /\ l.id = i
  BY DEF LinesWith
<1>4. l = Garbled \/ \E method \in MinerMethods, i \in 1..MaxLines : l = Request(method, i, "worker")
  BY DEF MinerLines
<1> QED
  BY <1>1, <1>2, <1>3, <1>4

LEMMA PoolMessage ==
  /\ Jobs \subseteq PoolMessages
  /\ \A m \in Jobs : ~Resets(m) /\ \A i : m \notin ResultsOf(i)
  /\ \A n \in Nonces : LET m == NewMiningSetExtranonceV2(n)
                       IN /\ m \in PoolMessages /\ Resets(m) /\ m.params[1] = n
                          /\ \A i : m \notin ResultsOf(i)
  /\ \A m \in PoolMessages :
        /\ m.kind = "result" => m.id \in SessionIds /\ m.result \in Nonces \ {0}
        /\ Resets(m) => m.kind # "result" /\ m.params[1] \in Nonces
        /\ \A i : m \in ResultsOf(i) <=> m.kind = "result" /\ m.id = i
<1>1. \A m \in Jobs : m.kind = "mining.notify" /\ m \in PoolMessages
  BY DEF Jobs, PoolMessages, MiningNotify
<1>2. ASSUME NEW n \in Nonces
      PROVE  LET m == NewMiningSetExtranonceV2(n)
             IN m \in PoolMessages /\ m.kind = "mining.set_extranonce" /\ m.params[1] = n
  BY DEF NewMiningSetExtranonceV2, PoolMessages, MiningSetExtranonce
<1>3. ASSUME NEW m \in PoolMessages
      PROVE  /\ m.kind = "result" => m.id \in SessionIds /\ m.result \in Nonces \ {0}
             /\ Resets(m) => m.kind # "result" /\ m.params[1] \in Nonces
  <2>1. CASE \E i \in SessionIds, n \in Nonces \ {0}, e \in BOOLEAN : m = MiningResult(i, n, e)
    BY <2>1 DEF MiningResult, Resets
  <2>2. CASE \E n \in Nonces, size \in {"int", "float64"} : m = MiningSetExtranonce(n, size)
    BY <2>2 DEF MiningSetExtranonce, Resets
  <2>3. CASE m \in Jobs \cup {Nil}
    BY <2>3, <1>1 DEF Nil, Resets
  <2> QED BY <2>1, <2>2, <2>3 DEF PoolMessages
<1>4. \A m \in PoolMessages : \A i : m \in ResultsOf(i) <=> m.kind = "result" /\ m.id = i
  BY DEF ResultsOf
<1>5. \A m \in Jobs : \A i : m \notin ResultsOf(i)
  BY <1>1, <1>4
<1>6. \A n \in Nonces : \A i : NewMiningSetExtranonceV2(n) \notin ResultsOf(i)
  BY <1>2, <1>4
<1> QED
  BY <1>1, <1>2, <1>3, <1>4, <1>5, <1>6 DEF Resets

LEMMA PoolLine ==
  ASSUME NEW l \in PoolLines
  PROVE  LET m == ParseMessageFromPool(l) IN
         /\ m \in PoolMessages /\ (m.kind = "mining.notify" => m \in Jobs)
         /\ \A i : m \in ResultsOf(i) <=> l \in AnswersTo(i)
         /\ m.kind = "result" => m.id = l.id /\ m.result = l.result
         /\ Resets(m) <=> ResetsLine(l)
         /\ ResetsLine(l) => m.params[1] = l.params[1]
<1> DEFINE m == ParseMessageFromPool(l)
           Goal == /\ m \in PoolMessages /\ (m.kind = "mining.notify" => m \in Jobs)
                   /\ \A i : m \in ResultsOf(i) <=> l \in AnswersTo(i)
                   /\ m.kind = "result" => m.id = l.id /\ m.result = l.result
                   /\ Resets(m) <=> ResetsLine(l)
                   /\ ResetsLine(l) => m.params[1] = l.params[1]
<1>1. ASSUME NEW i \in SessionIds, NEW n \in Nonces \ {0}, NEW e \in BOOLEAN, l = PoolAnswer(i, n, e)
      PROVE  Goal
  <2>1. l = [method |-> "", id |-> i, params |-> NoField, result |-> n, error |-> e, sound |-> TRUE]
    BY <1>1 DEF PoolAnswer, Line
  <2>2. m = MiningResult(i, n, e)
    BY <2>1 DEF ParseMessageFromPool, FromPool, NoField
  <2>3. m \in PoolMessages
    BY <2>2 DEF PoolMessages
  <2>4. m = [kind |-> "result", id |-> i, result |-> n, error |-> e]
    BY <2>2 DEF MiningResult
  <2> HIDE DEF m
  <2>5. \A j : m \in ResultsOf(j) <=> l \in AnswersTo(j)
    BY <2>1, <2>3, <2>4 DEF ResultsOf, AnswersTo
  <2>6. ~Resets(m) /\ ~ResetsLine(l)
    BY <2>1, <2>4 DEF Resets, ResetsLine
  <2> QED BY <2>1, <2>3, <2>4, <2>5, <2>6
<1>2. ASSUME NEW b \in BOOLEAN, l = PoolNotify(b)
      PROVE  Goal
  <2>1. l = [method |-> "mining.notify", id |-> NoID, params |-> <<"job", b>>, result |-> NoField,
             error |-> FALSE, sound |-> TRUE]
    BY <1>2 DEF PoolNotify, Request, Line
  <2>2. m = MiningNotify("job", b)
    BY <2>1 DEF ParseMessageFromPool, FromPool, MiningNotify
  <2>3. m \in Jobs
    BY <2>2 DEF Jobs
  <2>4. m.kind = "mining.notify"
    BY <2>2 DEF MiningNotify
  <2> HIDE DEF m
  <2> QED BY <2>1, <2>3, <2>4, PoolMessage DEF ResetsLine, AnswersTo
<1>3. ASSUME NEW n \in Nonces, l = PoolExtranonce(n)
      PROVE  Goal
  <2>1. l = [method |-> "mining.set_extranonce", id |-> NoID, params |-> <<n, "float64">>,
             result |-> NoField, error |-> FALSE, sound |-> TRUE]
    BY <1>3 DEF PoolExtranonce, Request, Line
  <2>2. m = MiningSetExtranonce(n, "float64")
    BY <2>1 DEF ParseMessageFromPool, ParseMiningSetExtranonce
  <2>3. m \in PoolMessages
    BY <2>2 DEF PoolMessages
  <2>4. m = [kind |-> "mining.set_extranonce", params |-> <<n, "float64">>]
    BY <2>2 DEF MiningSetExtranonce
  <2> HIDE DEF m
  <2> QED BY <2>1, <2>3, <2>4 DEF Resets, ResetsLine, AnswersTo, ResultsOf
<1>4. ASSUME l = PoolUnknown
      PROVE  Goal
  <2>1. l = [method |-> "client.show_message", id |-> NoID, params |-> <<"text", "">>,
             result |-> NoField, error |-> FALSE, sound |-> TRUE]
    BY <1>4 DEF PoolUnknown, Request, Line
  <2>2. m = Nil
    BY <2>1 DEF ParseMessageFromPool, FromPool, NoField
  <2>3. m \in PoolMessages
    BY <2>2 DEF PoolMessages
  <2>4. m.kind = "nil"
    BY <2>2 DEF Nil
  <2> HIDE DEF m
  <2> QED BY <2>1, <2>3, <2>4 DEF Resets, ResetsLine, AnswersTo, ResultsOf
<1>5. \/ \E i \in SessionIds, n \in Nonces \ {0}, e \in BOOLEAN : l = PoolAnswer(i, n, e)
      \/ \E b \in BOOLEAN : l = PoolNotify(b)
      \/ \E n \in Nonces : l = PoolExtranonce(n)
      \/ l = PoolUnknown
  BY DEF PoolLines
<1>6. Goal
  <2> HIDE DEF Goal
  <2> QED BY <1>1, <1>2, <1>3, <1>4, <1>5
<1> QED
  BY <1>6

\* What a pool connection resends: its extranonce, after all that waits, and its jobs.
LEMMA ResentFacts ==
  ASSUME msgCh \in Seq(PoolMessages), notifyMsgs \in Seq(Jobs), extraNonceMsg \in Nonces
  PROVE  /\ Resent \in Seq(PoolMessages)
         /\ \A i : Count(Resent, ResultsOf(i)) = Count(msgCh, ResultsOf(i))
         /\ \A n : MessagesLead(Resent, n, extraNonceMsg)
<1> DEFINE m == NewMiningSetExtranonceV2(extraNonceMsg)
           u == Append(msgCh, m)
<1>1. /\ m \in PoolMessages /\ Resets(m) /\ m.params[1] = extraNonceMsg
      /\ \A i : m \notin ResultsOf(i)
  BY PoolMessage
<1> HIDE DEF m
<1>2. Resent = u \o notifyMsgs /\ Resent = msgCh \o <<m>> \o notifyMsgs
  BY <1>1, AppendIsConcat DEF Resent, GetExtranonce, m
<1>3. u \in Seq(PoolMessages)
  BY <1>1, AppendProperties
<1>4. notifyMsgs \in Seq(PoolMessages)
  <2>1. Len(notifyMsgs) \in Nat /\ \A k \in 1..Len(notifyMsgs) : notifyMsgs[k] \in Jobs
    BY LenProperties, ElementOfSeq
  <2> QED BY <2>1, PoolMessage, LenProperties, IsASeq
<1>5. ASSUME NEW i
      PROVE  Count(Resent, ResultsOf(i)) = Count(msgCh, ResultsOf(i))
  <2>1. \A k \in DOMAIN notifyMsgs : notifyMsgs[k] \notin ResultsOf(i)
    <3>1. \A k \in DOMAIN notifyMsgs : notifyMsgs[k] \in Jobs
      BY LenProperties, ElementOfSeq
    <3> QED BY <3>1, PoolMessage
  <2>2. Count(u, ResultsOf(i)) = Count(msgCh, ResultsOf(i))
    <3>1. /\ Count(u, ResultsOf(i)) = Count(msgCh, ResultsOf(i)) + One(m \in ResultsOf(i))
          /\ Count(msgCh, ResultsOf(i)) \in Nat
      BY <1>1, CountAppend, CountType
    <3> QED BY <1>1, <3>1 DEF One
  <2> HIDE DEF u
  <2>3. Count(u \o notifyMsgs, ResultsOf(i)) = Count(u, ResultsOf(i))
    BY <1>3, <1>4, <2>1, CountConcat
  <2> QED BY <1>2, <2>2, <2>3
<1>6. Resent \in Seq(PoolMessages)
  <2> HIDE DEF u
  <2> QED BY <1>2, <1>3, <1>4, ConcatProperties
<1> QED
  BY <1>1, <1>2, <1>5, <1>6, LeadConcat

(* The state and its parts.                                                 *)

LEMMA Fields ==
  ASSUME SessionShape
  PROVE  /\ MaxLines \in Nat /\ MaxPushes \in Nat
         /\ miner.unread \in Seq(MinerLines) /\ miner.sent \in 0..MaxLines
         /\ miner.asked \subseteq 1..MaxLines
         /\ theirs.unread \in Seq(PoolLines) /\ theirs.nonce \in Nonces \ {0}
         /\ theirs.asked \subseteq SessionIds \X {"node", "miner"}
         /\ asking.id \in SessionIds /\ asking.for \in SessionIds /\ asking.result \in Nonces
         /\ asking.st \in {"none", "written", "registered", "true", "refused"}
         /\ emitted \in Seq(PoolMessages) /\ msgCh \in Seq(PoolMessages)
<1>1. emitted \in Seq(PoolMessages)
  <2>1. <<>> \in Seq(PoolMessages)
    OBVIOUS
  <2>2. ASSUME NEW m \in PoolMessages PROVE <<m>> \in Seq(PoolMessages)
    BY <2>1, AppendProperties
  <2>3. emitted = <<>> \/ \E m \in PoolMessages : emitted = <<m>>
    BY DEF SessionShape, QueueShape
  <2> QED BY <2>1, <2>2, <2>3
<1> QED
  BY <1>1, SessionAssumption DEF SessionShape, MinerShape, PoolShape, AskingShape, QueueShape

LEMMA Numbers ==
  ASSUME SessionShape
  PROVE  \A i : /\ LinesOf(i) \in Nat /\ Count(theirs.unread, AnswersTo(i)) \in Nat
                /\ Count(emitted, ResultsOf(i)) \in Nat /\ Count(msgCh, ResultsOf(i)) \in Nat
                /\ OnTheWay(i) \in Nat
BY Fields, CountType, SMTT(30) DEF LinesOf, OnTheWay

LEMMA InitSession == SessionInit => SessionInv
<1> SUFFICES ASSUME SessionInit PROVE SessionInv
  OBVIOUS
<1>1. MaxLines \in Nat /\ MaxPushes \in Nat
  BY SessionAssumption
<1>2. SessionShape
  <2>1. MinerShape
    BY <1>1 DEF SessionInit, MinerShape
  <2>2. PoolShape
    BY <1>1 DEF SessionInit, PoolShape, Nonces
  <2>3. AskingShape
    BY <1>1 DEF SessionInit, AskingShape, NotAsking, NoID, NoField, SessionIds, Nonces
  <2>4. QueueShape
    BY DEF SessionInit, QueueShape
  <2>5. RunShape
    <3>1. listed = (serving \in {"select", "changing"})
      <4>1. serving \notin {"select", "changing"} /\ listed = FALSE
        BY DEF SessionInit
      <4>2. (serving \in {"select", "changing"}) = FALSE
        BY <4>1
      <4> QED BY <4>1, <4>2
    <3>2. told \in [SessionIds -> Nat]
      BY DEF SessionInit
    <3>3. {up, down} \subseteq {"off", "read", "send", "done"}
      BY DEF SessionInit
    <3> QED BY <1>1, <3>1, <3>2, <3>3, SMTT(30) DEF SessionInit, RunShape, SessionIds, Nonces
  <2> QED BY <2>1, <2>2, <2>3, <2>4, <2>5 DEF SessionShape
<1>3. /\ Len(miner.unread) = 0 /\ miner.sent = 0 /\ asking.st = "none" /\ lastRequestId = 0
      /\ serving = "peek" /\ model = "off" /\ up = "off" /\ down = "off" /\ answers = {}
      /\ theirs.asked = {} /\ told = [i \in SessionIds |-> 0] /\ theirs.unread = <<>>
      /\ emitted = <<>> /\ msgCh = <<>> /\ isReading = FALSE /\ miner.asked = {}
  BY DEF SessionInit, NotAsking
<1>4. \A i : LinesOf(i) = 0 /\ OnTheWay(i) = 0
  BY CountEmpty DEF SessionInit, LinesOf, OnTheWay
<1>5. Stages /\ Delivered /\ Extranonce /\ Counted
  BY <1>3 DEF Stages, Delivered, Extranonce, Counted, Login
<1>6. Lined
  BY <1>3, <1>4 DEF Lined, One
<1>7. LoggingIn
  BY <1>3, <1>4 DEF LoggingIn, Login, One
<1> QED
  BY <1>2, <1>5, <1>6, <1>7 DEF SessionInv
LEMMA SessionStill ==
  ASSUME SessionInv, UNCHANGED sessionVars
  PROVE  SessionInv'
<1>1. UNCHANGED <<runVars, peerVars, poolConnVars>>
  BY DEF sessionVars
<1>2. SessionShape'
  BY <1>1 DEF SessionInv, SessionShape, MinerShape, PoolShape, AskingShape, QueueShape, RunShape,
              runVars, peerVars, poolConnVars
<1>3. Stages' /\ Lined' /\ LoggingIn' /\ Counted' /\ Delivered' /\ Extranonce'
  BY <1>1 DEF SessionInv, Stages, Lined, LoggingIn, Counted, Delivered, Extranonce, Login, LinesOf,
              OnTheWay, MayBeTold, Configures, Leads, Done, runVars, peerVars, poolConnVars
<1> QED
  BY <1>2, <1>3 DEF SessionInv

(* The miner.                                                               *)

\* A line of the miner's own has an id that none of its lines has had.
LEMMA SendsSafe ==
  ASSUME SessionInv, NEW l \in MinerLines, NEW step \in 0..3, Sends(l, step),
         l.sound => l.id = miner.sent + 1
  PROVE  SessionInv'
<1>1. SessionShape /\ Stages /\ Lined /\ LoggingIn /\ Counted /\ Delivered /\ Extranonce
  BY DEF SessionInv
<1>2. /\ UNCHANGED <<runVars, poolConnVars, told, nonce, theirs, answers, early>>
      /\ miner.sent < MaxLines
  BY DEF Sends, minerUnchanged
<1>3. /\ miner'.sent = miner.sent + 1 /\ miner'.unread = Append(miner.unread, l)
      /\ miner'.asked = IF l.sound THEN miner.asked \cup {miner.sent + 1} ELSE miner.asked
  BY <1>1 DEF Sends, SessionShape, MinerShape
<1>4. /\ miner.unread \in Seq(MinerLines) /\ miner.sent \in Nat /\ MaxLines \in Nat
      /\ miner.asked \subseteq 1..miner.sent /\ Len(miner.unread) \in Nat
      /\ Len(miner'.unread) = Len(miner.unread) + 1 /\ lastRequestId \in Nat
      /\ miner'.unread \in Seq(MinerLines)
  <2>1. /\ miner.unread \in Seq(MinerLines) /\ miner.sent \in Nat /\ MaxLines \in Nat
        /\ miner.asked \subseteq 1..miner.sent
    BY <1>1, Fields DEF Lined
  <2>2. lastRequestId \in Nat
    BY <1>1, <2>1 DEF SessionShape, RunShape, SessionIds
  <2> QED BY <1>3, <2>1, <2>2, LenProperties, AppendProperties
<1>5. SessionShape'
  <2>1. MinerShape'
    <3>1. miner' \in [sent : 0..MaxLines, unread : Seq(MinerLines), step : 0..3,
                      asked : SUBSET (1..MaxLines), gone : BOOLEAN]
      <4>1. miner' = [miner EXCEPT !.sent = @ + 1, !.unread = Append(@, l), !.step = step,
                                   !.asked = IF l.sound THEN @ \cup {l.id} ELSE @]
        BY DEF Sends
      <4>2. miner.sent + 1 \in 0..MaxLines /\ (l.sound => l.id \in 1..MaxLines)
        BY <1>2, <1>4, MinerLine
      <4> QED BY <1>1, <1>2, <1>3, <1>4, <4>1, <4>2 DEF SessionShape, MinerShape
    <3> QED BY <3>1 DEF MinerShape
  <2> QED BY <1>1, <1>2, <2>1 DEF SessionShape, PoolShape, AskingShape, QueueShape, RunShape,
                                  runVars, poolConnVars
<1>6. Stages' /\ LoggingIn' /\ Delivered' /\ Extranonce'
  BY <1>1, <1>2 DEF Stages, LoggingIn, Delivered, Extranonce, Login, OnTheWay, Leads, runVars,
                    poolConnVars
<1>7. \A i \in SessionIds :
         /\ LinesOf(i) \in Nat
         /\ LinesOf(i)' = LinesOf(i) + One(l.sound /\ i = miner.sent + 1)
         /\ One(i \in miner'.asked) = One(i \in miner.asked) + One(l.sound /\ i = miner.sent + 1)
  <2> SUFFICES ASSUME NEW i \in SessionIds
               PROVE  /\ LinesOf(i) \in Nat
                      /\ LinesOf(i)' = LinesOf(i) + One(l.sound /\ i = miner.sent + 1)
                      /\ One(i \in miner'.asked) = One(i \in miner.asked) + One(l.sound /\ i = miner.sent + 1)
    OBVIOUS
  <2>1. LinesOf(i) \in Nat /\ LinesOf(i)' = LinesOf(i) + One(l \in LinesWith(i))
    BY <1>1, <1>3, <1>4, Numbers, CountAppend DEF LinesOf
  <2>2. l \in LinesWith(i) <=> l.sound /\ i = miner.sent + 1
    BY MinerLine
  <2>3. miner.sent + 1 \notin miner.asked
    BY <1>4
  <2>4. One(i \in miner'.asked) = One(i \in miner.asked) + One(l.sound /\ i = miner.sent + 1)
    BY <1>3, <2>3 DEF One
  <2> QED BY <2>1, <2>2, <2>4 DEF One
<1>8. Lined'
  <2>1. miner'.asked \subseteq 1..miner'.sent
    BY <1>3, <1>4
  <2>2. \A i \in SessionIds : LinesOf(i)' <= One(i \in miner'.asked)
    BY <1>1, <1>7 DEF Lined, One
  <2>3. Login' = Login /\ lastRequestId' = lastRequestId
    BY <1>2 DEF Login, runVars, poolConnVars
  <2> QED BY <1>1, <1>3, <1>4, <2>1, <2>2, <2>3 DEF Lined
<1>9. Counted'
  <2>1. ASSUME NEW i \in SessionIds
        PROVE  MayBeTold(i)' = MayBeTold(i) + One(l.sound /\ i = miner.sent + 1) /\ MayBeTold(i) \in Nat
    <3>1. OnTheWay(i)' = OnTheWay(i) /\ Configures(i)' = Configures(i) /\ told' = told /\ theirs' = theirs
          /\ Done' = Done
      BY <1>2 DEF OnTheWay, Configures, runVars, poolConnVars, Done
    <3>2. OnTheWay(i) \in Nat /\ told[i] \in Nat
      BY <1>1, Numbers DEF SessionShape, RunShape
    <3> HIDE DEF Done
    <3> QED BY <1>7, <3>1, <3>2 DEF MayBeTold, One
  <2>2. Login' = Login /\ lastRequestId' = lastRequestId
    BY <1>2 DEF Login, runVars, poolConnVars
  <2> QED BY <1>1, <1>7, <2>1, <2>2 DEF Counted, One
<1> QED
  BY <1>5, <1>6, <1>8, <1>9 DEF SessionInv

LEMMA MinerSays ==
  ASSUME SessionInv,
         \/ \E k \in DOMAIN Handshake : MinerShakesHands(k)
         \/ MinerSubmits \/ MinerAsksElse \/ MinerGarbles
  PROVE  SessionInv'
<1>1. miner.sent \in Nat /\ MaxLines \in Nat /\ miner.step \in 0..3
  BY Fields DEF SessionInv, SessionShape, MinerShape
<1>2. ASSUME NEW method \in MinerMethods, NEW step \in 0..3, MinerAsks(method, step)
      PROVE  SessionInv'
  <2>1. miner.sent + 1 \in 1..MaxLines
    BY <1>1, <1>2 DEF MinerAsks, Sends
  <2>2. Request(method, miner.sent + 1, "worker") \in MinerLines
    BY <2>1 DEF MinerLines
  <2>3. Request(method, miner.sent + 1, "worker").id = miner.sent + 1
    BY DEF Request, Line
  <2> QED BY <1>2, <2>2, <2>3, SendsSafe DEF MinerAsks
<1>3. ASSUME NEW k \in DOMAIN Handshake, MinerShakesHands(k)
      PROVE  SessionInv'
  <2>1. k \in 0..3 /\ Handshake[k] \in MinerMethods
    BY DEF Handshake, MinerMethods
  <2> QED BY <1>2, <1>3, <2>1 DEF MinerShakesHands
<1>4. CASE MinerSubmits
  BY <1>2, <1>4 DEF MinerSubmits, MinerMethods
<1>5. CASE MinerAsksElse
  BY <1>1, <1>2, <1>5 DEF MinerAsksElse, MinerMethods
<1>6. CASE MinerGarbles
  <2>1. Garbled \in MinerLines /\ ~Garbled.sound
    BY DEF MinerLines, Garbled, Line
  <2> QED BY <1>1, <1>6, <2>1, SendsSafe DEF MinerGarbles
<1> QED
  BY <1>3, <1>4, <1>5, <1>6

LEMMA MinerLeavesSafe ==
  ASSUME SessionInv, MinerLeaves
  PROVE  SessionInv'
<1>1. SessionShape /\ Stages /\ Lined /\ LoggingIn /\ Counted /\ Delivered /\ Extranonce
  BY DEF SessionInv
<1>2. /\ UNCHANGED <<runVars, poolConnVars, told, nonce, theirs, answers, early>>
      /\ miner'.sent = miner.sent /\ miner'.unread = miner.unread /\ miner'.asked = miner.asked
  BY <1>1 DEF MinerLeaves, minerUnchanged, SessionShape, MinerShape
<1>3. MinerShape'
  BY <1>1 DEF MinerLeaves, SessionShape, MinerShape
<1>4. SessionShape'
  BY <1>1, <1>2, <1>3 DEF SessionShape, PoolShape, AskingShape, QueueShape, RunShape, runVars,
                          poolConnVars
<1>5. Stages' /\ Lined' /\ LoggingIn' /\ Counted' /\ Delivered' /\ Extranonce'
  BY <1>1, <1>2 DEF Stages, Lined, LoggingIn, Counted, Delivered, Extranonce, Login, LinesOf,
              OnTheWay, MayBeTold, Configures, Leads, Done, runVars, poolConnVars
<1> QED
  BY <1>4, <1>5 DEF SessionInv

(* The pool.                                                                *)

LEMMA PoolAnswersSafe ==
  ASSUME SessionInv, NEW q \in theirs.asked, NEW error \in BOOLEAN, PoolAnswers(q, error)
  PROVE  SessionInv'
<1> DEFINE l == PoolAnswer(q[1], theirs.nonce, error)
<1>1. SessionShape /\ Stages /\ Lined /\ LoggingIn /\ Counted /\ Delivered /\ Extranonce
  BY DEF SessionInv
<1>2. UNCHANGED <<runVars, poolConnVars, miner, told, nonce, early>>
  BY DEF PoolAnswers, poolUnchanged
<1>3. /\ serving \notin {"peek", "dial", "done"} /\ ~Done
      /\ theirs' = [theirs EXCEPT !.asked = @ \ {q}, !.unread = Append(@, l)]
      /\ answers' = IF q[2] = "miner" THEN answers \cup {q[1]} ELSE answers
  BY DEF PoolAnswers, PoolIsConnected, PoolAnswer, Done
<1>4. /\ theirs'.asked = theirs.asked \ {q} /\ theirs'.unread = Append(theirs.unread, l)
      /\ theirs'.nonce = theirs.nonce
  BY <1>1, <1>3 DEF SessionShape, PoolShape
<1>5. PICK i \in SessionIds, who \in {"node", "miner"} : q = <<i, who>>
  BY <1>1, Fields
<1>6. l \in PoolLines /\ ~ResetsLine(l) /\ l.result = theirs.nonce /\ \A j : l \in AnswersTo(j) <=> j = i
  <2>1. l \in PoolLines
    BY <1>1, <1>5, Fields DEF PoolLines
  <2>2. l.method = "" /\ l.id = i /\ l.result = theirs.nonce
    BY <1>5 DEF PoolAnswer, Line
  <2> QED BY <2>1, <2>2 DEF ResetsLine, AnswersTo
<1>7. q[1] = i /\ q[2] = who
  BY <1>5
<1> HIDE DEF l
<1>8. SessionShape'
  <2>1. PoolShape'
    BY <1>1, <1>3, <1>4, <1>6, AppendProperties DEF SessionShape, PoolShape
  <2>2. RunShape'
    BY <1>1, <1>2, <1>3, <1>7 DEF SessionShape, RunShape, runVars, poolConnVars
  <2> QED BY <1>1, <1>2, <2>1, <2>2 DEF SessionShape, MinerShape, AskingShape, QueueShape, runVars,
                                        poolConnVars
<1>9. \A j : /\ Count(theirs.unread, AnswersTo(j)) \in Nat
             /\ Count(theirs'.unread, AnswersTo(j)) = Count(theirs.unread, AnswersTo(j)) + One(j = i)
             /\ OnTheWay(j) \in Nat /\ OnTheWay(j)' = OnTheWay(j) + One(j = i)
  <2>1. ASSUME NEW j
        PROVE  Count(theirs'.unread, AnswersTo(j)) = Count(theirs.unread, AnswersTo(j)) + One(j = i)
    <3>1. Count(theirs'.unread, AnswersTo(j)) = Count(theirs.unread, AnswersTo(j)) + One(l \in AnswersTo(j))
      BY <1>1, <1>4, <1>6, Fields, CountAppend
    <3> QED BY <1>6, <3>1 DEF One
  <2>2. \A j : /\ Count(theirs.unread, AnswersTo(j)) \in Nat /\ Count(emitted, ResultsOf(j)) \in Nat
               /\ Count(msgCh, ResultsOf(j)) \in Nat /\ OnTheWay(j) \in Nat
    BY <1>1, Numbers
  <2>3. emitted' = emitted /\ msgCh' = msgCh
    BY <1>2 DEF poolConnVars
  <2> QED BY <2>1, <2>2, <2>3 DEF OnTheWay, One
<1>10. \A j \in SessionIds :
          /\ One(<<j, "miner">> \in theirs'.asked) + One(<<j, "node">> \in theirs'.asked) + One(j = i)
                = One(<<j, "miner">> \in theirs.asked) + One(<<j, "node">> \in theirs.asked)
          /\ who = "node" => One(<<j, "node">> \in theirs'.asked) + One(j = i)
                                = One(<<j, "node">> \in theirs.asked)
  BY <1>4, <1>5 DEF One
<1>11. /\ Login' = Login /\ Done' = Done /\ lastRequestId' = lastRequestId /\ told' = told
       /\ miner' = miner /\ asking' = asking /\ serving' = serving /\ emitted' = emitted
       /\ msgCh' = msgCh /\ up' = up /\ down' = down /\ model' = model /\ isReading' = isReading
       /\ extraNonceMsg' = extraNonceMsg /\ nonce' = nonce /\ early' = early
  BY <1>2 DEF Login, Done, runVars, poolConnVars
<1>12. who = "miner" => up # "off"
  BY <1>1, <1>5 DEF Stages
<1>13. Stages'
  <2>1. answers' # {} \/ (\E j \in SessionIds : <<j, "miner">> \in theirs'.asked) => up # "off"
    BY <1>1, <1>3, <1>4, <1>7, <1>12 DEF Stages
  <2> QED BY <1>1, <1>11, <2>1 DEF Stages
<1>14. Lined'
  BY <1>1, <1>11 DEF Lined, LinesOf
<1>15. LoggingIn'
  <2>1. CASE ~Login
    BY <1>11, <2>1 DEF LoggingIn
  <2>2. CASE Login
    <3>1. who = "node"
      BY <1>1, <1>12, <2>2 DEF Stages
    <3>2. \A j \in SessionIds : One(<<j, "node">> \in theirs'.asked) + OnTheWay(j)'
                                   <= One(j \in 1..lastRequestId)
      <4>1. ASSUME NEW j \in SessionIds
            PROVE  One(<<j, "node">> \in theirs'.asked) + OnTheWay(j)'
                      = One(<<j, "node">> \in theirs.asked) + OnTheWay(j)
        <5>1. One(<<j, "node">> \in theirs'.asked) + One(j = i) = One(<<j, "node">> \in theirs.asked)
          BY <1>10, <3>1
        <5>2. OnTheWay(j) \in Nat /\ OnTheWay(j)' = OnTheWay(j) + One(j = i)
          BY <1>9
        <5>3. One(j = i) \in Nat /\ One(<<j, "node">> \in theirs'.asked) \in Nat
          BY DEF One
        <5> QED BY <5>1, <5>2, <5>3
      <4> QED BY <1>1, <2>2, <4>1 DEF LoggingIn
    <3>3. CASE serving = "subscribe"
      <4>1. i = 1
        <5>1. One(TRUE) + OnTheWay(i) <= One(i \in 1..1)
          BY <1>1, <1>5, <2>2, <3>1, <3>3 DEF LoggingIn
        <5> QED BY <1>9, <5>1 DEF One
      <4>2. asking.st \notin {"true", "refused"}
        BY <1>1, <1>5, <2>2, <3>1, <3>3, <4>1 DEF LoggingIn
      <4> QED BY <1>1, <1>11, <2>2, <3>2, <3>3, <4>2 DEF LoggingIn
    <3>4. CASE serving = "authorize"
      <4>1. <<1, "node">> \notin theirs.asked /\ i # 1
        BY <1>1, <1>5, <2>2, <3>1, <3>4 DEF LoggingIn
      <4>2. Count(theirs'.unread, AnswersTo(1)) = 0
        BY <1>1, <1>9, <2>2, <3>4, <4>1 DEF LoggingIn, One
      <4> QED BY <1>1, <1>4, <1>11, <2>2, <3>2, <3>4, <4>1, <4>2 DEF LoggingIn
    <3> QED BY <1>3, <2>2, <3>3, <3>4 DEF Login
  <2> QED BY <2>1, <2>2
<1>16. Counted'
  <2>1. ASSUME NEW j \in SessionIds
        PROVE  MayBeTold(j)' = MayBeTold(j)
    <3>1. told[j] \in Nat /\ LinesOf(j) \in Nat
      BY <1>1, Numbers DEF SessionShape, RunShape
    <3>2. LinesOf(j)' = LinesOf(j) /\ Configures(j)' = Configures(j)
      BY <1>11 DEF LinesOf, Configures
    <3> HIDE DEF Done
    <3>3. One(<<j, "miner">> \in theirs'.asked) + One(<<j, "node">> \in theirs'.asked) + OnTheWay(j)'
             = One(<<j, "miner">> \in theirs.asked) + One(<<j, "node">> \in theirs.asked) + OnTheWay(j)
      BY <1>9, <1>10 DEF One
    <3> QED BY <1>3, <1>11, <3>1, <3>2, <3>3 DEF MayBeTold
  <2> QED BY <1>1, <1>11, <2>1 DEF Counted
<1>17. Delivered'
  <2> SUFFICES ASSUME NEW j \in answers'
               PROVE  \/ told[j] > 0 \/ up \in {"send", "done"}
                      \/ Count(theirs'.unread, AnswersTo(j)) > 0
                      \/ Count(emitted, ResultsOf(j)) > 0 \/ Count(msgCh, ResultsOf(j)) > 0
    BY <1>11 DEF Delivered
  <2>1. CASE j = i
    BY <1>9, <2>1 DEF One
  <2>2. CASE j # i
    BY <1>1, <1>3, <1>7, <1>9, <2>2 DEF Delivered, One
  <2> QED BY <2>1, <2>2
<1>18. Extranonce'
  <2>1. ASSUME NEW n, Leads(n)
        PROVE  Leads(n)'
    <3>1. PICK k \in Nonces : MessagesLead(emitted, n, k) /\ LinesLead(theirs.unread, 0, k, theirs.nonce)
      BY <2>1 DEF Leads
    <3>2. 0 \in Nat /\ 0 <= Len(theirs.unread)
      BY <1>1, Fields, LenProperties
    <3>3. LinesLead(theirs'.unread, 0, k, theirs'.nonce)
      BY <1>1, <1>4, <1>6, <3>1, <3>2, Fields, LinesAppend
    <3> QED BY <1>11, <3>1, <3>3 DEF Leads
  <2>2. ASSUME serving = "subscribe", ~early, NEW k \in Where(theirs'.unread, AnswersTo(1))
        PROVE  LinesLead(theirs'.unread, k, theirs'.unread[k].result, theirs'.nonce)
    <3>1. /\ Len(theirs.unread) \in Nat /\ DOMAIN theirs.unread = 1..Len(theirs.unread)
          /\ DOMAIN theirs'.unread = 1..(Len(theirs.unread) + 1)
          /\ theirs'.unread[Len(theirs.unread) + 1] = l
          /\ \A j \in 1..Len(theirs.unread) : theirs'.unread[j] = theirs.unread[j]
      BY <1>1, <1>4, <1>6, Fields, LenProperties, AppendProperties
    <3>2. k \in 1..(Len(theirs.unread) + 1) /\ theirs'.unread[k] \in AnswersTo(1)
      BY <3>1 DEF Where
    <3>3. CASE k = Len(theirs.unread) + 1
      <4>1. \A j \in DOMAIN theirs'.unread : ~(j > k)
        BY <3>1, <3>3
      <4> QED BY <1>4, <1>6, <3>1, <3>3, <4>1 DEF LinesLead
    <3>4. CASE k # Len(theirs.unread) + 1
      <4>1. k \in Where(theirs.unread, AnswersTo(1)) /\ k \in Nat /\ k <= Len(theirs.unread)
            /\ theirs'.unread[k] = theirs.unread[k]
        BY <3>1, <3>2, <3>4 DEF Where
      <4>2. LinesLead(theirs.unread, k, theirs.unread[k].result, theirs.nonce)
        BY <1>1, <2>2, <4>1 DEF Extranonce
      <4> QED BY <1>1, <1>4, <1>6, <4>1, <4>2, Fields, LinesAppend
    <3> QED BY <3>3, <3>4
  <2> QED BY <1>1, <1>11, <2>1, <2>2 DEF Extranonce
<1> QED
  BY <1>8, <1>13, <1>14, <1>15, <1>16, <1>17, <1>18 DEF SessionInv

LEMMA PushesSafe ==
  ASSUME SessionInv, NEW l \in PoolLines, NEW n \in Nonces \ {0}, Pushes(l, n),
         n <= theirs.pushed + 2, \A i : l \notin AnswersTo(i),
         IF ResetsLine(l) THEN l.params[1] = n ELSE n = theirs.nonce
  PROVE  SessionInv'
<1>1. SessionShape /\ Stages /\ Lined /\ LoggingIn /\ Counted /\ Delivered /\ Extranonce
  BY DEF SessionInv
<1>2. UNCHANGED <<runVars, poolConnVars, miner, told, nonce, answers, early>>
  BY DEF Pushes, poolUnchanged
<1>3. /\ theirs.pushed < MaxPushes
      /\ theirs' = [theirs EXCEPT !.pushed = @ + 1, !.unread = Append(@, l), !.nonce = n]
  BY DEF Pushes
<1>4. /\ theirs'.asked = theirs.asked /\ theirs'.unread = Append(theirs.unread, l)
      /\ theirs'.nonce = n
  BY <1>1, <1>3 DEF SessionShape, PoolShape
<1>5. SessionShape'
  <2>1. PoolShape'
    <3>1. MaxPushes \in Nat /\ Append(theirs.unread, l) \in Seq(PoolLines)
      BY <1>1, Fields, AppendProperties
    <3>2. /\ theirs.pushed \in 0..MaxPushes /\ theirs.pushed + 1 \in 0..MaxPushes /\ n \in Nat
          /\ theirs'.pushed = theirs.pushed + 1
      BY <1>1, <1>3, <3>1 DEF SessionShape, PoolShape, Nonces
    <3>3. theirs'.nonce <= theirs'.pushed + 1
      BY <1>4, <3>2
    <3> QED BY <1>1, <1>3, <3>1, <3>2, <3>3 DEF SessionShape, PoolShape
  <2> QED BY <1>1, <1>2, <2>1 DEF SessionShape, MinerShape, AskingShape, QueueShape, RunShape,
                                  runVars, poolConnVars
<1>6. \A i : Count(theirs'.unread, AnswersTo(i)) = Count(theirs.unread, AnswersTo(i))
  <2> SUFFICES ASSUME NEW i
               PROVE  Count(theirs'.unread, AnswersTo(i)) = Count(theirs.unread, AnswersTo(i))
    OBVIOUS
  <2>1. /\ Count(theirs'.unread, AnswersTo(i)) = Count(theirs.unread, AnswersTo(i)) + One(l \in AnswersTo(i))
        /\ Count(theirs.unread, AnswersTo(i)) \in Nat
    BY <1>1, <1>4, Fields, Numbers, CountAppend
  <2> QED BY <2>1 DEF One
<1>7. /\ Login' = Login /\ Done' = Done /\ lastRequestId' = lastRequestId /\ told' = told
      /\ miner' = miner /\ asking' = asking /\ serving' = serving /\ emitted' = emitted
      /\ msgCh' = msgCh /\ up' = up /\ down' = down /\ model' = model /\ isReading' = isReading
      /\ extraNonceMsg' = extraNonceMsg /\ nonce' = nonce /\ early' = early /\ answers' = answers
      /\ serving \notin {"peek", "dial"}
  BY <1>2 DEF Login, Done, runVars, poolConnVars, Pushes, PoolIsConnected
<1>8. /\ \A i : OnTheWay(i)' = OnTheWay(i) /\ LinesOf(i)' = LinesOf(i) /\ Configures(i)' = Configures(i)
  BY <1>6, <1>7 DEF OnTheWay, LinesOf, Configures
<1>9. Stages' /\ Lined' /\ Counted' /\ Delivered'
  <2>1. \A i : MayBeTold(i)' = MayBeTold(i)
    <3> HIDE DEF Done
    <3> QED BY <1>4, <1>7, <1>8 DEF MayBeTold
  <2> QED BY <1>1, <1>4, <1>6, <1>7, <1>8, <2>1 DEF Stages, Lined, Counted, Delivered
<1>10. LoggingIn'
  BY <1>1, <1>4, <1>6, <1>7, <1>8 DEF LoggingIn
<1>11. ASSUME NEW a \in Nat, a <= Len(theirs.unread), NEW k, LinesLead(theirs.unread, a, k, theirs.nonce)
       PROVE  LinesLead(theirs'.unread, a, k, theirs'.nonce)
  BY <1>1, <1>4, <1>11, Fields, LinesAppend
<1>12. Len(theirs.unread) \in Nat
  BY <1>1, Fields, LenProperties
<1>13. Extranonce'
  <2>1. ASSUME NEW k, Leads(k)
        PROVE  Leads(k)'
    <3>1. PICK to \in Nonces : MessagesLead(emitted, k, to) /\ LinesLead(theirs.unread, 0, to, theirs.nonce)
      BY <2>1 DEF Leads
    <3>2. LinesLead(theirs'.unread, 0, to, theirs'.nonce)
      BY <1>11, <1>12, <3>1
    <3> QED BY <1>7, <3>1, <3>2 DEF Leads
  <2>2. ASSUME serving = "subscribe", ~early, NEW k \in Where(theirs'.unread, AnswersTo(1))
        PROVE  LinesLead(theirs'.unread, k, theirs'.unread[k].result, theirs'.nonce)
    <3>1. /\ DOMAIN theirs.unread = 1..Len(theirs.unread)
          /\ DOMAIN theirs'.unread = 1..(Len(theirs.unread) + 1)
          /\ theirs'.unread[Len(theirs.unread) + 1] = l
          /\ \A j \in 1..Len(theirs.unread) : theirs'.unread[j] = theirs.unread[j]
      BY <1>1, <1>4, Fields, LenProperties, AppendProperties
    <3>2. k \in 1..(Len(theirs.unread) + 1) /\ theirs'.unread[k] \in AnswersTo(1)
      BY <3>1 DEF Where
    <3>3. k \in Where(theirs.unread, AnswersTo(1)) /\ k \in Nat /\ k <= Len(theirs.unread)
          /\ theirs'.unread[k] = theirs.unread[k]
      BY <1>12, <3>1, <3>2 DEF Where
    <3>4. LinesLead(theirs.unread, k, theirs.unread[k].result, theirs.nonce)
      BY <1>1, <2>2, <3>3 DEF Extranonce
    <3> QED BY <1>11, <3>3, <3>4
  <2> QED BY <1>1, <1>7, <2>1, <2>2 DEF Extranonce
<1> QED
  BY <1>5, <1>9, <1>10, <1>13 DEF SessionInv

LEMMA PoolSays ==
  ASSUME SessionInv,
         \/ \E cleanJobs \in BOOLEAN : PoolNotifies(cleanJobs)
         \/ PoolSetsExtranonce \/ PoolShowsMessage
  PROVE  SessionInv'
<1>1. /\ theirs.nonce \in Nonces \ {0} /\ theirs.nonce <= theirs.pushed + 1 /\ MaxPushes \in Nat
      /\ theirs.pushed \in 0..MaxPushes
  BY Fields DEF SessionInv, SessionShape, PoolShape
<1>2. theirs.nonce \in Nat /\ theirs.nonce <= theirs.pushed + 2
  BY <1>1 DEF Nonces
<1>3. ASSUME NEW b \in BOOLEAN, PoolNotifies(b)
      PROVE  SessionInv'
  <2>1. PICK l \in PoolLines : l = PoolNotify(b)
    BY DEF PoolLines
  <2>2. l.method = "mining.notify"
    BY <2>1 DEF PoolNotify, Request, Line
  <2>3. Pushes(l, theirs.nonce)
    BY <1>3, <2>1 DEF PoolNotifies, PoolNotify
  <2> QED BY <1>1, <1>2, <2>2, <2>3, PushesSafe DEF AnswersTo, ResetsLine
<1>4. ASSUME PoolSetsExtranonce
      PROVE  SessionInv'
  <2>1. PICK n \in Nonces \ {0} : n = theirs.nonce + 1 /\ n <= theirs.pushed + 2
    BY <1>1, <1>4 DEF PoolSetsExtranonce, Pushes, Nonces
  <2>2. PICK l \in PoolLines : l = PoolExtranonce(n)
    BY <2>1 DEF PoolLines
  <2>3. l.method = "mining.set_extranonce" /\ l.params = <<n, "float64">>
    BY <2>2 DEF PoolExtranonce, Request, Line
  <2>4. Pushes(l, n)
    BY <1>4, <2>1, <2>2 DEF PoolSetsExtranonce, PoolExtranonce
  <2>5. ResetsLine(l) /\ l.params[1] = n /\ \A i : l \notin AnswersTo(i)
    <3>1. l.params[1] = n
      BY <2>3
    <3>2. \A i : l \notin AnswersTo(i)
      BY <2>3 DEF AnswersTo
    <3> QED BY <2>3, <3>1, <3>2 DEF ResetsLine
  <2> QED BY <2>1, <2>4, <2>5, PushesSafe
<1>5. ASSUME PoolShowsMessage
      PROVE  SessionInv'
  <2>1. PICK l \in PoolLines : l = PoolUnknown
    BY DEF PoolLines
  <2>2. l.method = "client.show_message"
    BY <2>1 DEF PoolUnknown, Request, Line
  <2>3. Pushes(l, theirs.nonce)
    BY <1>5, <2>1 DEF PoolShowsMessage, PoolUnknown
  <2> QED BY <1>1, <1>2, <2>2, <2>3, PushesSafe DEF AnswersTo, ResetsLine
<1> QED
  BY <1>3, <1>4, <1>5

LEMMA PoolLeavesSafe ==
  ASSUME SessionInv, PoolLeaves
  PROVE  SessionInv'
<1>1. SessionShape /\ Stages /\ Lined /\ LoggingIn /\ Counted /\ Delivered /\ Extranonce
  BY DEF SessionInv
<1>2. /\ UNCHANGED <<runVars, poolConnVars, miner, told, nonce, answers, early>>
      /\ theirs'.asked = theirs.asked /\ theirs'.unread = theirs.unread /\ theirs'.nonce = theirs.nonce
  BY <1>1 DEF PoolLeaves, poolUnchanged, SessionShape, PoolShape
<1>3. PoolShape'
  BY <1>1 DEF PoolLeaves, SessionShape, PoolShape
<1>4. SessionShape'
  BY <1>1, <1>2, <1>3 DEF SessionShape, MinerShape, AskingShape, QueueShape, RunShape, runVars,
                          poolConnVars
<1>5. Stages' /\ Lined' /\ LoggingIn' /\ Counted' /\ Delivered' /\ Extranonce'
  BY <1>1, <1>2 DEF Stages, Lined, LoggingIn, Counted, Delivered, Extranonce, Login, LinesOf,
              OnTheWay, MayBeTold, Configures, Leads, Done, runVars, poolConnVars
<1> QED
  BY <1>4, <1>5 DEF SessionInv

(* The handler.                                                             *)

\* A request of the connection's own.
LEMMA Asks ==
  ASSUME SessionShape, NEW original \in SessionIds, SendPoolRequest(original),
         lastRequestId + 1 \in SessionIds
  PROVE  /\ PoolShape' /\ AskingShape' /\ lastRequestId' = lastRequestId + 1
         /\ theirs'.asked = theirs.asked \cup {<<lastRequestId + 1, "node">>}
         /\ theirs'.unread = theirs.unread /\ theirs'.nonce = theirs.nonce
         /\ theirs'.users = theirs.users
         /\ asking'.id = lastRequestId + 1 /\ asking'.for = original /\ asking'.st = "written"
<1> DEFINE id == lastRequestId + 1
<1>1. theirs' = [theirs EXCEPT !.asked = @ \cup {<<id, "node">>}] /\ lastRequestId' = id
  BY DEF SendPoolRequest
<1>2. asking' = [id |-> id, for |-> original, st |-> "written", result |-> 0]
  BY DEF SendPoolRequest, NotAsking, NoID, NoField
<1>3. <<id, "node">> \in SessionIds \X {"node", "miner"} /\ 0 \in Nonces
  BY SessionAssumption DEF Nonces
<1> HIDE DEF id
<1>4. PoolShape'
  BY <1>1, <1>3 DEF SessionShape, PoolShape
<1>5. AskingShape'
  <2>1. id \in SessionIds
    BY DEF id
  <2> QED BY <1>2, <1>3, <2>1 DEF AskingShape
<1> QED
  BY <1>1, <1>2, <1>4, <1>5 DEF SessionShape, PoolShape, id

LEMMA PeekSafe ==
  ASSUME SessionInv, Peek
  PROVE  SessionInv'
<1>1. SessionShape /\ Stages /\ Lined /\ LoggingIn /\ Counted /\ Delivered /\ Extranonce
  BY DEF SessionInv
<1>2. /\ serving = "peek" /\ serving' = "dial" /\ listed' = ("dial" \in {"select", "changing"})
      /\ UNCHANGED <<up, down, miner, told, nonce, answers, early, msgCh, emitted, isReading,
                     resHandlers, extraNonceMsg, notifyMsgs, asking, theirs, lastRequestId, model>>
  BY DEF Peek, At, Serves, runUnchanged, connUnchanged, asksUnchanged
<1>3. SessionShape'
  BY <1>1, <1>2 DEF SessionShape, MinerShape, PoolShape, AskingShape, QueueShape, RunShape
<1>4. Stages' /\ Lined' /\ LoggingIn' /\ Counted' /\ Delivered' /\ Extranonce'
  BY <1>1, <1>2 DEF Stages, Lined, LoggingIn, Counted, Delivered, Extranonce, Login, LinesOf,
              OnTheWay, Leads
<1> QED
  BY <1>3, <1>4 DEF SessionInv

\* A login that fails: nothing has reached the miner, and nothing will.
LEMMA ClosesSafe ==
  ASSUME SessionInv, Login, Closes
  PROVE  SessionInv'
<1>1. SessionShape /\ Stages /\ Lined /\ LoggingIn /\ Counted /\ Delivered /\ Extranonce
  BY DEF SessionInv
<1>2. /\ serving' = "done" /\ listed' = ("done" \in {"select", "changing"}) /\ asking' = NotAsking
      /\ UNCHANGED <<up, down, miner, told, nonce, answers, early, msgCh, emitted, isReading,
                     resHandlers, extraNonceMsg, notifyMsgs, theirs, lastRequestId, model>>
  BY DEF Closes, Serves, runUnchanged, connUnchanged
<1>3. AskingShape' /\ asking'.st = "none"
  BY <1>1, <1>2, SessionAssumption DEF AskingShape, NotAsking, NoID, NoField, SessionIds, Nonces
<1>4. SessionShape'
  BY <1>1, <1>2, <1>3 DEF SessionShape, MinerShape, PoolShape, QueueShape, RunShape
<1>5. model = "off" /\ up = "off" /\ down = "off"
  BY <1>1 DEF Stages, SessionShape, RunShape
<1>6. Stages' /\ LoggingIn' /\ Delivered' /\ Extranonce'
  BY <1>1, <1>2, <1>3, <1>5 DEF Stages, LoggingIn, Delivered, Extranonce, Login, OnTheWay, Leads
<1>7. lastRequestId <= 2 /\ lastRequestId \in Nat
  BY <1>1, SessionAssumption DEF LoggingIn, Login, SessionShape, RunShape, SessionIds
<1>8. Lined'
  <2>1. Len(miner.unread) \in Nat /\ miner.sent \in Nat
    BY <1>1, Fields, LenProperties
  <2> QED BY <1>1, <1>2, <1>7, <2>1 DEF Lined, LinesOf
<1>9. Counted'
  <2>1. ASSUME NEW i \in SessionIds
        PROVE  MayBeTold(i)' = LinesOf(i)
    <3>1. told[i] = 0 /\ LinesOf(i) \in Nat
      BY <1>1, Numbers DEF LoggingIn
    <3>2. ~Configures(i)' /\ Done' /\ LinesOf(i)' = LinesOf(i)
      BY <1>2, <1>3 DEF Configures, Done, LinesOf
    <3> HIDE DEF Done
    <3> QED BY <1>2, <3>1, <3>2 DEF MayBeTold, One
  <2>2. \A i \in SessionIds : LinesOf(i) \in Nat /\ LinesOf(i) <= One(i \in miner.asked)
    BY <1>1, Numbers DEF Lined
  <2> QED BY <1>2, <2>1, <2>2 DEF Counted, One
<1> QED
  BY <1>4, <1>6, <1>8, <1>9 DEF SessionInv

LEMMA DialDefaultSafe ==
  ASSUME SessionInv, DialDefault
  PROVE  SessionInv'
<1>1. SessionShape /\ Stages /\ Lined /\ LoggingIn /\ Counted /\ Delivered /\ Extranonce
  BY DEF SessionInv
<1>2. /\ serving = "dial" /\ serving' = "subscribe" /\ listed' = ("subscribe" \in {"select", "changing"})
      /\ SendPoolRequest(NoID)
      /\ UNCHANGED <<up, down, miner, told, nonce, answers, early, msgCh, emitted, isReading,
                     resHandlers, extraNonceMsg, notifyMsgs, model>>
  BY DEF DialDefault, At, Serves, runUnchanged, connUnchanged
<1>3. /\ lastRequestId = 0 /\ theirs.asked = {} /\ theirs.unread = <<>> /\ emitted = <<>>
      /\ msgCh = <<>> /\ ~isReading /\ told = [i \in SessionIds |-> 0]
  BY <1>1, <1>2 DEF LoggingIn, Login
<1>4. NoID \in SessionIds /\ lastRequestId + 1 \in SessionIds /\ lastRequestId + 1 = 1
  BY <1>3, SessionAssumption DEF NoID, SessionIds
<1>5. /\ PoolShape' /\ AskingShape' /\ lastRequestId' = 1
      /\ theirs'.asked = {<<1, "node">>} /\ theirs'.unread = <<>> /\ theirs'.nonce = theirs.nonce
      /\ asking'.id = 1 /\ asking'.st = "written"
  BY <1>1, <1>2, <1>3, <1>4, Asks
<1>6. SessionShape'
  BY <1>1, <1>2, <1>4, <1>5 DEF SessionShape, MinerShape, QueueShape, RunShape
<1>7. Stages' /\ Counted' /\ Delivered'
  BY <1>1, <1>2, <1>3, <1>5 DEF Stages, Counted, Delivered, Login
<1>8. Lined'
  BY <1>1, <1>2 DEF Lined, LinesOf, Login
<1>9. \A X : Count(theirs'.unread, X) = 0 /\ Count(emitted', X) = 0 /\ Count(msgCh', X) = 0
  BY <1>2, <1>3, <1>5, CountEmpty
<1>10. \A i \in SessionIds : One(<<i, "node">> \in theirs'.asked) + OnTheWay(i)' <= One(i \in 1..1)
  BY <1>5, <1>9 DEF OnTheWay, One
<1>11. LoggingIn'
  BY <1>2, <1>3, <1>5, <1>10 DEF LoggingIn, Login
<1>12. Extranonce'
  <2>1. Where(theirs'.unread, AnswersTo(1)) = {}
    BY <1>5 DEF Where
  <2> QED BY <1>1, <1>2, <1>5, <2>1 DEF Extranonce, Stages, Login
<1> QED
  BY <1>6, <1>7, <1>8, <1>11, <1>12 DEF SessionInv

LEMMA SubscribedSafe ==
  ASSUME SessionInv, Subscribed
  PROVE  SessionInv'
<1>1. SessionShape /\ Stages /\ Lined /\ LoggingIn /\ Counted /\ Delivered /\ Extranonce
  BY DEF SessionInv
<1>2. /\ serving = "subscribe" /\ asking.st = "true" /\ extraNonceMsg' = asking.result
      /\ serving' = "authorize" /\ listed' = ("authorize" \in {"select", "changing"})
      /\ SendPoolRequest(NoID)
      /\ UNCHANGED <<up, down, miner, told, nonce, answers, early, msgCh, emitted, isReading,
                     resHandlers, notifyMsgs, model>>
  BY DEF Subscribed, At, Serves, runUnchanged
<1>3. /\ lastRequestId = 1 /\ msgCh = <<>> /\ ~isReading /\ told = [i \in SessionIds |-> 0]
      /\ <<1, "node">> \notin theirs.asked /\ Count(theirs.unread, AnswersTo(1)) = 0
      /\ \A i \in SessionIds : One(<<i, "node">> \in theirs.asked) + OnTheWay(i) <= One(i \in 1..1)
  BY <1>1, <1>2 DEF LoggingIn, Login
<1>4. NoID \in SessionIds /\ lastRequestId + 1 \in SessionIds /\ lastRequestId + 1 = 2
  BY <1>3, SessionAssumption DEF NoID, SessionIds
<1>5. /\ PoolShape' /\ AskingShape' /\ lastRequestId' = 2
      /\ theirs'.asked = theirs.asked \cup {<<2, "node">>} /\ theirs'.unread = theirs.unread
      /\ theirs'.nonce = theirs.nonce
      /\ asking'.id = 2 /\ asking'.st = "written"
  BY <1>1, <1>2, <1>4, Asks
<1>6. SessionShape'
  BY <1>1, <1>2, <1>4, <1>5, Fields DEF SessionShape, MinerShape, QueueShape, RunShape
<1>7. Stages' /\ Counted' /\ Delivered'
  BY <1>1, <1>2, <1>3, <1>5 DEF Stages, Counted, Delivered, Login
<1>8. Lined'
  BY <1>1, <1>2 DEF Lined, LinesOf, Login
<1>9. ASSUME NEW i \in SessionIds
      PROVE  One(<<i, "node">> \in theirs'.asked) + OnTheWay(i)' <= One(i \in 1..2)
  <2>1. OnTheWay(i)' = OnTheWay(i) /\ OnTheWay(i) \in Nat
    BY <1>1, <1>2, <1>5, Numbers DEF OnTheWay
  <2>2. One(<<i, "node">> \in theirs.asked) + OnTheWay(i) <= One(i \in 1..1)
    BY <1>3
  <2>3. CASE i = 2
    BY <2>1, <2>2, <2>3 DEF One
  <2>4. CASE i # 2
    <3>1. (<<i, "node">> \in theirs'.asked) = (<<i, "node">> \in theirs.asked)
      BY <1>5, <2>4
    <3> QED BY <2>1, <2>2, <3>1 DEF One
  <2> QED BY <2>3, <2>4
<1>10. LoggingIn'
  BY <1>2, <1>3, <1>5, <1>9 DEF LoggingIn, Login
<1>11. Extranonce'
  <2>1. PICK n \in Nonces : n = asking.result
    BY <1>1, Fields
  <2>2. ~early => Leads(n)
    BY <1>1, <1>2, <2>1 DEF Extranonce
  <2>3. ~early => Leads(n)'
    BY <1>2, <1>5, <2>2 DEF Leads
  <2>4. extraNonceMsg' = n /\ up' = "off" /\ serving' # "subscribe" /\ early' = early
    BY <1>1, <1>2, <2>1 DEF Stages, Login
  <2> QED BY <2>3, <2>4 DEF Extranonce
<1> QED
  BY <1>6, <1>7, <1>8, <1>10, <1>11 DEF SessionInv

LEMMA AuthorizedSafe ==
  ASSUME SessionInv, Authorized
  PROVE  SessionInv'
<1>1. SessionShape /\ Stages /\ Lined /\ LoggingIn /\ Counted /\ Delivered /\ Extranonce
  BY DEF SessionInv
<1>2. /\ serving = "authorize" /\ asking.st = "true" /\ asking' = NotAsking
      /\ serving' = "hold" /\ listed' = ("hold" \in {"select", "changing"}) /\ isReading' = TRUE
      /\ UNCHANGED <<up, down, miner, told, nonce, answers, early, msgCh, emitted,
                     resHandlers, extraNonceMsg, notifyMsgs, theirs, lastRequestId, model>>
  BY DEF Authorized, At, Serves, runUnchanged
<1>3. AskingShape' /\ asking'.st = "none"
  BY <1>1, <1>2, SessionAssumption DEF AskingShape, NotAsking, NoID, NoField, SessionIds, Nonces
<1>4. SessionShape'
  BY <1>1, <1>2, <1>3 DEF SessionShape, MinerShape, PoolShape, QueueShape, RunShape
<1>5. model = "off" /\ up = "off" /\ down = "off"
  BY <1>1, <1>2 DEF Stages, SessionShape, RunShape, Login
<1>6. /\ lastRequestId = 2 /\ msgCh = <<>> /\ told = [i \in SessionIds |-> 0]
      /\ <<1, "node">> \notin theirs.asked /\ Count(theirs.unread, AnswersTo(1)) = 0
      /\ Count(emitted, ResultsOf(1)) = 0
      /\ \A i \in SessionIds : One(<<i, "node">> \in theirs.asked) + OnTheWay(i) <= One(i \in 1..2)
  BY <1>1, <1>2 DEF LoggingIn, Login
<1>7. Stages' /\ LoggingIn' /\ Delivered' /\ Extranonce'
  BY <1>1, <1>2, <1>3, <1>5, <1>6 DEF Stages, LoggingIn, Delivered, Extranonce, Login, Leads
<1>8. Lined'
  <2>1. Len(miner.unread) \in Nat /\ miner.sent \in Nat
    BY <1>1, Fields, LenProperties
  <2> QED BY <1>1, <1>2, <1>6, <2>1 DEF Lined, LinesOf
<1>9. Counted'
  <2> SUFFICES ASSUME NEW i \in SessionIds
               PROVE  MayBeTold(i)' <= One(i \in miner.asked) + One(i \in 2..2)
    BY <1>2, <1>6 DEF Counted
  <2>1. LinesOf(i) \in Nat /\ OnTheWay(i) \in Nat /\ LinesOf(i) <= One(i \in miner.asked)
    BY <1>1, Numbers DEF Lined
  <2>2. <<i, "miner">> \notin theirs.asked
    BY <1>1, <1>5 DEF Stages
  <2>3. MayBeTold(i)' = LinesOf(i) + One(<<i, "node">> \in theirs.asked) + OnTheWay(i)
    <3>1. LinesOf(i)' = LinesOf(i) /\ OnTheWay(i)' = OnTheWay(i) /\ ~Configures(i)' /\ ~Done'
      BY <1>2, <1>3 DEF LinesOf, OnTheWay, Configures, Done
    <3>2. told'[i] = 0
      BY <1>2, <1>6
    <3>3. theirs' = theirs
      BY <1>2
    <3> HIDE DEF Done
    <3> QED BY <2>1, <2>2, <3>1, <3>2, <3>3 DEF MayBeTold, One
  <2>4. One(<<i, "node">> \in theirs.asked) + OnTheWay(i) <= One(i \in 2..2)
    <3>1. CASE i = 1
      <4>1. Count(msgCh, ResultsOf(1)) = 0
        BY <1>6, CountEmpty
      <4>2. OnTheWay(i) = 0
        BY <1>6, <3>1, <4>1 DEF OnTheWay
      <4> QED BY <1>6, <3>1, <4>2 DEF One
    <3>2. CASE i # 1
      <4>1. (i \in 1..2) = (i \in 2..2)
        BY <3>2
      <4> QED BY <1>6, <4>1
    <3> QED BY <3>1, <3>2
  <2> QED BY <2>1, <2>3, <2>4 DEF One
<1> QED
  BY <1>4, <1>7, <1>8, <1>9 DEF SessionInv

LEMMA HoldSafe ==
  ASSUME SessionInv, Hold
  PROVE  SessionInv'
<1>1. SessionShape /\ Stages /\ Lined /\ LoggingIn /\ Counted /\ Delivered /\ Extranonce
  BY DEF SessionInv
<1>2. /\ serving = "hold" /\ serving' = "resend" /\ listed' = ("resend" \in {"select", "changing"})
      /\ isReading' = FALSE
      /\ UNCHANGED <<up, down, miner, told, nonce, answers, early, msgCh, emitted, asking,
                     resHandlers, extraNonceMsg, notifyMsgs, theirs, lastRequestId, model>>
  BY DEF Hold, At, Serves, runUnchanged, asksUnchanged
<1>3. SessionShape'
  BY <1>1, <1>2 DEF SessionShape, MinerShape, PoolShape, AskingShape, QueueShape, RunShape
<1>4. Stages' /\ Lined' /\ LoggingIn' /\ Delivered' /\ Extranonce'
  BY <1>1, <1>2 DEF Stages, Lined, LoggingIn, Delivered, Extranonce, Login, LinesOf, Leads
<1>5. Counted'
  BY <1>1, <1>2 DEF Counted, Login, MayBeTold, LinesOf, OnTheWay, Configures, Done
<1> QED
  BY <1>3, <1>4, <1>5 DEF SessionInv

LEMMA StartSessionSafe ==
  ASSUME SessionInv, StartSession
  PROVE  SessionInv'
<1>1. SessionShape /\ Stages /\ Lined /\ LoggingIn /\ Counted /\ Delivered /\ Extranonce
  BY DEF SessionInv
<1>2. /\ serving = "resend" /\ serving' = "select" /\ listed' = ("select" \in {"select", "changing"})
      /\ msgCh' = Resent /\ isReading' = TRUE /\ model' = "connect"
      /\ UNCHANGED <<up, down, miner, told, nonce, theirs, answers, early, emitted, asking,
                     resHandlers, extraNonceMsg, notifyMsgs, lastRequestId>>
  BY DEF StartSession, At, Serves, asksUnchanged, peerVars
<1>3. /\ Resent \in Seq(PoolMessages)
      /\ \A i : Count(Resent, ResultsOf(i)) = Count(msgCh, ResultsOf(i))
  BY <1>1, ResentFacts DEF SessionShape, QueueShape, RunShape
<1> DEFINE r == Resent
<1> HIDE DEF r
<1>4. msgCh' = r /\ r \in Seq(PoolMessages) /\ \A i : Count(r, ResultsOf(i)) = Count(msgCh, ResultsOf(i))
  BY <1>2, <1>3 DEF r
<1>5. SessionShape'
  BY <1>1, <1>2, <1>4 DEF SessionShape, MinerShape, PoolShape, AskingShape, QueueShape, RunShape
<1>6. asking.st = "none" /\ model = "off" /\ up = "off" /\ lastRequestId >= 2
  BY <1>1, <1>2 DEF Stages
<1>7. Stages' /\ Lined' /\ LoggingIn' /\ Extranonce'
  BY <1>1, <1>2, <1>6 DEF Stages, Lined, LoggingIn, Extranonce, Login, LinesOf, Leads
<1>8. Delivered'
  BY <1>1, <1>2, <1>4 DEF Delivered
<1>9. Counted'
  <2>1. \A i : OnTheWay(i)' = OnTheWay(i) /\ LinesOf(i)' = LinesOf(i) /\ Configures(i)' = Configures(i)
               /\ Done' = Done
    BY <1>2, <1>4, <1>6 DEF OnTheWay, LinesOf, Configures, Done
  <2>2. \A i : MayBeTold(i)' = MayBeTold(i)
    <3> HIDE DEF Done
    <3> QED BY <1>2, <2>1 DEF MayBeTold
  <2> QED BY <1>1, <1>2, <2>2 DEF Counted, Login
<1> QED
  BY <1>5, <1>7, <1>8, <1>9 DEF SessionInv

\* The scheduler, while the miner's model runs and after it.
LEMMA ServesSafe ==
  ASSUME SessionInv, ChangesDest \/ DestChanged \/ ChangeDestFails \/ ContextDone \/ TakeError
  PROVE  SessionInv'
<1>1. SessionShape /\ Stages /\ Lined /\ LoggingIn /\ Counted /\ Delivered /\ Extranonce
  BY DEF SessionInv
<1>2. PICK s \in {"select", "changing", "done"} :
        /\ serving \in {"select", "changing"} /\ serving' = s /\ listed' = (s \in {"select", "changing"})
        /\ UNCHANGED <<miner, told, nonce, answers, early, msgCh, emitted, isReading, resHandlers,
                       extraNonceMsg, notifyMsgs, asking, theirs, lastRequestId>>
        /\ \/ UNCHANGED <<model, up, down>>
           \/ model = "send" /\ model' = "done" /\ UNCHANGED <<up, down>>
           \/ up = "send" /\ up' = "done" /\ UNCHANGED <<model, down>>
           \/ down = "send" /\ down' = "done" /\ UNCHANGED <<model, up>>
  <2>1. CASE ChangesDest
    BY <2>1 DEF ChangesDest, At, Serves, runUnchanged, connUnchanged, asksUnchanged
  <2>2. CASE DestChanged
    BY <2>2 DEF DestChanged, At, Serves, runUnchanged, connUnchanged, asksUnchanged
  <2>3. CASE ChangeDestFails \/ ContextDone
    BY <2>3 DEF ChangeDestFails, ContextDone, At, SchedulerReturns, Serves, connUnchanged, asksUnchanged
  <2>4. CASE TakeError
    BY <2>4 DEF TakeError, At, SchedulerReturns, Serves, connUnchanged, asksUnchanged
  <2> QED BY <2>1, <2>2, <2>3, <2>4
<1>3. /\ model' \in {"off", "connect", "resend", "send", "done"}
      /\ up' \in {"off", "read", "send", "done"} /\ down' \in {"off", "read", "send", "done"}
      /\ (up' = "off" <=> up = "off") /\ (down' = "off" <=> down = "off")
      /\ model # "off" /\ model' # "off" /\ (up # "off" => model' = "done")
  <2>1. /\ model \in {"off", "connect", "resend", "send", "done"}
        /\ up \in {"off", "read", "send", "done"} /\ down \in {"off", "read", "send", "done"}
    BY <1>1 DEF SessionShape, RunShape
  <2>2. model # "off" /\ (up # "off" => model = "done")
    BY <1>1, <1>2 DEF Stages
  <2> QED BY <1>2, <2>1, <2>2
<1>4. SessionShape'
  <2>1. listed' = (serving' \in {"select", "changing"})
    BY <1>2
  <2> QED BY <1>1, <1>2, <1>3, <2>1 DEF SessionShape, MinerShape, PoolShape, AskingShape, QueueShape,
                                        RunShape
<1>5. Stages' /\ Lined' /\ LoggingIn' /\ Delivered'
  BY <1>1, <1>2, <1>3 DEF Stages, Lined, LoggingIn, Delivered, Login, LinesOf
<1>6. Counted'
  <2> SUFFICES ASSUME NEW i \in SessionIds
               PROVE  MayBeTold(i)' <= One(i \in miner.asked) + One(i \in 2..lastRequestId)
    BY <1>2 DEF Counted
  <2>1. MayBeTold(i) <= One(i \in miner.asked) + One(i \in 2..lastRequestId)
    BY <1>1, <1>2 DEF Counted, Login
  <2>2. /\ OnTheWay(i) \in Nat /\ LinesOf(i) \in Nat /\ told[i] \in Nat
        /\ OnTheWay(i)' = OnTheWay(i) /\ LinesOf(i)' = LinesOf(i) /\ told' = told /\ theirs' = theirs
    BY <1>1, <1>2, Numbers DEF OnTheWay, LinesOf, SessionShape, RunShape
  <2>3. Configures(i)' => Configures(i)
    BY <1>2 DEF Configures
  <2>4. ~Done
    BY <1>2 DEF Done
  <2>5. MayBeTold(i)' <= MayBeTold(i) /\ MayBeTold(i)' \in Nat /\ MayBeTold(i) \in Nat
    <3> HIDE DEF Done
    <3>1. MayBeTold(i) = told[i] + LinesOf(i) + One(Configures(i)) + One(<<i, "miner">> \in theirs.asked)
                         + One(<<i, "node">> \in theirs.asked) + OnTheWay(i)
      BY <2>2, <2>4 DEF MayBeTold, One
    <3>2. MayBeTold(i)' = told[i] + LinesOf(i) + One(Configures(i)')
                          + (IF Done' THEN 0 ELSE One(<<i, "miner">> \in theirs.asked)
                                + One(<<i, "node">> \in theirs.asked) + OnTheWay(i))
      BY <2>2 DEF MayBeTold
    <3> QED BY <2>2, <2>3, <3>1, <3>2 DEF One
  <2> QED BY <2>1, <2>5 DEF One
<1>7. Extranonce'
  BY <1>1, <1>2, <1>3 DEF Extranonce, Leads
<1> QED
  BY <1>4, <1>5, <1>6, <1>7 DEF SessionInv

(* The reader of the pool's lines.                                          *)

LEMMA ReadPoolSafe ==
  ASSUME SessionInv, ReadPool
  PROVE  SessionInv'
<1>1. SessionShape /\ Stages /\ Lined /\ LoggingIn /\ Counted /\ Delivered /\ Extranonce
  BY DEF SessionInv
<1>2. /\ ~Done /\ emitted = <<>> /\ theirs.unread # <<>> /\ theirs.unread \in Seq(PoolLines)
  BY <1>1, Fields DEF ReadPool
<1>3. PICK l \in PoolLines : l = Head(theirs.unread)
  BY <1>2, HeadTailProperties
<1>4. PICK m : m = ParseMessageFromPool(l)
  OBVIOUS
<1>5. /\ m \in PoolMessages /\ (m.kind = "mining.notify" => m \in Jobs)
      /\ \A i : m \in ResultsOf(i) <=> l \in AnswersTo(i)
      /\ m.kind = "result" => m.id = l.id /\ m.result = l.result
      /\ Resets(m) <=> ResetsLine(l)
      /\ ResetsLine(l) => m.params[1] = l.params[1]
  BY <1>4, PoolLine
<1>6. /\ m.kind = "result" => m.id \in SessionIds /\ m.result \in Nonces /\ ~Resets(m)
      /\ Resets(m) => m.params[1] \in Nonces
      /\ \A i : m \in ResultsOf(i) <=> m.kind = "result" /\ m.id = i
  BY <1>5, PoolMessage
<1>7. /\ emitted' = <<m>> /\ theirs' = [theirs EXCEPT !.unread = Tail(@)]
      /\ notifyMsgs' = IF m.kind # "mining.notify" THEN notifyMsgs
                       ELSE IF m.params[2] THEN <<m>> ELSE Append(notifyMsgs, m)
      /\ resHandlers' = IF Handled(m) THEN resHandlers \ {m.id} ELSE resHandlers
      /\ asking' = IF Handled(m) /\ asking.st = "registered" /\ asking.id = m.id
                   THEN [asking EXCEPT !.st = IF IsError(m) THEN "refused" ELSE "true",
                                       !.result = m.result]
                   ELSE asking
      /\ UNCHANGED <<serving, listed, model, up, down, miner, told, nonce, answers, early,
                     msgCh, isReading, extraNonceMsg, lastRequestId>>
  BY <1>3, <1>4 DEF ReadPool
<1>8. /\ theirs'.unread = Tail(theirs.unread) /\ theirs'.asked = theirs.asked
      /\ theirs'.nonce = theirs.nonce /\ Tail(theirs.unread) \in Seq(PoolLines)
  BY <1>1, <1>2, <1>7, HeadTailProperties DEF SessionShape, PoolShape
<1> DEFINE answered == Handled(m) /\ asking.st = "registered" /\ asking.id = m.id
<1>9. \/ asking' = asking
      \/ /\ answered /\ m.kind = "result" /\ asking'.id = asking.id /\ asking'.for = asking.for
         /\ asking'.st \in {"true", "refused"} /\ asking'.result = m.result /\ m.id = asking.id
  BY <1>1, <1>7 DEF SessionShape, AskingShape, Handled
<1>10. /\ asking'.st = "none" <=> asking.st = "none"
       /\ asking'.id = asking.id /\ asking'.for = asking.for
       /\ asking'.st \in {"true", "refused"} =>
             asking.st \in {"true", "refused"} \/ (m.kind = "result" /\ m.id = asking.id)
  BY <1>9
<1> HIDE DEF answered
<1>11. SessionShape'
  <2>1. AskingShape'
    <3>1. CASE asking' = asking
      BY <1>1, <3>1 DEF SessionShape, AskingShape
    <3>2. CASE asking' # asking
      <4>1. asking' = [asking EXCEPT !.st = IF IsError(m) THEN "refused" ELSE "true", !.result = m.result]
            /\ m.kind = "result"
        BY <1>7, <1>9, <3>2
      <4> QED BY <1>1, <1>6, <4>1 DEF SessionShape, AskingShape
    <3> QED BY <3>1, <3>2
  <2>2. QueueShape'
    <3>1. notifyMsgs' \in Seq(Jobs)
      <4>1. m \in Jobs => <<m>> \in Seq(Jobs) /\ Append(notifyMsgs, m) \in Seq(Jobs)
        BY <1>1, AppendProperties DEF SessionShape, QueueShape
      <4> QED BY <1>1, <1>5, <1>7, <4>1 DEF SessionShape, QueueShape
    <3> QED BY <1>1, <1>5, <1>7, <3>1 DEF SessionShape, QueueShape
  <2>3. PoolShape'
    BY <1>1, <1>7, <1>8 DEF SessionShape, PoolShape
  <2>4. MinerShape' /\ RunShape'
    <3>1. resHandlers' \subseteq SessionIds
      BY <1>1, <1>7 DEF SessionShape, RunShape
    <3> QED BY <1>1, <1>7, <3>1 DEF SessionShape, MinerShape, RunShape
  <2> QED BY <2>1, <2>2, <2>3, <2>4 DEF SessionShape
<1>12. \A i : /\ Count(theirs.unread, AnswersTo(i)) = Count(theirs'.unread, AnswersTo(i)) + One(m \in ResultsOf(i))
              /\ Count(emitted, ResultsOf(i)) = 0 /\ Count(emitted', ResultsOf(i)) = One(m \in ResultsOf(i))
              /\ Count(theirs'.unread, AnswersTo(i)) \in Nat /\ Count(msgCh, ResultsOf(i)) \in Nat
  <2> SUFFICES ASSUME NEW i
        PROVE  /\ Count(theirs.unread, AnswersTo(i)) = Count(theirs'.unread, AnswersTo(i)) + One(m \in ResultsOf(i))
               /\ Count(emitted, ResultsOf(i)) = 0 /\ Count(emitted', ResultsOf(i)) = One(m \in ResultsOf(i))
               /\ Count(theirs'.unread, AnswersTo(i)) \in Nat /\ Count(msgCh, ResultsOf(i)) \in Nat
    OBVIOUS
  <2>1. Count(theirs.unread, AnswersTo(i)) = Count(theirs'.unread, AnswersTo(i)) + One(l \in AnswersTo(i))
    BY <1>2, <1>3, <1>8, CountTail
  <2>2. (l \in AnswersTo(i)) = (m \in ResultsOf(i))
    BY <1>5
  <2>3. Count(emitted, ResultsOf(i)) = 0
    BY <1>2, CountEmpty
  <2>4. Count(emitted', ResultsOf(i)) = One(m \in ResultsOf(i))
    BY <1>7, CountOne
  <2>5. Count(theirs'.unread, AnswersTo(i)) \in Nat /\ Count(msgCh, ResultsOf(i)) \in Nat
    BY <1>1, <1>8, CountType, Numbers
  <2> QED BY <2>1, <2>2, <2>3, <2>4, <2>5
<1>13. \A i : OnTheWay(i)' = OnTheWay(i)
  <2> SUFFICES ASSUME NEW i PROVE OnTheWay(i)' = OnTheWay(i)
    OBVIOUS
  <2>1. Count(msgCh', ResultsOf(i)) = Count(msgCh, ResultsOf(i))
    BY <1>7
  <2> QED BY <1>12, <2>1 DEF OnTheWay, One
<1>14. /\ Login' = Login /\ Done' = Done
       /\ \A i : LinesOf(i)' = LinesOf(i) /\ Configures(i)' = Configures(i)
  BY <1>7, <1>10 DEF Login, Done, LinesOf, Configures
<1>15. Stages' /\ Lined'
  BY <1>1, <1>7, <1>8, <1>10, <1>14 DEF Stages, Lined
<1>16. Counted'
  <2>1. \A i : MayBeTold(i)' = MayBeTold(i)
    <3> HIDE DEF Done
    <3> QED BY <1>7, <1>8, <1>13, <1>14 DEF MayBeTold
  <2> QED BY <1>1, <1>7, <1>14, <2>1 DEF Counted
<1>17. Delivered'
  <2> SUFFICES ASSUME NEW i \in answers'
               PROVE  \/ told[i] > 0 \/ up \in {"send", "done"}
                      \/ Count(theirs'.unread, AnswersTo(i)) > 0
                      \/ Count(emitted', ResultsOf(i)) > 0 \/ Count(msgCh, ResultsOf(i)) > 0
    BY <1>7 DEF Delivered
  <2>1. \/ told[i] > 0 \/ up \in {"send", "done"} \/ Count(theirs.unread, AnswersTo(i)) > 0
        \/ Count(msgCh, ResultsOf(i)) > 0
    BY <1>1, <1>7, <1>12 DEF Delivered
  <2>2. Count(theirs.unread, AnswersTo(i)) > 0 =>
           Count(theirs'.unread, AnswersTo(i)) > 0 \/ Count(emitted', ResultsOf(i)) > 0
    BY <1>12 DEF One
  <2> QED BY <2>1, <2>2
<1>18. LoggingIn'
  <2>1. CASE ~Login
    BY <1>14, <2>1 DEF LoggingIn
  <2>2. CASE Login
    <3>1. /\ msgCh' = <<>> /\ ~isReading' /\ told' = [i \in SessionIds |-> 0]
          /\ serving' \notin {"peek", "dial"} /\ serving \notin {"peek", "dial"}
      BY <1>1, <1>2, <1>7, <2>2 DEF LoggingIn
    <3>2. \A i \in SessionIds : One(<<i, "node">> \in theirs.asked) + OnTheWay(i) <= One(i \in 1..lastRequestId)
      BY <1>1, <2>2 DEF LoggingIn
    <3>3. Count(theirs.unread, AnswersTo(1)) = 0 =>
             Count(theirs'.unread, AnswersTo(1)) = 0 /\ Count(emitted', ResultsOf(1)) = 0
      BY <1>12 DEF One
    <3>4. CASE serving = "subscribe"
      <4>1. ASSUME asking'.st \in {"true", "refused"}
            PROVE  <<1, "node">> \notin theirs.asked /\ Count(theirs'.unread, AnswersTo(1)) = 0
        <5>1. CASE asking.st \in {"true", "refused"}
          BY <1>1, <2>2, <3>3, <3>4, <5>1 DEF LoggingIn
        <5>2. CASE asking.st \notin {"true", "refused"}
          <6>1. PICK i \in SessionIds : i = 1 /\ m \in ResultsOf(i)
            BY <1>1, <1>6, <1>10, <2>2, <3>4, <4>1, <5>2, Fields DEF LoggingIn
          <6>2. One(<<i, "node">> \in theirs.asked) + OnTheWay(i) <= 1
            <7>1. One(<<i, "node">> \in theirs.asked) + OnTheWay(i) <= One(i \in 1..lastRequestId)
              BY <3>2
            <7>2. \A b : One(b) \in {0, 1}
              BY DEF One
            <7>3. OnTheWay(i) \in Nat
              BY <1>1, Numbers
            <7> QED BY <7>1, <7>2, <7>3
          <6>3. OnTheWay(i) = Count(theirs'.unread, AnswersTo(i)) + 1 + Count(msgCh, ResultsOf(i))
            BY <1>12, <6>1 DEF OnTheWay, One
          <6> QED BY <1>12, <6>1, <6>2, <6>3 DEF One
        <5> QED BY <5>1, <5>2
      <4> QED BY <1>1, <1>7, <1>8, <1>10, <1>13, <1>14, <2>2, <3>1, <3>2, <3>4, <4>1 DEF LoggingIn
    <3>5. CASE serving = "authorize"
      BY <1>1, <1>7, <1>8, <1>10, <1>13, <1>14, <2>2, <3>1, <3>2, <3>3, <3>5 DEF LoggingIn
    <3> QED BY <2>2, <3>1, <3>4, <3>5 DEF Login
  <2> QED BY <2>1, <2>2
<1>19. Extranonce'
  <2>1. ASSUME NEW n \in Nonces, LinesLead(theirs.unread, 0, n, theirs.nonce)
        PROVE  Leads(n)'
    <3>1. PICK k \in Nonces : k = IF ResetsLine(l) THEN l.params[1] ELSE n
      BY <1>5, <1>6
    <3>2. LinesLead(theirs'.unread, 0, k, theirs'.nonce)
      BY <1>2, <1>3, <1>8, <2>1, <3>1, LinesTail
    <3>3. MessagesLead(emitted', n, k)
      BY <1>5, <1>7, <3>1, LeadOne
    <3> QED BY <3>2, <3>3 DEF Leads
  <2>2. ASSUME NEW n \in Nonces, Leads(n)
        PROVE  Leads(n)'
    <3>1. LinesLead(theirs.unread, 0, n, theirs.nonce)
      BY <1>2, <2>2, LeadEmpty DEF Leads
    <3> QED BY <2>1, <3>1
  <2>3. ASSUME serving = "subscribe", ~early, NEW k \in Where(theirs'.unread, AnswersTo(1))
        PROVE  LinesLead(theirs'.unread, k, theirs'.unread[k].result, theirs'.nonce)
    <3>1. /\ k \in Nat /\ k + 1 \in DOMAIN theirs.unread
          /\ theirs'.unread[k] = theirs.unread[k + 1] /\ theirs'.unread[k] \in AnswersTo(1)
      BY <1>2, <1>8, LenProperties, HeadTailProperties, EmptySeq DEF Where
    <3>2. k + 1 \in Where(theirs.unread, AnswersTo(1))
      BY <3>1 DEF Where
    <3>3. PICK j \in DOMAIN theirs.unread : j = k + 1
      BY <3>1
    <3>4. LinesLead(theirs.unread, j, theirs.unread[j].result, theirs.nonce)
      BY <1>1, <2>3, <3>2, <3>3 DEF Extranonce
    <3>5. LinesLead(Tail(theirs.unread), j - 1, theirs.unread[j].result, theirs.nonce)
      BY <1>2, <3>4, LinesTail
    <3>6. j - 1 = k
      BY <3>1, <3>3
    <3> QED BY <1>8, <3>1, <3>3, <3>5, <3>6
  <2>4. ASSUME serving = "subscribe", ~early, asking'.st = "true"
        PROVE  Leads(asking.result)' /\ asking'.result \in Nonces
    <3>1. PICK n \in Nonces : n = asking'.result
      BY <1>11, Fields DEF SessionShape, AskingShape
    <3>2. CASE asking' = asking
      BY <1>1, <2>2, <2>4, <3>1, <3>2 DEF Extranonce, Leads
    <3>3. CASE asking' # asking
      <4>1. m.kind = "result" /\ n = m.result /\ m.id = asking.id /\ m.id = 1
        BY <1>1, <1>9, <2>4, <3>1, <3>3 DEF LoggingIn, Login
      <4>2. l \in AnswersTo(1) /\ l.result = n /\ ~ResetsLine(l)
        BY <1>5, <1>6, <4>1
      <4>3. 1 \in DOMAIN theirs.unread /\ theirs.unread[1] = l
        BY <1>2, <1>3, LenProperties, HeadTailProperties, EmptySeq
      <4>4. LinesLead(theirs.unread, 1, n, theirs.nonce)
        BY <1>1, <2>4, <4>2, <4>3 DEF Extranonce, Where
      <4>5. LinesLead(theirs'.unread, 0, n, theirs'.nonce)
        BY <1>2, <1>8, <4>3, <4>4, LinesTail
      <4>6. MessagesLead(emitted', n, n)
        BY <1>5, <1>7, <4>2, LeadOne
      <4> QED BY <3>1, <4>5, <4>6 DEF Leads
    <3> QED BY <3>1, <3>2, <3>3
  <2>5. CASE ~early
    <3>1. serving' = "subscribe" =>
             /\ \A k \in Where(theirs'.unread, AnswersTo(1)) :
                   LinesLead(theirs'.unread, k, theirs'.unread[k].result, theirs'.nonce)
             /\ asking'.st = "true" => Leads(asking.result)'
      BY <1>7, <2>3, <2>4, <2>5
    <3>2. ASSUME up' = "off", serving' \in {"authorize", "hold", "resend"} \/ model' # "off"
          PROVE  Leads(extraNonceMsg)'
      <4>1. PICK n \in Nonces : n = extraNonceMsg
        BY <1>1 DEF SessionShape, RunShape
      <4>2. Leads(n)'
        BY <1>1, <1>7, <2>2, <2>5, <3>2, <4>1 DEF Extranonce
      <4> QED BY <1>7, <4>1, <4>2 DEF Leads
    <3>3. up' = "read" => \E n \in Nonces : MessagesLead(msgCh', nonce', n) /\ Leads(n)'
      BY <1>1, <1>7, <2>2, <2>5 DEF Extranonce
    <3> QED BY <3>1, <3>2, <3>3 DEF Extranonce
  <2> QED BY <1>7, <2>5 DEF Extranonce
<1> QED
  BY <1>11, <1>15, <1>16, <1>17, <1>18, <1>19 DEF SessionInv

\* What was read goes to the miner, or is dropped before any of it is for the miner.
LEMMA EmitSafe ==
  ASSUME SessionInv, Emit
  PROVE  SessionInv'
<1>1. SessionShape /\ Stages /\ Lined /\ LoggingIn /\ Counted /\ Delivered /\ Extranonce
  BY DEF SessionInv
<1>2. PICK m \in PoolMessages : emitted = <<m>>
  BY <1>1 DEF Emit, SessionShape, QueueShape
<1>3. /\ ~Done /\ emitted' = <<>> /\ emitted[1] = m
      /\ msgCh' = IF isReading THEN msgCh \o emitted ELSE msgCh
      /\ early' = (early \/ (m.kind = "mining.set_extranonce" /\ up = "off"))
      /\ UNCHANGED <<runVars, miner, told, nonce, theirs, answers, isReading, resHandlers,
                     extraNonceMsg, notifyMsgs, lastRequestId>>
  BY <1>2 DEF Emit
<1>4. /\ msgCh \in Seq(PoolMessages)
      /\ msgCh' = IF isReading THEN Append(msgCh, m) ELSE msgCh
      /\ msgCh' \in Seq(PoolMessages)
  <2>1. msgCh \in Seq(PoolMessages)
    BY <1>1, Fields
  <2>2. msgCh \o <<m>> = Append(msgCh, m) /\ Append(msgCh, m) \in Seq(PoolMessages)
    BY <2>1, AppendIsConcat, AppendProperties
  <2> QED BY <1>2, <1>3, <2>1, <2>2
<1>5. /\ serving' = serving /\ listed' = listed /\ asking' = asking /\ model' = model
      /\ up' = up /\ down' = down /\ Login' = Login /\ Done' = Done
      /\ \A i : LinesOf(i)' = LinesOf(i) /\ Configures(i)' = Configures(i)
  BY <1>3 DEF runVars, Login, Done, LinesOf, Configures
<1>6. SessionShape'
  BY <1>1, <1>3, <1>4, <1>5 DEF SessionShape, MinerShape, PoolShape, AskingShape, QueueShape, RunShape
<1>7. \A i : /\ Count(emitted, ResultsOf(i)) = One(m \in ResultsOf(i)) /\ Count(emitted', ResultsOf(i)) = 0
             /\ Count(msgCh, ResultsOf(i)) \in Nat
             /\ Count(msgCh', ResultsOf(i)) = Count(msgCh, ResultsOf(i))
                                              + (IF isReading THEN One(m \in ResultsOf(i)) ELSE 0)
  <2> SUFFICES ASSUME NEW i
        PROVE  /\ Count(emitted, ResultsOf(i)) = One(m \in ResultsOf(i)) /\ Count(emitted', ResultsOf(i)) = 0
               /\ Count(msgCh, ResultsOf(i)) \in Nat
               /\ Count(msgCh', ResultsOf(i)) = Count(msgCh, ResultsOf(i))
                                                + (IF isReading THEN One(m \in ResultsOf(i)) ELSE 0)
    OBVIOUS
  <2>1. Count(emitted, ResultsOf(i)) = One(m \in ResultsOf(i)) /\ Count(emitted', ResultsOf(i)) = 0
    BY <1>2, <1>3, CountOne, CountEmpty
  <2>2. /\ Count(Append(msgCh, m), ResultsOf(i)) = Count(msgCh, ResultsOf(i)) + One(m \in ResultsOf(i))
        /\ Count(msgCh, ResultsOf(i)) \in Nat
    BY <1>4, CountAppend, CountType
  <2> QED BY <1>4, <2>1, <2>2
<1>8. \A i : /\ OnTheWay(i) \in Nat /\ OnTheWay(i)' \in Nat /\ OnTheWay(i)' <= OnTheWay(i)
             /\ Count(theirs'.unread, AnswersTo(i)) = Count(theirs.unread, AnswersTo(i))
  <2> SUFFICES ASSUME NEW i
        PROVE  /\ OnTheWay(i) \in Nat /\ OnTheWay(i)' \in Nat /\ OnTheWay(i)' <= OnTheWay(i)
               /\ Count(theirs'.unread, AnswersTo(i)) = Count(theirs.unread, AnswersTo(i))
    OBVIOUS
  <2>1. /\ Count(theirs.unread, AnswersTo(i)) \in Nat
        /\ Count(theirs'.unread, AnswersTo(i)) = Count(theirs.unread, AnswersTo(i))
    BY <1>1, <1>3, Numbers
  <2> QED BY <1>7, <2>1 DEF OnTheWay, One
<1>9. Stages' /\ Lined'
  BY <1>1, <1>3, <1>5 DEF Stages, Lined
<1>10. Counted'
  <2> SUFFICES ASSUME ~Login, NEW i \in SessionIds
               PROVE  MayBeTold(i)' <= One(i \in miner.asked) + One(i \in 2..lastRequestId)
    BY <1>3, <1>5 DEF Counted
  <2>1. MayBeTold(i) <= One(i \in miner.asked) + One(i \in 2..lastRequestId)
    BY <1>1 DEF Counted
  <2>2. MayBeTold(i)' <= MayBeTold(i) /\ MayBeTold(i)' \in Nat /\ MayBeTold(i) \in Nat
    <3>1. /\ LinesOf(i) \in Nat /\ told[i] \in Nat /\ told' = told /\ theirs' = theirs
          /\ LinesOf(i)' = LinesOf(i) /\ Configures(i)' = Configures(i)
      BY <1>1, <1>3, <1>5, Numbers DEF SessionShape, RunShape
    <3>2. \A b : One(b) \in {0, 1}
      BY DEF One
    <3>3. OnTheWay(i) \in Nat /\ OnTheWay(i)' \in Nat /\ OnTheWay(i)' <= OnTheWay(i)
      BY <1>8
    <3>4. MayBeTold(i) = told[i] + LinesOf(i) + One(Configures(i)) + (One(<<i, "miner">> \in theirs.asked)
                         + One(<<i, "node">> \in theirs.asked) + OnTheWay(i))
      BY <1>3 DEF MayBeTold
    <3>5. MayBeTold(i)' = told[i] + LinesOf(i) + One(Configures(i)) + (One(<<i, "miner">> \in theirs.asked)
                          + One(<<i, "node">> \in theirs.asked) + OnTheWay(i)')
      BY <1>3, <1>5, <3>1 DEF MayBeTold
    <3> QED BY <3>1, <3>2, <3>3, <3>4, <3>5
  <2> QED BY <2>1, <2>2 DEF One
<1>11. Delivered'
  <2> SUFFICES ASSUME NEW i \in answers
               PROVE  \/ told[i] > 0 \/ up \in {"send", "done"}
                      \/ Count(theirs.unread, AnswersTo(i)) > 0
                      \/ Count(msgCh', ResultsOf(i)) > 0
    BY <1>3, <1>5 DEF Delivered
  <2>1. isReading
    BY <1>1 DEF Stages
  <2>2. \/ told[i] > 0 \/ up \in {"send", "done"} \/ Count(theirs.unread, AnswersTo(i)) > 0
        \/ Count(emitted, ResultsOf(i)) > 0 \/ Count(msgCh, ResultsOf(i)) > 0
    BY <1>1 DEF Delivered
  <2> QED BY <1>7, <2>1, <2>2 DEF One
<1>12. LoggingIn'
  <2>1. CASE ~Login
    BY <1>5, <2>1 DEF LoggingIn
  <2>2. CASE Login
    <3>1. /\ msgCh' = <<>> /\ ~isReading' /\ told' = [i \in SessionIds |-> 0]
          /\ serving \notin {"peek", "dial"}
      BY <1>1, <1>2, <1>3, <2>2 DEF LoggingIn
    <3>2. ASSUME NEW i \in SessionIds
          PROVE  One(<<i, "node">> \in theirs'.asked) + OnTheWay(i)' <= One(i \in 1..lastRequestId)
      <4>1. One(<<i, "node">> \in theirs.asked) + OnTheWay(i) <= One(i \in 1..lastRequestId)
        BY <1>1, <2>2 DEF LoggingIn
      <4>2. \A b : One(b) \in {0, 1}
        BY DEF One
      <4>3. OnTheWay(i) \in Nat /\ OnTheWay(i)' \in Nat /\ OnTheWay(i)' <= OnTheWay(i) /\ theirs' = theirs
        BY <1>3, <1>8
      <4> QED BY <4>1, <4>2, <4>3
    <3>3. Count(emitted', ResultsOf(1)) = 0
      BY <1>7
    <3> QED BY <1>1, <1>3, <1>5, <2>2, <3>1, <3>2, <3>3 DEF LoggingIn
  <2> QED BY <2>1, <2>2
<1>13. Extranonce'
  <2>1. ASSUME NEW n, Leads(n)
        PROVE  \E k \in Nonces : /\ k = IF Resets(m) THEN m.params[1] ELSE n
                                 /\ Leads(k)'
    <3>1. PICK k \in Nonces : MessagesLead(emitted, n, k) /\ LinesLead(theirs.unread, 0, k, theirs.nonce)
      BY <2>1 DEF Leads
    <3>2. k = IF Resets(m) THEN m.params[1] ELSE n
      BY <1>2, <3>1, LeadOne
    <3>3. MessagesLead(emitted', k, k)
      BY <1>3, LeadEmpty
    <3>4. Leads(k)'
      BY <1>3, <3>1, <3>3 DEF Leads
    <3> QED BY <3>2, <3>4
  <2>2. ASSUME NEW n, Leads(n), up = "off", ~early'
        PROVE  Leads(n)'
    <3>1. ~Resets(m)
      BY <1>3, <2>2 DEF Resets
    <3> QED BY <2>1, <2>2, <3>1
  <2>3. ~early' => ~early
    BY <1>1, <1>3 DEF SessionShape, RunShape
  <2>4. CASE ~early'
    <3>1. ASSUME serving' = "subscribe", asking'.st = "true" PROVE Leads(asking.result)'
      <4>1. PICK n \in Nonces : n = asking.result
        BY <1>1, Fields
      <4>2. up = "off"
        BY <1>1, <1>5, <3>1 DEF Stages, Login
      <4>3. Leads(n)'
        BY <1>1, <1>5, <2>2, <2>3, <2>4, <3>1, <4>1, <4>2 DEF Extranonce
      <4> QED BY <1>5, <4>1, <4>3 DEF Leads
    <3>2. ASSUME up' = "off", serving' \in {"authorize", "hold", "resend"} \/ model' # "off"
          PROVE  Leads(extraNonceMsg)'
      <4>1. PICK n \in Nonces : n = extraNonceMsg
        BY <1>1 DEF SessionShape, RunShape
      <4>2. Leads(n)'
        BY <1>1, <1>5, <2>2, <2>3, <2>4, <3>2, <4>1 DEF Extranonce
      <4> QED BY <1>3, <4>1, <4>2 DEF Leads
    <3>3. ASSUME up' = "read" PROVE \E n \in Nonces : MessagesLead(msgCh', nonce', n) /\ Leads(n)'
      <4>1. PICK n \in Nonces : MessagesLead(msgCh, nonce, n) /\ Leads(n)
        BY <1>1, <1>5, <2>3, <2>4, <3>3 DEF Extranonce
      <4>2. PICK k \in Nonces : k = (IF Resets(m) THEN m.params[1] ELSE n) /\ Leads(k)'
        BY <2>1, <4>1
      <4>3. msgCh' = Append(msgCh, m)
        BY <1>1, <1>4, <1>5, <3>3 DEF Stages
      <4>4. MessagesLead(msgCh', nonce, k)
        BY <1>4, <4>1, <4>2, <4>3, LeadAppend
      <4> QED BY <1>3, <4>2, <4>4
    <3>4. serving' = "subscribe" =>
             \A k \in Where(theirs'.unread, AnswersTo(1)) :
                   LinesLead(theirs'.unread, k, theirs'.unread[k].result, theirs'.nonce)
      BY <1>1, <1>3, <1>5, <2>3, <2>4 DEF Extranonce
    <3> QED BY <3>1, <3>2, <3>3, <3>4 DEF Extranonce
  <2> QED BY <2>4 DEF Extranonce
<1> QED
  BY <1>6, <1>9, <1>10, <1>11, <1>12, <1>13 DEF SessionInv

LEMMA RegisterWaitSafe ==
  ASSUME SessionInv, RegisterWait
  PROVE  SessionInv'
<1>1. SessionShape /\ Stages /\ Lined /\ LoggingIn /\ Counted /\ Delivered /\ Extranonce
  BY DEF SessionInv
<1>2. /\ asking.st = "written" /\ asking' = [asking EXCEPT !.st = "registered"]
      /\ resHandlers' = resHandlers \cup {asking.id}
      /\ UNCHANGED <<serving, listed, model, up, down, miner, told, nonce, theirs, answers, early,
                     msgCh, emitted, isReading, extraNonceMsg, notifyMsgs, lastRequestId>>
  BY DEF RegisterWait, peerVars
<1>3. asking'.st = "registered" /\ asking'.id = asking.id /\ asking'.for = asking.for
  BY <1>1, <1>2 DEF SessionShape, AskingShape
<1>4. SessionShape'
  <2>1. AskingShape' /\ asking.id \in SessionIds
    BY <1>1, <1>2 DEF SessionShape, AskingShape
  <2> QED BY <1>1, <1>2, <2>1 DEF SessionShape, MinerShape, PoolShape, QueueShape, RunShape
<1>5. Stages' /\ Lined' /\ LoggingIn' /\ Delivered' /\ Extranonce'
  BY <1>1, <1>2, <1>3 DEF Stages, Lined, LoggingIn, Delivered, Extranonce, Login, LinesOf,
                          OnTheWay, Leads
<1>6. Counted'
  <2>1. \A i : Configures(i)' = Configures(i)
    BY <1>2, <1>3 DEF Configures
  <2> QED BY <1>1, <1>2, <2>1 DEF Counted, MayBeTold, Login, LinesOf, OnTheWay, Done
<1> QED
  BY <1>4, <1>5, <1>6 DEF SessionInv

(* The miner's model.                                                       *)

\* One line of the miner is taken.
LEMMA Takes ==
  ASSUME SessionShape, miner.unread # <<>>, miner' = [miner EXCEPT !.unread = Tail(@)]
  PROVE  /\ MinerShape' /\ miner'.asked = miner.asked /\ miner'.sent = miner.sent
         /\ Len(miner'.unread) \in Nat /\ Len(miner.unread) = Len(miner'.unread) + 1
         /\ Head(miner.unread) \in MinerLines
         /\ \A i : /\ LinesOf(i)' \in Nat
                   /\ LinesOf(i) = LinesOf(i)' + One(FromMiner.kind # "nil" /\ FromMiner.id = i)
         /\ FromMiner.kind # "nil" => FromMiner.id \in SessionIds
<1>1. miner.unread \in Seq(MinerLines) /\ miner'.unread = Tail(miner.unread)
  BY Fields DEF SessionShape, MinerShape
<1>2. PICK l \in MinerLines : l = Head(miner.unread)
  BY <1>1, HeadTailProperties
<1>3. /\ Tail(miner.unread) \in Seq(MinerLines) /\ Len(Tail(miner.unread)) \in Nat
      /\ Len(miner.unread) = Len(Tail(miner.unread)) + 1
  BY <1>1, LenProperties, HeadTailProperties, EmptySeq
<1>4. FromMiner = ParseMessageToPool(l)
  BY <1>2 DEF FromMiner
<1>5. /\ FromMiner.kind = "nil" <=> ~l.sound
      /\ l.sound => l.id \in 1..MaxLines /\ FromMiner.id = l.id
      /\ \A i : l \in LinesWith(i) <=> l.sound /\ l.id = i
  BY <1>2, <1>4, MinerLine
<1>6. ASSUME NEW i
      PROVE  /\ LinesOf(i)' \in Nat
             /\ LinesOf(i) = LinesOf(i)' + One(FromMiner.kind # "nil" /\ FromMiner.id = i)
  <2>1. /\ Count(miner.unread, LinesWith(i)) = Count(Tail(miner.unread), LinesWith(i)) + One(l \in LinesWith(i))
        /\ Count(Tail(miner.unread), LinesWith(i)) \in Nat
    BY <1>1, <1>2, <1>3, CountTail, CountType
  <2>2. (l \in LinesWith(i)) = (FromMiner.kind # "nil" /\ FromMiner.id = i)
    BY <1>5
  <2>3. LinesOf(i)' = Count(Tail(miner.unread), LinesWith(i))
    BY <1>1 DEF LinesOf
  <2> QED BY <2>1, <2>2, <2>3 DEF LinesOf
<1>7. FromMiner.kind # "nil" => FromMiner.id \in SessionIds
  BY <1>5, SessionAssumption DEF SessionIds
<1>8. MinerShape'
  BY <1>3 DEF SessionShape, MinerShape
<1> QED
  BY <1>1, <1>2, <1>3, <1>6, <1>7, <1>8 DEF SessionShape, MinerShape

\* A model that runs counts all there is but what is under way once the session is over.
LEMMA Running ==
  ASSUME SessionInv, model # "off", NEW i \in SessionIds
  PROVE  /\ told[i] \in Nat /\ LinesOf(i) \in Nat /\ OnTheWay(i) \in Nat /\ ~Login
         /\ MayBeTold(i) <= One(i \in miner.asked) + One(i \in 2..lastRequestId)
         /\ lastRequestId >= 2 /\ lastRequestId \in Nat
         /\ lastRequestId + Len(miner.unread) <= 2 + miner.sent /\ miner.sent <= MaxLines
<1>1. SessionShape /\ Stages /\ Lined /\ Counted
  BY DEF SessionInv
<1>2. ~Login /\ lastRequestId >= 2
  BY <1>1 DEF Stages
<1>3. told[i] \in Nat /\ LinesOf(i) \in Nat /\ OnTheWay(i) \in Nat
  BY <1>1, Numbers DEF SessionShape, RunShape
<1>4. lastRequestId \in Nat /\ miner.sent <= MaxLines
  BY <1>1, Fields DEF SessionShape, RunShape, SessionIds
<1> QED
  BY <1>1, <1>2, <1>3, <1>4 DEF Counted, Lined

LEMMA ReadConfigureSafe ==
  ASSUME SessionInv, ReadConfigure
  PROVE  SessionInv'
<1>1. SessionShape /\ Stages /\ Lined /\ LoggingIn /\ Counted /\ Delivered /\ Extranonce
  BY DEF SessionInv
<1>2. /\ model = "connect" /\ asking.st = "none" /\ ~Done /\ miner.unread # <<>>
      /\ miner' = [miner EXCEPT !.unread = Tail(@)] /\ FromMiner.kind = "mining.configure"
      /\ UNCHANGED <<told, nonce, up, down, msgCh, resHandlers, serving, listed, answers, early,
                     emitted, isReading, extraNonceMsg, notifyMsgs>>
      /\ \/ SendPoolRequest(FromMiner.id) /\ UNCHANGED model
         \/ model' = "send" /\ UNCHANGED <<asking, theirs, lastRequestId>>
  BY DEF ReadConfigure, Reads, quietly, modelUnchanged, asksUnchanged
<1>3. PICK id \in SessionIds : id = FromMiner.id
  BY <1>1, <1>2, Takes
<1>4. /\ MinerShape' /\ miner'.asked = miner.asked /\ miner'.sent = miner.sent
      /\ Len(miner'.unread) \in Nat /\ Len(miner.unread) = Len(miner'.unread) + 1
      /\ \A i : LinesOf(i)' \in Nat /\ LinesOf(i) = LinesOf(i)' + One(i = id)
  <2>1. /\ MinerShape' /\ miner'.asked = miner.asked /\ miner'.sent = miner.sent
        /\ Len(miner'.unread) \in Nat /\ Len(miner.unread) = Len(miner'.unread) + 1
        /\ \A i : /\ LinesOf(i)' \in Nat
                  /\ LinesOf(i) = LinesOf(i)' + One(FromMiner.kind # "nil" /\ FromMiner.id = i)
    BY <1>1, <1>2, Takes
  <2>2. \A i : (FromMiner.kind # "nil" /\ FromMiner.id = i) = (i = id)
    BY <1>2, <1>3
  <2> QED BY <2>1, <2>2
<1>5. /\ ~Login /\ lastRequestId >= 2 /\ lastRequestId \in Nat
      /\ lastRequestId + Len(miner.unread) <= 2 + miner.sent /\ miner.sent <= MaxLines
  BY <1>2, <1>3, Running
<1>6. lastRequestId + 1 \in SessionIds
  BY <1>1, <1>4, <1>5, Fields, SMTT(30) DEF SessionIds
<1>7. /\ PoolShape' /\ AskingShape' /\ theirs'.unread = theirs.unread /\ theirs'.nonce = theirs.nonce
      /\ \/ /\ model' = "connect" /\ lastRequestId' = lastRequestId + 1
            /\ theirs'.asked = theirs.asked \cup {<<lastRequestId + 1, "node">>}
            /\ asking'.for = id /\ asking'.st = "written"
         \/ /\ model' = "send" /\ asking' = asking /\ theirs' = theirs /\ lastRequestId' = lastRequestId
  <2>1. CASE SendPoolRequest(FromMiner.id) /\ UNCHANGED model
    BY <1>1, <1>2, <1>3, <1>6, <2>1, Asks
  <2>2. CASE model' = "send" /\ UNCHANGED <<asking, theirs, lastRequestId>>
    BY <1>1, <2>2 DEF SessionShape, PoolShape, AskingShape
  <2> QED BY <1>2, <2>1, <2>2
<1>8. lastRequestId' \in SessionIds /\ lastRequestId' >= 2 /\ lastRequestId' \in Nat
      /\ lastRequestId' + Len(miner'.unread) <= 2 + miner'.sent
  <2>1. lastRequestId \in SessionIds
    BY <1>1 DEF SessionShape, RunShape
  <2>2. miner.sent \in Nat
    BY <1>1, Fields
  <2> QED BY <1>4, <1>5, <1>6, <1>7, <2>1, <2>2
<1>9. SessionShape'
  BY <1>1, <1>2, <1>4, <1>7, <1>8 DEF SessionShape, QueueShape, RunShape
<1>10. up = "off" /\ down = "off" /\ answers = {} /\ Login' = Login
  <2>1. up = "off" /\ down = "off" /\ answers = {}
    BY <1>1, <1>2 DEF Stages, SessionShape, RunShape
  <2>2. Login' = Login
    BY <1>2 DEF Login
  <2> QED BY <2>1, <2>2
<1>11. Stages'
  <2>1. \A i \in SessionIds : <<i, "miner">> \notin theirs'.asked
    <3>1. \A i \in SessionIds : <<i, "miner">> \notin theirs.asked
      BY <1>1, <1>10 DEF Stages
    <3>2. theirs'.asked \subseteq theirs.asked \cup {<<lastRequestId + 1, "node">>}
      BY <1>7
    <3> QED BY <3>1, <3>2
  <2> QED BY <1>1, <1>2, <1>5, <1>7, <1>8, <1>10, <2>1 DEF Stages, Login
<1>12. Lined'
  <2>1. Len(miner'.unread) <= miner'.sent
    <3>1. Len(miner.unread) <= miner.sent /\ miner.sent \in Nat
      BY <1>1, Fields DEF Lined
    <3> QED BY <1>4, <3>1
  <2>2. ASSUME NEW i \in SessionIds PROVE LinesOf(i)' <= One(i \in miner'.asked)
    <3>1. LinesOf(i) <= One(i \in miner.asked)
      BY <1>1 DEF Lined
    <3>2. LinesOf(i)' \in Nat /\ LinesOf(i) = LinesOf(i)' + One(i = id)
      BY <1>4
    <3> QED BY <1>4, <3>1, <3>2 DEF One
  <2> QED BY <1>1, <1>4, <1>8, <2>1, <2>2 DEF Lined
<1>13. LoggingIn' /\ Delivered'
  BY <1>2, <1>5, <1>10 DEF LoggingIn, Delivered
<1>14. Counted'
  <2> SUFFICES ASSUME NEW i \in SessionIds
               PROVE  MayBeTold(i)' <= One(i \in miner.asked) + One(i \in 2..lastRequestId')
    BY <1>4 DEF Counted
  <2>1. /\ told[i] \in Nat /\ OnTheWay(i) \in Nat
        /\ MayBeTold(i) <= One(i \in miner.asked) + One(i \in 2..lastRequestId)
    BY <1>2, Running
  <2>2. OnTheWay(i)' = OnTheWay(i) /\ Done' = Done /\ ~Configures(i)
    BY <1>2, <1>7 DEF OnTheWay, Done, Configures
  <2>3. \A b : One(b) \in {0, 1}
    BY DEF One
  <2>4. MayBeTold(i) = told[i] + (LinesOf(i)' + One(i = id)) + One(FALSE)
                       + (One(<<i, "miner">> \in theirs.asked) + One(<<i, "node">> \in theirs.asked) + OnTheWay(i))
    <3>1. One(Configures(i)) = One(FALSE)
      BY <2>2 DEF One
    <3>2. LinesOf(i) = LinesOf(i)' + One(i = id)
      BY <1>4
    <3> QED BY <1>2, <3>1, <3>2 DEF MayBeTold
  <2>5. MayBeTold(i)' = told[i] + LinesOf(i)' + One(Configures(i)')
                       + (One(<<i, "miner">> \in theirs'.asked) + One(<<i, "node">> \in theirs'.asked) + OnTheWay(i))
    BY <1>2, <2>2 DEF MayBeTold
  <2>6. One(FALSE) = 0 /\ One(TRUE) = 1
    BY DEF One
  <2>7. One(Configures(i)') <= One(i = id)
    BY <1>2, <1>7 DEF One, Configures
  <2>8. /\ One(<<i, "miner">> \in theirs'.asked) = One(<<i, "miner">> \in theirs.asked)
        /\ One(<<i, "node">> \in theirs'.asked) - One(<<i, "node">> \in theirs.asked)
              <= One(i \in 2..lastRequestId') - One(i \in 2..lastRequestId)
    <3>1. CASE theirs' = theirs /\ lastRequestId' = lastRequestId
      BY <2>3, <3>1
    <3>2. CASE /\ lastRequestId' = lastRequestId + 1
               /\ theirs'.asked = theirs.asked \cup {<<lastRequestId + 1, "node">>}
      <4>1. (<<i, "miner">> \in theirs'.asked) = (<<i, "miner">> \in theirs.asked)
        BY <3>2
      <4>2. CASE i = lastRequestId + 1
        <5>1. i \in 2..lastRequestId' /\ i \notin 2..lastRequestId
          BY <1>5, <3>2, <4>2
        <5> QED BY <2>3, <4>1, <5>1 DEF One
      <4>3. CASE i # lastRequestId + 1
        <5>1. (i \in 2..lastRequestId') = (i \in 2..lastRequestId)
          BY <1>5, <3>2, <4>3
        <5>2. (<<i, "node">> \in theirs'.asked) = (<<i, "node">> \in theirs.asked)
          BY <3>2, <4>3
        <5> QED BY <2>3, <4>1, <5>1, <5>2
      <4> QED BY <4>2, <4>3
    <3> QED BY <1>7, <3>1, <3>2
  <2>9. LinesOf(i)' \in Nat
    BY <1>4
  <2>10. PICK m \in {0, 1}, n \in {0, 1}, n1 \in {0, 1}, c1 \in {0, 1}, a \in {0, 1}, r \in {0, 1},
              r1 \in {0, 1}, d \in {0, 1} :
            /\ m = One(<<i, "miner">> \in theirs.asked) /\ n = One(<<i, "node">> \in theirs.asked)
            /\ n1 = One(<<i, "node">> \in theirs'.asked) /\ c1 = One(Configures(i)')
            /\ a = One(i \in miner.asked) /\ r = One(i \in 2..lastRequestId)
            /\ r1 = One(i \in 2..lastRequestId') /\ d = One(i = id)
    BY <2>3
  <2>11. /\ told[i] + (LinesOf(i)' + d) + 0 + (m + n + OnTheWay(i)) <= a + r
         /\ MayBeTold(i)' = told[i] + LinesOf(i)' + c1 + (m + n1 + OnTheWay(i))
         /\ c1 <= d /\ n1 - n <= r1 - r
    BY <2>1, <2>4, <2>5, <2>6, <2>7, <2>8, <2>10
  <2>12. MayBeTold(i)' <= a + r1
    BY <2>1, <2>9, <2>11
  <2> QED BY <2>10, <2>12
<1>15. Extranonce'
  BY <1>1, <1>2, <1>5, <1>7, <1>10 DEF Extranonce, Leads, Login
<1> QED
  BY <1>9, <1>11, <1>12, <1>13, <1>14, <1>15 DEF SessionInv

\* A line of the handshake is answered, at most once, or dropped.
LEMMA ReadHandshakeSafe ==
  ASSUME SessionInv, ReadHandshake
  PROVE  SessionInv'
<1>1. SessionShape /\ Stages /\ Lined /\ LoggingIn /\ Counted /\ Delivered /\ Extranonce
  BY DEF SessionInv
<1>2. /\ model = "connect" /\ asking.st = "none" /\ ~Done /\ miner.unread # <<>>
      /\ miner' = [miner EXCEPT !.unread = Tail(@)]
      /\ UNCHANGED <<asking, theirs, lastRequestId, up, down, msgCh, resHandlers, serving, listed,
                     answers, early, emitted, isReading, extraNonceMsg, notifyMsgs>>
  BY DEF ReadHandshake, Reads, quietly, modelUnchanged, asksUnchanged
<1>3. /\ \/ FromMiner.kind # "nil" /\ told' = [told EXCEPT ![FromMiner.id] = @ + 1]
         \/ told' = told
      /\ nonce' \in {nonce, extraNonceMsg} /\ model' \in {"connect", "resend", "send"}
  <2>1. CASE FromMiner.kind = "mining.subscribe"
    BY <1>2, <2>1 DEF ReadHandshake, Tells, GetExtranonce
  <2>2. CASE FromMiner.kind = "mining.authorize"
    BY <1>2, <2>2 DEF ReadHandshake, Tells
  <2>3. CASE FromMiner.kind \notin {"mining.subscribe", "mining.authorize"}
    BY <1>2, <2>3 DEF ReadHandshake
  <2> QED BY <2>1, <2>2, <2>3
<1>4. /\ MinerShape' /\ miner'.asked = miner.asked /\ miner'.sent = miner.sent
      /\ Len(miner'.unread) \in Nat /\ Len(miner.unread) = Len(miner'.unread) + 1
      /\ \A i : /\ LinesOf(i)' \in Nat
                /\ LinesOf(i) = LinesOf(i)' + One(FromMiner.kind # "nil" /\ FromMiner.id = i)
      /\ FromMiner.kind # "nil" => FromMiner.id \in SessionIds
  BY <1>1, <1>2, Takes
<1>5. /\ up = "off" /\ down = "off" /\ answers = {} /\ ~Login /\ Login' = Login /\ Done' = Done
      /\ \A i : OnTheWay(i)' = OnTheWay(i) /\ ~Configures(i) /\ ~Configures(i)'
  BY <1>1, <1>2 DEF Stages, SessionShape, RunShape, Login, Done, OnTheWay, Configures
<1>6. SessionShape'
  <2>1. told' \in [SessionIds -> Nat]
    BY <1>1, <1>3, <1>4 DEF SessionShape, RunShape
  <2> QED BY <1>1, <1>2, <1>3, <1>4, <2>1 DEF SessionShape, PoolShape, AskingShape, QueueShape, RunShape
<1>7. Stages' /\ LoggingIn' /\ Delivered'
  BY <1>1, <1>2, <1>3, <1>5 DEF Stages, LoggingIn, Delivered, Login
<1>8. ASSUME NEW i \in SessionIds
      PROVE  LinesOf(i)' <= One(i \in miner'.asked) /\ MayBeTold(i)' <= MayBeTold(i)
             /\ MayBeTold(i) \in Nat /\ MayBeTold(i)' \in Nat
  <2>1. /\ told[i] \in Nat /\ LinesOf(i) \in Nat /\ OnTheWay(i) \in Nat /\ told'[i] \in Nat
        /\ LinesOf(i) <= One(i \in miner.asked)
    BY <1>1, <1>2, <1>6, Running DEF Lined, SessionShape, RunShape
  <2>2. PICK c \in {0, 1} : c = One(FromMiner.kind # "nil" /\ FromMiner.id = i)
    BY DEF One
  <2>3. LinesOf(i) = LinesOf(i)' + c /\ LinesOf(i)' \in Nat
    BY <1>4, <2>2
  <2>4. told'[i] <= told[i] + c
    <3>1. told \in [SessionIds -> Nat]
      BY <1>1 DEF SessionShape, RunShape
    <3> QED BY <1>3, <1>4, <2>1, <2>2, <3>1 DEF One
  <2>5. One(i \in miner.asked) \in {0, 1}
    BY DEF One
  <2>6. PICK rest \in Nat : /\ MayBeTold(i) = told[i] + LinesOf(i) + rest
                            /\ MayBeTold(i)' = told'[i] + LinesOf(i)' + rest
    <3>1. PICK rest \in Nat : rest = One(<<i, "miner">> \in theirs.asked)
                                     + One(<<i, "node">> \in theirs.asked) + OnTheWay(i)
      BY <2>1 DEF One
    <3>2. One(Configures(i)) = 0 /\ One(Configures(i)') = 0
      BY <1>5 DEF One
    <3>3. MayBeTold(i) = told[i] + LinesOf(i) + 0 + rest
      BY <1>2, <3>1, <3>2 DEF MayBeTold
    <3>4. MayBeTold(i)' = told'[i] + LinesOf(i)' + 0 + rest
      BY <1>2, <1>5, <3>1, <3>2 DEF MayBeTold
    <3> QED BY <2>1, <2>3, <3>3, <3>4
  <2>7. LinesOf(i)' <= One(i \in miner'.asked)
    BY <1>4, <2>1, <2>3, <2>5
  <2> QED BY <2>1, <2>3, <2>4, <2>6, <2>7
<1>9. Lined'
  <2>1. Len(miner'.unread) <= miner'.sent /\ lastRequestId' + Len(miner'.unread) <= 2 + miner'.sent
    <3>1. Len(miner.unread) <= miner.sent /\ miner.sent \in Nat
      BY <1>1, Fields DEF Lined
    <3>2. lastRequestId + Len(miner.unread) <= 2 + miner.sent /\ lastRequestId \in Nat
      BY <1>1, <1>5, SessionAssumption DEF Lined, SessionShape, RunShape, SessionIds
    <3> QED BY <1>2, <1>4, <3>1, <3>2
  <2> QED BY <1>1, <1>4, <1>8, <2>1 DEF Lined
<1>10. Counted'
  <2> SUFFICES ASSUME NEW i \in SessionIds
               PROVE  MayBeTold(i)' <= One(i \in miner.asked) + One(i \in 2..lastRequestId)
    BY <1>2, <1>4 DEF Counted
  <2>1. MayBeTold(i) <= One(i \in miner.asked) + One(i \in 2..lastRequestId)
    BY <1>1, <1>5 DEF Counted
  <2>2. One(i \in miner.asked) + One(i \in 2..lastRequestId) \in Nat
    BY DEF One
  <2> QED BY <1>8, <2>1, <2>2
<1>11. Extranonce'
  BY <1>1, <1>2, <1>3, <1>5 DEF Extranonce, Leads, Login
<1> QED
  BY <1>6, <1>7, <1>9, <1>10, <1>11 DEF SessionInv

\* The answer to the miner's configure goes back under the miner's id.
LEMMA ConfigureResultSafe ==
  ASSUME SessionInv, ConfigureResult
  PROVE  SessionInv'
<1>1. SessionShape /\ Stages /\ Lined /\ LoggingIn /\ Counted /\ Delivered /\ Extranonce
  BY DEF SessionInv
<1>2. /\ model = "connect" /\ asking.st \in {"true", "refused"} /\ asking' = NotAsking
      /\ \/ told' = [told EXCEPT ![asking.for] = @ + 1] /\ model' = model
         \/ model' = "send" /\ told' = told
      /\ UNCHANGED <<miner, nonce, theirs, lastRequestId, up, down, msgCh, resHandlers, serving,
                     listed, answers, early, emitted, isReading, extraNonceMsg, notifyMsgs>>
  BY DEF ConfigureResult, Tells, quietly, modelUnchanged
<1>3. AskingShape' /\ asking'.st = "none"
  BY <1>1, <1>2, SessionAssumption DEF AskingShape, NotAsking, NoID, NoField, SessionIds, Nonces
<1>4. /\ up = "off" /\ down = "off" /\ answers = {} /\ ~Login /\ Login' = Login /\ Done' = Done
      /\ \A i : /\ OnTheWay(i)' = OnTheWay(i) /\ LinesOf(i)' = LinesOf(i) /\ ~Configures(i)'
                /\ Configures(i) <=> i = asking.for
  BY <1>1, <1>2, <1>3 DEF Stages, SessionShape, RunShape, Login, Done, OnTheWay, LinesOf, Configures
<1>5. SessionShape'
  <2>1. told' \in [SessionIds -> Nat]
    BY <1>1, <1>2 DEF SessionShape, RunShape
  <2> QED BY <1>1, <1>2, <1>3, <2>1 DEF SessionShape, MinerShape, PoolShape, QueueShape, RunShape
<1>6. Stages' /\ LoggingIn' /\ Delivered' /\ Lined'
  BY <1>1, <1>2, <1>3, <1>4 DEF Stages, LoggingIn, Delivered, Lined, Login
<1>7. Counted'
  <2> SUFFICES ASSUME NEW i \in SessionIds
               PROVE  MayBeTold(i)' <= One(i \in miner.asked) + One(i \in 2..lastRequestId)
    BY <1>2 DEF Counted
  <2>1. /\ MayBeTold(i) <= One(i \in miner.asked) + One(i \in 2..lastRequestId)
        /\ told[i] \in Nat /\ LinesOf(i) \in Nat /\ OnTheWay(i) \in Nat /\ told'[i] \in Nat
    BY <1>1, <1>2, <1>5, Running DEF SessionShape, RunShape
  <2>2. One(i \in miner.asked) + One(i \in 2..lastRequestId) \in Nat
    BY DEF One
  <2>3. PICK rest \in Nat : rest = IF Done THEN 0 ELSE One(<<i, "miner">> \in theirs.asked)
                                   + One(<<i, "node">> \in theirs.asked) + OnTheWay(i)
    BY <2>1 DEF One
  <2>4. PICK c \in {0, 1} : c = One(Configures(i)) /\ told'[i] <= told[i] + c
    <3>1. told \in [SessionIds -> Nat] /\ asking.for \in SessionIds
      BY <1>1, Fields DEF SessionShape, RunShape
    <3>2. CASE Configures(i)
      BY <1>2, <1>4, <2>1, <3>1, <3>2 DEF One
    <3>3. CASE ~Configures(i)
      <4>1. told'[i] = told[i]
        BY <1>2, <1>4, <3>1, <3>3
      <4> QED BY <2>1, <3>3, <4>1 DEF One
    <3> QED BY <3>2, <3>3
  <2>5. MayBeTold(i) = told[i] + LinesOf(i) + c + rest
    BY <2>3, <2>4 DEF MayBeTold
  <2>6. MayBeTold(i)' = told'[i] + LinesOf(i) + 0 + rest
    <3>1. One(Configures(i)') = 0
      BY <1>4 DEF One
    <3> HIDE DEF Done
    <3> QED BY <1>2, <1>4, <2>3, <3>1 DEF MayBeTold
  <2> QED BY <2>1, <2>2, <2>4, <2>5, <2>6
<1>8. Extranonce'
  BY <1>1, <1>2, <1>3, <1>4 DEF Extranonce, Leads, Login
<1> QED
  BY <1>5, <1>6, <1>7, <1>8 DEF SessionInv

LEMMA ConnectFailsSafe ==
  ASSUME SessionInv, ConnectFails
  PROVE  SessionInv'
<1>1. SessionShape /\ Stages /\ Lined /\ LoggingIn /\ Counted /\ Delivered /\ Extranonce
  BY DEF SessionInv
<1>2. /\ model = "connect" /\ asking.st = "none" /\ model' = "send"
      /\ UNCHANGED <<miner, told, nonce, asking, theirs, lastRequestId, up, down, msgCh, resHandlers,
                     serving, listed, answers, early, emitted, isReading, extraNonceMsg, notifyMsgs>>
  BY DEF ConnectFails, ReadFails, asksUnchanged, quietly, modelUnchanged
<1>3. SessionShape'
  BY <1>1, <1>2 DEF SessionShape, MinerShape, PoolShape, AskingShape, QueueShape, RunShape
<1>4. Stages' /\ Lined' /\ LoggingIn' /\ Delivered' /\ Extranonce'
  BY <1>1, <1>2 DEF Stages, Lined, LoggingIn, Delivered, Extranonce, Login, LinesOf, Leads
<1>5. Counted'
  BY <1>1, <1>2 DEF Counted, Login, MayBeTold, LinesOf, OnTheWay, Configures, Done
<1> QED
  BY <1>3, <1>4, <1>5 DEF SessionInv

\* The extranonce that is resent comes after all that waits for the miner.
LEMMA StartRelaysSafe ==
  ASSUME SessionInv, StartRelays
  PROVE  SessionInv'
<1>1. SessionShape /\ Stages /\ Lined /\ LoggingIn /\ Counted /\ Delivered /\ Extranonce
  BY DEF SessionInv
<1>2. PICK r : r = Resent
  OBVIOUS
<1>3. /\ model = "resend" /\ model' = "done" /\ up' = "read" /\ down' = "read" /\ msgCh' = r
      /\ UNCHANGED <<resHandlers, miner, told, nonce, asking, theirs, lastRequestId,
                     serving, listed, answers, early, emitted, isReading, extraNonceMsg, notifyMsgs>>
  BY <1>2 DEF StartRelays, asksUnchanged, modelUnchanged
<1>4. /\ r \in Seq(PoolMessages)
      /\ \A i : Count(r, ResultsOf(i)) = Count(msgCh, ResultsOf(i))
      /\ \A n : MessagesLead(r, n, extraNonceMsg)
  BY <1>1, <1>2, ResentFacts DEF SessionShape, QueueShape, RunShape
<1>5. /\ up = "off" /\ down = "off" /\ answers = {} /\ ~Login /\ Login' = Login /\ Done' = Done
      /\ \A i : /\ OnTheWay(i)' = OnTheWay(i) /\ LinesOf(i)' = LinesOf(i)
                /\ ~Configures(i) /\ ~Configures(i)'
  BY <1>1, <1>3, <1>4 DEF Stages, SessionShape, RunShape, Login, Done, OnTheWay, LinesOf, Configures
<1>6. SessionShape'
  BY <1>1, <1>3, <1>4 DEF SessionShape, MinerShape, PoolShape, AskingShape, QueueShape, RunShape
<1>7. Stages' /\ Lined' /\ LoggingIn' /\ Delivered'
  BY <1>1, <1>3, <1>5 DEF Stages, Lined, LoggingIn, Delivered, Login
<1>8. Counted'
  <2>1. \A i : MayBeTold(i)' = MayBeTold(i)
    <3> HIDE DEF Done
    <3> QED BY <1>3, <1>5 DEF MayBeTold, One
  <2> QED BY <1>1, <1>3, <1>5, <2>1 DEF Counted
<1>9. Extranonce'
  <2>1. ASSUME ~early PROVE \E n \in Nonces : MessagesLead(msgCh', nonce', n) /\ Leads(n)'
    <3>1. PICK n \in Nonces : n = extraNonceMsg
      BY <1>1 DEF SessionShape, RunShape
    <3>2. Leads(n)
      BY <1>1, <1>3, <1>5, <2>1, <3>1 DEF Extranonce
    <3>3. Leads(n)' /\ MessagesLead(msgCh', nonce', n)
      BY <1>3, <1>4, <3>1, <3>2 DEF Leads
    <3> QED BY <3>3
  <2> QED BY <1>3, <1>5, <2>1 DEF Extranonce, Login
<1> QED
  BY <1>6, <1>7, <1>8, <1>9 DEF SessionInv

(* The relays.                                                              *)

LEMMA RelayUpSafe ==
  ASSUME SessionInv, RelayUp
  PROVE  SessionInv'
<1>1. SessionShape /\ Stages /\ Lined /\ LoggingIn /\ Counted /\ Delivered /\ Extranonce
  BY DEF SessionInv
<1>2. msgCh \in Seq(PoolMessages) /\ msgCh # <<>>
  BY <1>1, Fields DEF RelayUp
<1>3. PICK m \in PoolMessages : m = Head(msgCh)
  BY <1>2, HeadTailProperties
<1>4. PICK t \in Seq(PoolMessages) : t = Tail(msgCh)
  BY <1>2, HeadTailProperties
<1>5. /\ up = "read" /\ msgCh' = t
      /\ \/ /\ ~Done /\ up' = up
            /\ told' = IF m.kind = "result" THEN [told EXCEPT ![m.id] = @ + 1] ELSE told
            /\ nonce' = IF Resets(m) THEN m.params[1] ELSE nonce
         \/ up' = "send" /\ told' = told /\ nonce' = nonce
      /\ UNCHANGED <<down, miner, theirs, resHandlers, model, asking, lastRequestId, serving, listed,
                     answers, early, emitted, isReading, extraNonceMsg, notifyMsgs>>
  BY <1>3, <1>4 DEF RelayUp, Tells, Resets, relayUnchanged, modelUnchanged
<1>6. /\ m.kind = "result" => m.id \in SessionIds /\ ~Resets(m)
      /\ Resets(m) => m.params[1] \in Nonces
      /\ \A i : m \in ResultsOf(i) <=> m.kind = "result" /\ m.id = i
  BY PoolMessage
<1>7. \A i : /\ Count(msgCh, ResultsOf(i)) = Count(t, ResultsOf(i)) + One(m.kind = "result" /\ m.id = i)
             /\ Count(t, ResultsOf(i)) \in Nat
  <2> SUFFICES ASSUME NEW i
        PROVE  /\ Count(msgCh, ResultsOf(i)) = Count(t, ResultsOf(i)) + One(m.kind = "result" /\ m.id = i)
               /\ Count(t, ResultsOf(i)) \in Nat
    OBVIOUS
  <2>1. /\ Count(msgCh, ResultsOf(i)) = Count(t, ResultsOf(i)) + One(m \in ResultsOf(i))
        /\ Count(t, ResultsOf(i)) \in Nat
    BY <1>2, <1>3, <1>4, CountTail, CountType
  <2>2. (m \in ResultsOf(i)) = (m.kind = "result" /\ m.id = i)
    BY <1>6
  <2> QED BY <2>1, <2>2
<1>8. /\ model = "done" /\ ~Login /\ Login' = Login /\ Done' = Done
      /\ \A i : LinesOf(i)' = LinesOf(i) /\ ~Configures(i) /\ ~Configures(i)'
  BY <1>1, <1>5 DEF Stages, Login, Done, LinesOf, Configures
<1>9. SessionShape'
  <2>1. told' \in [SessionIds -> Nat]
    BY <1>1, <1>5, <1>6 DEF SessionShape, RunShape
  <2>2. nonce' \in Nonces
    BY <1>1, <1>5, <1>6 DEF SessionShape, RunShape
  <2> QED BY <1>1, <1>5, <2>1, <2>2 DEF SessionShape, MinerShape, PoolShape, AskingShape, QueueShape, RunShape
<1>10. Stages' /\ LoggingIn' /\ Lined'
  BY <1>1, <1>5, <1>8 DEF Stages, LoggingIn, Lined, Login
<1>11. Counted'
  <2> SUFFICES ASSUME NEW i \in SessionIds
               PROVE  MayBeTold(i)' <= One(i \in miner.asked) + One(i \in 2..lastRequestId)
    BY <1>5 DEF Counted
  <2>1. /\ MayBeTold(i) <= One(i \in miner.asked) + One(i \in 2..lastRequestId)
        /\ told[i] \in Nat /\ LinesOf(i) \in Nat /\ OnTheWay(i) \in Nat /\ told'[i] \in Nat
    BY <1>1, <1>8, <1>9, Running DEF SessionShape, RunShape
  <2>2. One(i \in miner.asked) + One(i \in 2..lastRequestId) \in Nat
    BY DEF One
  <2>3. PICK c \in {0, 1} : c = One(m.kind = "result" /\ m.id = i)
    BY DEF One
  <2>4. OnTheWay(i) = OnTheWay(i)' + c /\ OnTheWay(i)' \in Nat
    <3>1. /\ Count(theirs.unread, AnswersTo(i)) \in Nat /\ Count(emitted, ResultsOf(i)) \in Nat
          /\ theirs' = theirs /\ emitted' = emitted /\ msgCh' = t
      BY <1>1, <1>5, Numbers
    <3>2. Count(msgCh, ResultsOf(i)) = Count(t, ResultsOf(i)) + c /\ Count(t, ResultsOf(i)) \in Nat
      BY <1>7, <2>3
    <3> QED BY <3>1, <3>2 DEF OnTheWay
  <2>5. told'[i] = told[i] \/ (~Done /\ told'[i] = told[i] + c)
    <3>1. told \in [SessionIds -> Nat]
      BY <1>1 DEF SessionShape, RunShape
    <3>2. CASE m.kind = "result" /\ m.id = i
      BY <1>5, <2>3, <3>1, <3>2 DEF One
    <3>3. CASE ~(m.kind = "result" /\ m.id = i)
      <4>1. told'[i] = told[i]
        BY <1>5, <1>6, <3>1, <3>3
      <4> QED BY <4>1
    <3> QED BY <3>2, <3>3
  <2>6. PICK a \in Nat : a = One(<<i, "miner">> \in theirs.asked) + One(<<i, "node">> \in theirs.asked)
    BY DEF One
  <2>7. One(Configures(i)) = 0 /\ One(Configures(i)') = 0
    BY <1>8 DEF One
  <2>8. MayBeTold(i) = told[i] + LinesOf(i) + 0 + (IF Done THEN 0 ELSE a + OnTheWay(i))
    BY <2>6, <2>7 DEF MayBeTold
  <2>9. MayBeTold(i)' = told'[i] + LinesOf(i) + 0 + (IF Done THEN 0 ELSE a + OnTheWay(i)')
    <3> HIDE DEF Done
    <3> QED BY <1>5, <1>8, <2>6, <2>7 DEF MayBeTold
  <2>10. MayBeTold(i)' <= MayBeTold(i) /\ MayBeTold(i) \in Nat /\ MayBeTold(i)' \in Nat
    <3>1. CASE Done
      BY <2>1, <2>5, <2>8, <2>9, <3>1
    <3>2. CASE ~Done
      <4>1. PICK t0 \in Nat, t1 \in Nat, w1 \in Nat, n \in Nat :
               t0 = told[i] /\ t1 = told'[i] /\ w1 = OnTheWay(i)' /\ n = LinesOf(i)
        BY <2>1, <2>4
      <4>2. MayBeTold(i) = t0 + n + 0 + (a + (w1 + c)) /\ MayBeTold(i)' = t1 + n + 0 + (a + w1)
        BY <2>4, <2>8, <2>9, <3>2, <4>1
      <4>3. t1 <= t0 + c
        BY <2>3, <2>5, <4>1
      <4> QED BY <2>3, <4>2, <4>3
    <3> QED BY <3>1, <3>2
  <2> QED BY <2>1, <2>2, <2>10
<1>12. Delivered'
  <2> SUFFICES ASSUME NEW i \in answers, up' = up
               PROVE  \/ told'[i] > 0 \/ Count(theirs.unread, AnswersTo(i)) > 0
                      \/ Count(emitted, ResultsOf(i)) > 0 \/ Count(t, ResultsOf(i)) > 0
    BY <1>5 DEF Delivered
  <2>1. i \in SessionIds /\ told \in [SessionIds -> Nat]
    BY <1>1 DEF SessionShape, RunShape
  <2>2. \/ told[i] > 0 \/ Count(theirs.unread, AnswersTo(i)) > 0
        \/ Count(emitted, ResultsOf(i)) > 0 \/ Count(msgCh, ResultsOf(i)) > 0
    BY <1>1, <1>5 DEF Delivered
  <2>3. told' = IF m.kind = "result" THEN [told EXCEPT ![m.id] = @ + 1] ELSE told
    BY <1>5
  <2>4. CASE m.kind = "result" /\ m.id = i
    <3>1. told'[i] = told[i] + 1 /\ told[i] \in Nat
      BY <2>1, <2>3, <2>4
    <3> QED BY <3>1
  <2>5. CASE ~(m.kind = "result" /\ m.id = i)
    <3>1. Count(msgCh, ResultsOf(i)) = Count(t, ResultsOf(i))
      BY <1>7, <2>5 DEF One
    <3>2. told'[i] = told[i]
      BY <1>6, <2>1, <2>3, <2>5
    <3> QED BY <2>2, <3>1, <3>2
  <2> QED BY <2>4, <2>5
<1>13. Extranonce'
  <2>1. ASSUME ~early, up' = "read"
        PROVE  \E n \in Nonces : MessagesLead(msgCh', nonce', n) /\ Leads(n)'
    <3>1. PICK n \in Nonces : MessagesLead(msgCh, nonce, n) /\ Leads(n)
      BY <1>1, <1>5, <2>1 DEF Extranonce
    <3>2. MessagesLead(t, IF Resets(m) THEN m.params[1] ELSE nonce, n)
      BY <1>2, <1>3, <1>4, <3>1, LeadTail
    <3>3. nonce' = IF Resets(m) THEN m.params[1] ELSE nonce
      BY <1>5, <2>1
    <3>4. Leads(n)'
      BY <1>5, <3>1 DEF Leads
    <3> QED BY <1>5, <3>2, <3>3, <3>4
  <2>2. up' # "off" /\ serving' # "subscribe" /\ early' = early
    BY <1>5, <1>8 DEF Login
  <2> QED BY <2>1, <2>2 DEF Extranonce
<1> QED
  BY <1>9, <1>10, <1>11, <1>12, <1>13 DEF SessionInv

\* What the miner sends goes out once, a submit under the destination's user.
LEMMA RelayDownSafe ==
  ASSUME SessionInv, RelayDown
  PROVE  SessionInv'
<1>1. SessionShape /\ Stages /\ Lined /\ LoggingIn /\ Counted /\ Delivered /\ Extranonce
  BY DEF SessionInv
<1>2. /\ down = "read" /\ ~Done /\ miner.unread # <<>>
      /\ miner' = [miner EXCEPT !.unread = Tail(@)]
      /\ resHandlers' = IF FromMiner.kind = "mining.submit" THEN resHandlers \cup {FromMiner.id} ELSE resHandlers
      /\ \/ UNCHANGED theirs /\ down' \in {"read", "send"}
         \/ FromMiner.kind # "nil" /\ Gets(Written(FromMiner)) /\ UNCHANGED down
      /\ UNCHANGED <<up, told, nonce, msgCh, model, asking, lastRequestId, serving, listed,
                     answers, early, emitted, isReading, extraNonceMsg, notifyMsgs>>
  BY DEF RelayDown, Reads, relayUnchanged, modelUnchanged
<1>3. /\ MinerShape' /\ miner'.asked = miner.asked /\ miner'.sent = miner.sent
      /\ Len(miner'.unread) \in Nat /\ Len(miner.unread) = Len(miner'.unread) + 1
      /\ Head(miner.unread) \in MinerLines
      /\ \A i : /\ LinesOf(i)' \in Nat
                /\ LinesOf(i) = LinesOf(i)' + One(FromMiner.kind # "nil" /\ FromMiner.id = i)
      /\ FromMiner.kind # "nil" => FromMiner.id \in SessionIds
  BY <1>1, <1>2, Takes
<1>4. /\ model = "done" /\ up # "off" /\ ~Login /\ Login' = Login /\ Done' = Done
      /\ \A i : OnTheWay(i)' = OnTheWay(i) \/ theirs' # theirs
      /\ \A i : ~Configures(i) /\ ~Configures(i)'
  BY <1>1, <1>2 DEF Stages, Login, Done, OnTheWay, Configures
<1>5. /\ PoolShape' /\ theirs'.unread = theirs.unread /\ theirs'.nonce = theirs.nonce
      /\ \/ theirs'.asked = theirs.asked
         \/ FromMiner.kind # "nil" /\ theirs'.asked = theirs.asked \cup {<<FromMiner.id, "miner">>}
  <2>1. CASE UNCHANGED theirs
    BY <1>1, <2>1 DEF SessionShape, PoolShape
  <2>2. ASSUME FromMiner.kind # "nil", Gets(Written(FromMiner))
        PROVE  /\ PoolShape' /\ theirs'.unread = theirs.unread /\ theirs'.nonce = theirs.nonce
               /\ theirs'.asked = theirs.asked \cup {<<FromMiner.id, "miner">>}
    <3>1. PICK w : w = Written(FromMiner)
      OBVIOUS
    <3>2. /\ w.id = FromMiner.id /\ w.id \in SessionIds
          /\ w.method = "mining.submit" => w.params = Username
      <4>1. PICK l \in MinerLines : l = Head(miner.unread)
        BY <1>3
      <4>2. FromMiner = ParseMessageToPool(l)
        BY <4>1 DEF FromMiner
      <4> QED BY <1>3, <2>2, <3>1, <4>2, MinerLine
    <3>3. theirs' = [theirs EXCEPT !.asked = @ \cup {<<w.id, "miner">>},
                                   !.users = IF w.method = "mining.submit" THEN @ \cup {w.params} ELSE @]
      BY <2>2, <3>1 DEF Gets
    <3>4. <<w.id, "miner">> \in SessionIds \X {"node", "miner"}
      BY <3>2
    <3> QED BY <1>1, <3>2, <3>3, <3>4 DEF SessionShape, PoolShape
  <2> QED BY <1>2, <2>1, <2>2
<1>6. \A i : OnTheWay(i)' = OnTheWay(i)
  BY <1>2, <1>5 DEF OnTheWay
<1>7. SessionShape'
  <2>1. resHandlers' \subseteq SessionIds
    BY <1>1, <1>2, <1>3 DEF SessionShape, RunShape
  <2>2. down' \in {"off", "read", "send", "done"}
    BY <1>2
  <2> QED BY <1>1, <1>2, <1>3, <1>5, <2>1, <2>2 DEF SessionShape, AskingShape, QueueShape, RunShape
<1>8. Stages'
  <2>1. down' # "off"
    BY <1>2
  <2> QED BY <1>1, <1>2, <1>4, <2>1 DEF Stages, Login
<1>9. LoggingIn'
  BY <1>4 DEF LoggingIn
<1>10. Delivered' /\ Extranonce'
  BY <1>1, <1>2, <1>4, <1>5 DEF Delivered, Extranonce, Leads, Login
<1>11. ASSUME NEW i \in SessionIds
       PROVE  LinesOf(i)' <= One(i \in miner'.asked) /\ MayBeTold(i)' <= MayBeTold(i)
              /\ MayBeTold(i) \in Nat /\ MayBeTold(i)' \in Nat
  <2>1. /\ told[i] \in Nat /\ LinesOf(i) \in Nat /\ OnTheWay(i) \in Nat
        /\ LinesOf(i) <= One(i \in miner.asked)
    BY <1>1, <1>4, Running DEF Lined
  <2>2. PICK c \in {0, 1} : c = One(FromMiner.kind # "nil" /\ FromMiner.id = i)
    BY DEF One
  <2>3. LinesOf(i) = LinesOf(i)' + c /\ LinesOf(i)' \in Nat
    BY <1>3, <2>2
  <2>4. One(i \in miner.asked) \in {0, 1}
    BY DEF One
  <2>5. PICK a \in {0, 1}, a1 \in {0, 1}, n \in {0, 1} :
           /\ a = One(<<i, "miner">> \in theirs.asked) /\ a1 = One(<<i, "miner">> \in theirs'.asked)
           /\ n = One(<<i, "node">> \in theirs.asked) /\ n = One(<<i, "node">> \in theirs'.asked)
           /\ a1 <= a + c
    <3>1. (<<i, "node">> \in theirs'.asked) = (<<i, "node">> \in theirs.asked)
      BY <1>5
    <3>2. <<i, "miner">> \in theirs'.asked =>
             <<i, "miner">> \in theirs.asked \/ (FromMiner.kind # "nil" /\ FromMiner.id = i)
      BY <1>5
    <3> QED BY <2>2, <3>1, <3>2 DEF One
  <2>6. One(Configures(i)) = 0 /\ One(Configures(i)') = 0
    BY <1>4 DEF One
  <2>7. MayBeTold(i) = told[i] + LinesOf(i) + 0 + (a + n + OnTheWay(i))
    BY <1>2, <2>5, <2>6 DEF MayBeTold
  <2>8. MayBeTold(i)' = told[i] + LinesOf(i)' + 0 + (a1 + n + OnTheWay(i))
    BY <1>2, <1>4, <1>6, <2>5, <2>6 DEF MayBeTold
  <2>9. LinesOf(i)' <= One(i \in miner'.asked)
    BY <1>3, <2>1, <2>3, <2>4
  <2>10. PICK t0 \in Nat, w \in Nat, n1 \in Nat : t0 = told[i] /\ w = OnTheWay(i) /\ n1 = LinesOf(i)'
    BY <2>1, <2>3
  <2>11. MayBeTold(i) = t0 + (n1 + c) + 0 + (a + n + w) /\ MayBeTold(i)' = t0 + n1 + 0 + (a1 + n + w)
    BY <2>3, <2>7, <2>8, <2>10
  <2>12. MayBeTold(i)' <= MayBeTold(i) /\ MayBeTold(i) \in Nat /\ MayBeTold(i)' \in Nat
    BY <2>2, <2>5, <2>11
  <2> QED BY <2>9, <2>12
<1>12. Lined'
  <2>1. Len(miner'.unread) <= miner'.sent /\ lastRequestId' + Len(miner'.unread) <= 2 + miner'.sent
    <3>1. Len(miner.unread) <= miner.sent /\ miner.sent \in Nat
      BY <1>1, Fields DEF Lined
    <3>2. lastRequestId + Len(miner.unread) <= 2 + miner.sent /\ lastRequestId \in Nat
      BY <1>1, <1>4, SessionAssumption DEF Lined, SessionShape, RunShape, SessionIds
    <3> QED BY <1>2, <1>3, <3>1, <3>2
  <2> QED BY <1>1, <1>3, <1>11, <2>1 DEF Lined
<1>13. Counted'
  <2> SUFFICES ASSUME NEW i \in SessionIds
               PROVE  MayBeTold(i)' <= One(i \in miner.asked) + One(i \in 2..lastRequestId)
    BY <1>2, <1>3 DEF Counted
  <2>1. MayBeTold(i) <= One(i \in miner.asked) + One(i \in 2..lastRequestId)
    BY <1>1, <1>4 DEF Counted
  <2>2. One(i \in miner.asked) + One(i \in 2..lastRequestId) \in Nat
    BY DEF One
  <2> QED BY <1>11, <2>1, <2>2
<1> QED
  BY <1>7, <1>8, <1>9, <1>10, <1>12, <1>13 DEF SessionInv

LEMMA RelayDownFailsSafe ==
  ASSUME SessionInv, RelayDownFails
  PROVE  SessionInv'
<1>1. SessionShape /\ Stages /\ Lined /\ LoggingIn /\ Counted /\ Delivered /\ Extranonce
  BY DEF SessionInv
<1>2. /\ down = "read" /\ down' = "send"
      /\ UNCHANGED <<up, miner, theirs, told, nonce, msgCh, resHandlers, model, asking, lastRequestId,
                     serving, listed, answers, early, emitted, isReading, extraNonceMsg, notifyMsgs>>
  BY DEF RelayDownFails, ReadFails, relayUnchanged, modelUnchanged
<1>3. SessionShape'
  BY <1>1, <1>2 DEF SessionShape, MinerShape, PoolShape, AskingShape, QueueShape, RunShape
<1>4. Stages' /\ Lined' /\ LoggingIn' /\ Delivered' /\ Extranonce'
  BY <1>1, <1>2 DEF Stages, Lined, LoggingIn, Delivered, Extranonce, Login, LinesOf, OnTheWay, Leads
<1>5. Counted'
  BY <1>1, <1>2 DEF Counted, Login, MayBeTold, LinesOf, OnTheWay, Configures, Done
<1> QED
  BY <1>3, <1>4, <1>5 DEF SessionInv
-----------------------------------------------------------------------------
(* The switches of a miner between pools.                                   *)

\* A call that has dialled a connection, before it is current and before it is cached.
Unseen == {"first", "firstEnd", "setNew"}
Uncached == Unseen \cup {"store"}

\* Connections are numbered as they are dialled, one for a call at most.
Looking(w) == IF pc[w] \in {"load", "dial"} THEN 1 ELSE 0
Numbered ==
    /\ Dialled = 1..Cardinality(Dialled)
    /\ Cardinality(Dialled) + Looking("scheduler") + Looking("api") <= calls + 1
    /\ \A w \in Callers : pc[w] \notin {"idle", "load", "dial", "again"} => hand[w] # NoConn

\* A connection that is not reading is about to be resent; so is the current one, unless
\* it has been since another one was in use.
Resending ==
    /\ \A c \in Dialled : ~reading[c] =>
          \E w \in Callers : pc[w] \in {"resend", "firstEnd"} /\ hand[w] = c
    /\ current \in resent \/ \E w \in Callers : \/ pc[w] = "again"
                                                \/ pc[w] = "resend" /\ hand[w] = current

\* Until it becomes the current one a new connection is its caller's alone.
Unshared ==
    \A w \in Callers : pc[w] \in Unseen =>
        /\ hand[w] # current
        /\ \A h \in Hosts : pool[h] # hand[w]
        /\ \A v \in Callers \ {w} : hand[v] # hand[w]
        /\ pc[w] = "setNew" => hand[w] \in resent

\* A connection is in the cache or about to be put there, and no other one for its
\* destination is, unless two calls were looking for it at the same time.
Cached ==
    /\ \A w, v \in Callers : w # v /\ pc[w] # "idle" /\ pc[v] # "idle" /\ dest[w] = dest[v]
                                => dest[w] \in together
    /\ \A h \in Hosts : pool[h] # NoConn => host[pool[h]] = h
    /\ \A w \in Callers : pc[w] \in Uncached => host[hand[w]] = dest[w]
    /\ \A w \in Callers : pc[w] \in {"dial"} \cup Uncached /\ dest[w] \notin together =>
          \A c \in Dialled : host[c] = dest[w] => pc[w] \in Uncached /\ c = hand[w]
    /\ \A c \in Dialled : host[c] \notin together =>
          \/ pool[host[c]] = c
          \/ \E w \in Callers : pc[w] \in Uncached /\ hand[w] = c

SwitchInv == SwitchTypeOK /\ Numbered /\ Resending /\ Unshared /\ Cached

\* Where the handler of a share is registered, who owes its answer, and what has come of
\* it, by the step its copy loop is at; while the miner is not switched all of it concerns
\* the current connection.
Tracked(s) ==
    /\ share[s] \in {"none", "mined"} => \A c \in Dialled : <<c, s>> \notin results
    /\ share[s] \in {"registered", "written"} =>
          \E c \in Dialled : /\ \A b \in Dialled : <<b, s>> \in results <=> b = c
                             /\ s \notin moved => c = current
    /\ share[s] # "written" => \A c \in Dialled : <<c, s>> \notin owed
    /\ \A b, c \in Dialled : <<b, s>> \in owed /\ <<c, s>> \in owed => b = c
    /\ share[s] = "written" => \A c \in Dialled : <<c, s>> \in owed /\ s \notin moved => c = current
    /\ share[s] # "answered" => /\ \A x \in onSubmit : x[1] # s
                                /\ \A y \in accepted : y[1] # s
    /\ share[s] \notin {"none", "answered"} /\ s \notin retuned => mined[s] = difficulty
    /\ \A x, y \in onSubmit : x[1] = s /\ y[1] = s => x = y

CreditInv ==
    /\ \A s \in Shares : Tracked(s)
    /\ \A s \in Shares \ moved : \A h \in Hosts :
          <<s, h>> \in accepted <=> \E d \in Difficulties : <<s, h, d>> \in onSubmit
    /\ \A x \in onSubmit : /\ \E y \in accepted : x[1] = y[1]
                           /\ x[1] \notin retuned => x[3] = mined[x[1]]
    /\ IsFiniteSet(onSubmit)
-----------------------------------------------------------------------------
(* The switches.                                                            *)

\* The types the switches depend on, taken apart.
LEMMA Shape ==
  ASSUME SwitchTypeOK
  PROVE  /\ Dialled \subseteq Conns /\ current \in Dialled /\ resent \subseteq Dialled
         /\ \A c \in Dialled : host[c] \in Hosts /\ reading[c] \in BOOLEAN /\ c # NoConn
         /\ \A h \in Hosts : pool[h] \in {NoConn} \cup Dialled
         /\ \A w \in Callers : dest[w] \in Hosts /\ hand[w] \in {NoConn} \cup Dialled
         /\ host \in [Dialled -> Hosts] /\ reading \in [Dialled -> BOOLEAN]
         /\ pool \in [Hosts -> {NoConn} \cup Dialled] /\ dest \in [Callers -> Hosts]
         /\ hand \in [Callers -> {NoConn} \cup Dialled]
         /\ DOMAIN pc = Callers /\ calls \in Nat /\ moved \subseteq Shares
         /\ IsFiniteSet(Dialled) /\ Cardinality(Dialled) \in Nat
<1>1. Dialled \subseteq Conns
  BY DEF SwitchTypeOK
<1>2. IsFiniteSet(Dialled) /\ Cardinality(Dialled) \in Nat
  <2>1. MaxCalls + 1 \in Int
    BY SwitchAssumption
  <2>2. IsFiniteSet(Conns)
    BY <2>1, FS_Interval DEF Conns
  <2> QED BY <1>1, <2>2, FS_Subset, FS_CardinalityType
<1> QED
  BY <1>1, <1>2, SwitchAssumption DEF SwitchTypeOK, Conns, NoConn

\* The conjuncts about the switches depend on the switches' variables alone.
LEMMA SwitchesStill ==
  ASSUME Numbered, Resending, Unshared, Cached, UNCHANGED switchVars
  PROVE  Numbered' /\ Resending' /\ Unshared' /\ Cached'
BY DEF switchVars, Numbered, Looking, Resending, Unshared, Cached, Dialled

\* A caller past its dialling has a connection in hand.
LEMMA InHand ==
  ASSUME SwitchInv, NEW w \in Callers, pc[w] \notin {"idle", "load", "dial", "again"}
  PROVE  hand[w] \in Dialled /\ hand[w] # NoConn
BY Shape DEF SwitchInv, Numbered

LEMMA InitSwitch == SwitchInit => SwitchInv
<1> SUFFICES ASSUME SwitchInit PROVE SwitchInv
  OBVIOUS
<1>1. Dialled = {1} /\ 1 \in Conns
  BY SwitchAssumption DEF SwitchInit, Dialled, Conns
<1>2. Dialled = 1..Cardinality(Dialled) /\ Cardinality(Dialled) = 1
  <2>1. Cardinality({1}) = 1
    BY FS_Singleton
  <2> QED BY <1>1, <2>1
<1>3. SwitchTypeOK
  BY <1>1, SwitchAssumption DEF SwitchInit, SwitchTypeOK, NoConn
<1>4. Numbered
  BY <1>2 DEF SwitchInit, Numbered, Looking, Callers
<1>5. Resending /\ Unshared
  BY <1>1 DEF SwitchInit, Resending, Unshared, Unseen
<1>6. Cached
  BY <1>1, SwitchAssumption DEF SwitchInit, Cached, Uncached, Unseen, NoConn
<1> QED
  BY <1>3, <1>4, <1>5, <1>6 DEF SwitchInv

LEMMA SetDestSafe ==
  ASSUME SwitchInv, NEW w \in Callers, NEW h \in Hosts, SetDest(w, h)
  PROVE  SwitchInv'
<1>1. SwitchTypeOK'
  BY SwitchAssumption DEF SwitchInv, SetDest, SwitchTypeOK, Dialled, submitVars, creditVars
<1>2. /\ UNCHANGED <<host, current, pool, reading, hand, resent>> /\ Dialled' = Dialled
      /\ calls' = calls + 1 /\ pc[w] = "idle"
  BY DEF SetDest, Dialled
<1>3. CASE GetDest = h
  <2>1. UNCHANGED <<pc, dest, together>>
    BY <1>3 DEF SetDest
  <2>2. Numbered'
    BY <1>2, <2>1, Shape DEF SwitchInv, Numbered, Looking
  <2>3. Resending' /\ Unshared' /\ Cached'
    BY <1>2, <2>1 DEF SwitchInv, Resending, Unshared, Cached
  <2> QED BY <1>1, <2>2, <2>3 DEF SwitchInv
<1>4. CASE GetDest # h
  <2>1. /\ pc' = [pc EXCEPT ![w] = "load"] /\ dest' = [dest EXCEPT ![w] = h]
        /\ together \subseteq together'
        /\ (\E v \in Callers \ {w} : pc[v] # "idle" /\ dest[v] = h) => h \in together'
    BY <1>4 DEF SetDest
  <2>2. /\ pc'[w] = "load" /\ \A v \in Callers \ {w} : pc'[v] = pc[v] /\ dest'[v] = dest[v]
        /\ dest'[w] = h
    BY <2>1, Shape DEF SwitchInv
  <2>3. Numbered'
    BY <1>2, <2>2, Shape DEF SwitchInv, Numbered, Looking, Callers
  <2>4. Resending'
    BY <1>2, <2>2 DEF SwitchInv, Resending
  <2>5. Unshared'
    BY <1>2, <2>2 DEF SwitchInv, Unshared, Unseen
  <2>6. Cached'
    BY <1>2, <2>1, <2>2 DEF SwitchInv, Cached, Uncached, Unseen
  <2> QED BY <1>1, <2>3, <2>4, <2>5, <2>6 DEF SwitchInv
<1> QED
  BY <1>3, <1>4

LEMMA LoadSafe ==
  ASSUME SwitchInv, NEW w \in Callers, Load(w)
  PROVE  SwitchInv'
<1>1. SwitchTypeOK'
  BY DEF SwitchInv, Load, Goes, SwitchTypeOK, Dialled, submitVars, creditVars
<1>2. /\ UNCHANGED <<host, current, pool, reading, dest, calls, resent, together>>
      /\ Dialled' = Dialled /\ pc[w] = "load"
      /\ pc'[w] = IF pool[dest[w]] # NoConn THEN "set" ELSE "dial"
      /\ hand'[w] = pool[dest[w]]
      /\ \A v \in Callers \ {w} : pc'[v] = pc[v] /\ hand'[v] = hand[v]
  BY Shape DEF Load, Goes, Dialled, SwitchInv
<1>3. Numbered'
  BY <1>2, Shape DEF SwitchInv, Numbered, Looking, Callers
<1>4. Resending'
  BY <1>2 DEF SwitchInv, Resending
<1>5. Unshared'
  BY <1>2, Shape DEF SwitchInv, Unshared, Unseen
<1>6. Cached'
  <2>1. ASSUME pc'[w] = "dial", dest[w] \notin together, NEW c \in Dialled, host[c] = dest[w]
        PROVE  FALSE
    <3>1. pool[dest[w]] = NoConn
      BY <1>2, <2>1
    <3>2. PICK v \in Callers : pc[v] \in Uncached /\ hand[v] = c
      BY <2>1, <3>1, Shape DEF SwitchInv, Cached
    <3>3. v # w /\ pc[v] # "idle" /\ dest[v] = host[c]
      BY <1>2, <3>2 DEF SwitchInv, Cached, Uncached, Unseen
    <3> QED BY <1>2, <2>1, <3>3 DEF SwitchInv, Cached
  <2> QED BY <1>2, <2>1 DEF SwitchInv, Cached, Uncached, Unseen
<1> QED
  BY <1>1, <1>3, <1>4, <1>5, <1>6 DEF SwitchInv

LEMMA SetCachedSafe ==
  ASSUME SwitchInv, NEW w \in Callers, SetCached(w)
  PROVE  SwitchInv'
<1>1. hand[w] \in Dialled /\ pc[w] = "set"
  BY Shape DEF SwitchInv, Numbered, SetCached, Goes
<1>2. SwitchTypeOK'
  BY <1>1 DEF SwitchInv, SetCached, Goes, MakesCurrent, SwitchTypeOK, Dialled, submitVars, creditVars
<1>3. /\ UNCHANGED <<host, pool, reading, dest, hand, calls, together>>
      /\ Dialled' = Dialled /\ current' = hand[w] /\ pc'[w] = "again"
      /\ \A v \in Callers \ {w} : pc'[v] = pc[v]
      /\ \A c \in resent : c # current \/ c = hand[w] => c \in resent'
  BY Shape DEF SetCached, Goes, MakesCurrent, Dialled, SwitchInv
<1>4. Numbered'
  BY <1>1, <1>3, Shape DEF SwitchInv, Numbered, Looking, Callers
<1>5. Resending'
  BY <1>1, <1>3 DEF SwitchInv, Resending
<1>6. Unshared'
  BY <1>1, <1>3 DEF SwitchInv, Unshared, Unseen
<1>7. Cached'
  BY <1>1, <1>3 DEF SwitchInv, Cached, Uncached, Unseen
<1> QED
  BY <1>2, <1>4, <1>5, <1>6, <1>7 DEF SwitchInv

LEMMA ResendCurrentSafe ==
  ASSUME SwitchInv, NEW w \in Callers, ResendCurrent(w)
  PROVE  SwitchInv'
<1>1. SwitchTypeOK'
  BY DEF SwitchInv, ResendCurrent, Goes, Pauses, SwitchTypeOK, Dialled, submitVars, creditVars
<1>2. /\ UNCHANGED <<host, current, pool, dest, calls, resent, together>>
      /\ Dialled' = Dialled /\ pc[w] = "again" /\ pc'[w] = "resend" /\ hand'[w] = current
      /\ \A v \in Callers \ {w} : pc'[v] = pc[v] /\ hand'[v] = hand[v]
      /\ \A c \in Dialled : reading'[c] = reading[c] \/ c = current
  BY Shape DEF ResendCurrent, Goes, Pauses, Dialled, SwitchInv
<1>3. Numbered'
  BY <1>2, Shape DEF SwitchInv, Numbered, Looking, Callers
<1>4. Resending'
  BY <1>2 DEF SwitchInv, Resending
<1>5. Unshared'
  BY <1>2 DEF SwitchInv, Unshared, Unseen
<1>6. Cached'
  BY <1>2 DEF SwitchInv, Cached, Uncached, Unseen
<1> QED
  BY <1>1, <1>3, <1>4, <1>5, <1>6 DEF SwitchInv

LEMMA ResendEndsSafe ==
  ASSUME SwitchInv, NEW w \in Callers, ResendEnds(w)
  PROVE  SwitchInv'
<1>1. hand[w] \in Dialled /\ pc[w] = "resend"
  BY Shape DEF SwitchInv, Numbered, ResendEnds, Ends, Goes
<1>2. SwitchTypeOK'
  BY <1>1 DEF SwitchInv, ResendEnds, Ends, Goes, Resends, SwitchTypeOK, Dialled, submitVars, creditVars
<1>3. /\ UNCHANGED <<host, current, pool, dest, calls, together>>
      /\ Dialled' = Dialled /\ pc'[w] = "idle" /\ hand'[w] = NoConn
      /\ \A v \in Callers \ {w} : pc'[v] = pc[v] /\ hand'[v] = hand[v]
      /\ \A c \in Dialled : reading'[c] = (reading[c] \/ c = hand[w])
      /\ resent' = resent \cup {hand[w]}
  BY Shape DEF ResendEnds, Ends, Goes, Resends, Dialled, SwitchInv
<1>4. Numbered'
  BY <1>1, <1>3, Shape DEF SwitchInv, Numbered, Looking, Callers
<1>5. Resending'
  <2>1. ASSUME NEW c \in Dialled, ~reading'[c]
        PROVE  \E v \in Callers : pc'[v] \in {"resend", "firstEnd"} /\ hand'[v] = c
    <3>1. ~reading[c] /\ c # hand[w]
      BY <1>3, <2>1
    <3>2. PICK v \in Callers : pc[v] \in {"resend", "firstEnd"} /\ hand[v] = c
      BY <3>1 DEF SwitchInv, Resending
    <3> QED BY <1>3, <3>1, <3>2
  <2>2. current \in resent' \/ \E v \in Callers : \/ pc'[v] = "again"
                                                  \/ pc'[v] = "resend" /\ hand'[v] = current
    BY <1>1, <1>3 DEF SwitchInv, Resending
  <2> QED BY <1>3, <2>1, <2>2 DEF Resending
<1>6. Unshared'
  <2>1. \A v \in Callers : pc'[v] \in Unseen => v # w /\ pc[v] \in Unseen /\ hand[v] # NoConn
    BY <1>3, InHand DEF Unseen
  <2> QED BY <1>3, <2>1 DEF SwitchInv, Unshared
<1>7. Cached'
  BY <1>1, <1>3 DEF SwitchInv, Cached, Uncached, Unseen
<1> QED
  BY <1>2, <1>4, <1>5, <1>6, <1>7 DEF SwitchInv

LEMMA DialFailsSafe ==
  ASSUME SwitchInv, NEW w \in Callers, DialFails(w)
  PROVE  SwitchInv'
<1>1. SwitchTypeOK'
  BY DEF SwitchInv, DialFails, Ends, Goes, SwitchTypeOK, Dialled, submitVars, creditVars
<1>2. /\ UNCHANGED <<host, current, pool, reading, dest, calls, resent, together>>
      /\ Dialled' = Dialled /\ pc[w] = "dial" /\ pc'[w] = "idle" /\ hand'[w] = NoConn
      /\ \A v \in Callers \ {w} : pc'[v] = pc[v] /\ hand'[v] = hand[v]
  BY Shape DEF DialFails, Ends, Goes, Dialled, SwitchInv
<1>3. Numbered'
  BY <1>2, Shape DEF SwitchInv, Numbered, Looking, Callers
<1>4. Resending'
  BY <1>2 DEF SwitchInv, Resending
<1>5. Unshared'
  <2>1. \A v \in Callers : pc'[v] \in Unseen => v # w /\ pc[v] \in Unseen /\ hand[v] # NoConn
    BY <1>2, InHand DEF Unseen
  <2> QED BY <1>2, <2>1 DEF SwitchInv, Unshared
<1>6. Cached'
  BY <1>2 DEF SwitchInv, Cached, Uncached, Unseen
<1> QED
  BY <1>1, <1>3, <1>4, <1>5, <1>6 DEF SwitchInv

LEMMA DialSafe ==
  ASSUME SwitchInv, NEW w \in Callers, Dial(w)
  PROVE  SwitchInv'
<1> DEFINE n == Cardinality(Dialled)
           c == n + 1
<1>1. /\ n \in Nat /\ Dialled = 1..n /\ IsFiniteSet(Dialled)
      /\ n + Looking("scheduler") + Looking("api") <= calls + 1
  BY Shape DEF SwitchInv, Numbered
<1>2. pc[w] = "dial" /\ Looking(w) = 1
  BY DEF Dial, Goes, Looking
<1>3. calls \in Nat /\ calls <= MaxCalls /\ n <= calls
  <2>1. \A v \in Callers : Looking(v) \in {0, 1}
    BY DEF Looking
  <2>2. calls \in 0..MaxCalls
    BY DEF SwitchInv, SwitchTypeOK
  <2> QED BY <1>1, <1>2, <2>1, <2>2, SwitchAssumption DEF Callers
<1>4. c \in Conns /\ c \notin Dialled /\ c # NoConn
  BY <1>1, <1>3, SwitchAssumption DEF Conns, NoConn
<1>5. /\ UNCHANGED <<current, pool, dest, calls, resent, together>>
      /\ pc' = [pc EXCEPT ![w] = "first"] /\ hand' = [hand EXCEPT ![w] = c]
      /\ host' = [x \in Dialled \cup {c} |-> IF x = c THEN dest[w] ELSE host[x]]
      /\ reading' = [x \in Dialled \cup {c} |-> IF x = c THEN TRUE ELSE reading[x]]
      /\ UNCHANGED <<submitVars, moved, creditVars>>
  BY DEF Dial, Goes
<1> HIDE DEF c, n
<1>6. Dialled' = Dialled \cup {c}
  BY <1>5 DEF Dialled
<1>7. SwitchTypeOK'
  <2>1. /\ host' \in [Dialled' -> Hosts] /\ reading' \in [Dialled' -> BOOLEAN]
        /\ Dialled' \subseteq Conns
    BY <1>4, <1>5, <1>6, Shape DEF SwitchInv
  <2>2. pc' \in [Callers -> {"idle", "load", "set", "again", "resend", "dial", "first",
                             "firstEnd", "setNew", "store"}]
        /\ hand' \in [Callers -> {NoConn} \cup Dialled']
    BY <1>5, <1>6 DEF SwitchInv, SwitchTypeOK
  <2> QED
    BY <1>5, <1>6, <2>1, <2>2 DEF SwitchInv, SwitchTypeOK, submitVars, creditVars
<1>8. /\ pc'[w] = "first" /\ hand'[w] = c
      /\ \A v \in Callers \ {w} : pc'[v] = pc[v] /\ hand'[v] = hand[v]
  BY <1>5, Shape DEF SwitchInv
<1>9. /\ host'[c] = dest[w] /\ reading'[c] = TRUE
      /\ \A x \in Dialled : host'[x] = host[x] /\ reading'[x] = reading[x] /\ x # c
  BY <1>4, <1>5
<1>10. Numbered'
  <2>1. Cardinality(Dialled') = n + 1
    BY <1>1, <1>4, <1>6, FS_AddElement DEF n
  <2>2. Dialled' = 1..(n + 1)
    BY <1>1, <1>6 DEF c
  <2>3. /\ Looking(w)' = 0 /\ \A v \in Callers \ {w} : Looking(v)' = Looking(v)
        /\ Looking("scheduler") \in Int /\ Looking("api") \in Int
    BY <1>8 DEF Looking
  <2>4. n + 1 + Looking("scheduler")' + Looking("api")' <= calls + 1
    BY <1>1, <1>2, <1>3, <2>3 DEF Callers
  <2>5. \A v \in Callers : pc'[v] \notin {"idle", "load", "dial", "again"} => hand'[v] # NoConn
    BY <1>4, <1>8, InHand
  <2> QED BY <1>5, <2>1, <2>2, <2>4, <2>5 DEF Numbered
<1>11. Resending'
  <2>1. ASSUME NEW x \in Dialled', ~reading'[x]
        PROVE  \E v \in Callers : pc'[v] \in {"resend", "firstEnd"} /\ hand'[v] = x
    <3>1. x \in Dialled /\ ~reading[x]
      BY <1>6, <1>9, <2>1
    <3>2. PICK v \in Callers : pc[v] \in {"resend", "firstEnd"} /\ hand[v] = x
      BY <3>1 DEF SwitchInv, Resending
    <3> QED BY <1>2, <1>8, <3>2
  <2>2. current \in resent \/ \E v \in Callers : \/ pc'[v] = "again"
                                                 \/ pc'[v] = "resend" /\ hand'[v] = current
    <3>1. \A v \in Callers : pc[v] \in {"again", "resend"} => pc'[v] = pc[v] /\ hand'[v] = hand[v]
      BY <1>2, <1>8
    <3> QED BY <3>1 DEF SwitchInv, Resending
  <2> QED BY <1>5, <2>1, <2>2 DEF Resending
<1>12. current # c /\ (\A h \in Hosts : pool[h] # c) /\ \A v \in Callers : hand[v] # c
  BY <1>4, Shape DEF SwitchInv
<1>13. Unshared'
  BY <1>5, <1>8, <1>12 DEF SwitchInv, Unshared, Unseen
<1>14. Cached'
  <2>1. \A v, u \in Callers : v # u /\ pc'[v] # "idle" /\ pc'[u] # "idle" /\ dest[v] = dest[u]
                                => dest[v] \in together
    BY <1>2, <1>8 DEF SwitchInv, Cached
  <2>2. \A h \in Hosts : pool[h] # NoConn => host'[pool[h]] = h
    BY <1>9, Shape DEF SwitchInv, Cached
  <2>3. \A v \in Callers : pc'[v] \in Uncached => host'[hand'[v]] = dest[v]
    BY <1>8, <1>9, InHand DEF SwitchInv, Cached, Uncached, Unseen
  <2>4. ASSUME NEW v \in Callers, pc'[v] \in {"dial"} \cup Uncached, dest[v] \notin together,
               NEW x \in Dialled', host'[x] = dest[v]
        PROVE  pc'[v] \in Uncached /\ x = hand'[v]
    <3>1. CASE v = w
      BY <1>2, <1>6, <1>8, <1>9, <2>4, <3>1 DEF SwitchInv, Cached, Uncached, Unseen
    <3>2. CASE v # w
      <4>1. x # c
        BY <1>2, <1>8, <1>9, <2>4, <3>2 DEF SwitchInv, Cached, Uncached, Unseen
      <4> QED BY <1>6, <1>8, <1>9, <2>4, <3>2, <4>1 DEF SwitchInv, Cached
    <3> QED BY <3>1, <3>2
  <2>5. \A x \in Dialled' : host'[x] \notin together =>
           pool[host'[x]] = x \/ \E v \in Callers : pc'[v] \in Uncached /\ hand'[v] = x
    BY <1>2, <1>6, <1>8, <1>9 DEF SwitchInv, Cached, Uncached, Unseen
  <2>6. pool' = pool /\ dest' = dest /\ together' = together
    BY <1>5
  <2> QED BY <2>1, <2>2, <2>3, <2>4, <2>5, <2>6 DEF Cached
<1> QED
  BY <1>7, <1>10, <1>11, <1>13, <1>14 DEF SwitchInv

LEMMA ResendNewSafe ==
  ASSUME SwitchInv, NEW w \in Callers, ResendNew(w)
  PROVE  SwitchInv'
<1>1. hand[w] \in Dialled /\ pc[w] = "first"
  BY InHand DEF ResendNew, Goes
<1>2. SwitchTypeOK'
  BY <1>1 DEF SwitchInv, ResendNew, Goes, Pauses, SwitchTypeOK, Dialled, submitVars, creditVars
<1>3. /\ UNCHANGED <<host, current, pool, dest, calls, resent, together>>
      /\ Dialled' = Dialled /\ pc'[w] = "firstEnd"
      /\ \A v \in Callers \ {w} : pc'[v] = pc[v]
      /\ \A v \in Callers : hand'[v] = hand[v]
      /\ \A c \in Dialled : reading'[c] = reading[c] \/ c = hand[w]
  BY Shape DEF ResendNew, Goes, Pauses, Dialled, SwitchInv
<1>4. Numbered'
  BY <1>1, <1>3, Shape DEF SwitchInv, Numbered, Looking, Callers
<1>5. Resending'
  BY <1>1, <1>3 DEF SwitchInv, Resending
<1>6. Unshared'
  BY <1>1, <1>3 DEF SwitchInv, Unshared, Unseen
<1>7. Cached'
  BY <1>1, <1>3 DEF SwitchInv, Cached, Uncached, Unseen
<1> QED
  BY <1>2, <1>4, <1>5, <1>6, <1>7 DEF SwitchInv

LEMMA ResendNewEndsSafe ==
  ASSUME SwitchInv, NEW w \in Callers, ResendNewEnds(w)
  PROVE  SwitchInv'
<1>1. hand[w] \in Dialled /\ pc[w] = "firstEnd"
  BY InHand DEF ResendNewEnds, Goes
<1>2. SwitchTypeOK'
  BY <1>1 DEF SwitchInv, ResendNewEnds, Goes, Resends, SwitchTypeOK, Dialled, submitVars, creditVars
<1>3. /\ UNCHANGED <<host, current, pool, dest, hand, calls, together>>
      /\ Dialled' = Dialled /\ pc'[w] = "setNew"
      /\ \A v \in Callers \ {w} : pc'[v] = pc[v]
      /\ \A c \in Dialled : reading'[c] = (reading[c] \/ c = hand[w])
      /\ resent' = resent \cup {hand[w]}
  BY Shape DEF ResendNewEnds, Goes, Resends, Dialled, SwitchInv
<1>4. Numbered'
  BY <1>1, <1>3, Shape DEF SwitchInv, Numbered, Looking, Callers
<1>5. Resending'
  <2>1. ASSUME NEW c \in Dialled, ~reading'[c]
        PROVE  \E v \in Callers : pc'[v] \in {"resend", "firstEnd"} /\ hand'[v] = c
    <3>1. ~reading[c] /\ c # hand[w]
      BY <1>3, <2>1
    <3>2. PICK v \in Callers : pc[v] \in {"resend", "firstEnd"} /\ hand[v] = c
      BY <3>1 DEF SwitchInv, Resending
    <3> QED BY <1>3, <3>1, <3>2
  <2>2. current \in resent' \/ \E v \in Callers : \/ pc'[v] = "again"
                                                  \/ pc'[v] = "resend" /\ hand'[v] = current
    BY <1>1, <1>3 DEF SwitchInv, Resending
  <2> QED BY <1>3, <2>1, <2>2 DEF Resending
<1>6. Unshared'
  BY <1>1, <1>3 DEF SwitchInv, Unshared, Unseen
<1>7. Cached'
  BY <1>1, <1>3 DEF SwitchInv, Cached, Uncached, Unseen
<1> QED
  BY <1>2, <1>4, <1>5, <1>6, <1>7 DEF SwitchInv

LEMMA SetNewSafe ==
  ASSUME SwitchInv, NEW w \in Callers, SetNew(w)
  PROVE  SwitchInv'
<1>1. hand[w] \in Dialled /\ pc[w] = "setNew" /\ hand[w] \in resent /\ hand[w] # current
  BY InHand DEF SwitchInv, Unshared, Unseen, SetNew, Goes
<1>2. SwitchTypeOK'
  BY <1>1 DEF SwitchInv, SetNew, Goes, MakesCurrent, SwitchTypeOK, Dialled, submitVars, creditVars
<1>3. /\ UNCHANGED <<host, pool, reading, dest, hand, calls, together>>
      /\ Dialled' = Dialled /\ current' = hand[w] /\ pc'[w] = "store"
      /\ \A v \in Callers \ {w} : pc'[v] = pc[v]
      /\ \A c \in resent : c # current => c \in resent'
  BY Shape DEF SetNew, Goes, MakesCurrent, Dialled, SwitchInv
<1>4. Numbered'
  BY <1>1, <1>3, Shape DEF SwitchInv, Numbered, Looking, Callers
<1>5. Resending'
  BY <1>1, <1>3 DEF SwitchInv, Resending
<1>6. Unshared'
  BY <1>1, <1>3 DEF SwitchInv, Unshared, Unseen
<1>7. Cached'
  BY <1>1, <1>3 DEF SwitchInv, Cached, Uncached, Unseen
<1> QED
  BY <1>2, <1>4, <1>5, <1>6, <1>7 DEF SwitchInv

LEMMA StoreSafe ==
  ASSUME SwitchInv, NEW w \in Callers, Store(w)
  PROVE  SwitchInv'
<1>1. hand[w] \in Dialled /\ hand[w] # NoConn /\ pc[w] = "store"
  BY InHand DEF Store, Ends, Goes
<1>2. SwitchTypeOK'
  BY <1>1 DEF SwitchInv, Store, Ends, Goes, SwitchTypeOK, Dialled, submitVars, creditVars
<1>3. /\ UNCHANGED <<host, current, reading, dest, calls, resent, together>>
      /\ Dialled' = Dialled /\ pc'[w] = "idle" /\ hand'[w] = NoConn
      /\ \A v \in Callers \ {w} : pc'[v] = pc[v] /\ hand'[v] = hand[v]
      /\ pool'[dest[w]] = hand[w] /\ \A h \in Hosts \ {dest[w]} : pool'[h] = pool[h]
  BY Shape DEF Store, Ends, Goes, Dialled, SwitchInv
<1>4. Numbered'
  BY <1>1, <1>3, Shape DEF SwitchInv, Numbered, Looking, Callers
<1>5. Resending'
  BY <1>1, <1>3 DEF SwitchInv, Resending
<1>6. Unshared'
  <2>1. \A v \in Callers : pc'[v] \in Unseen =>
           v # w /\ pc[v] \in Unseen /\ hand[v] # NoConn /\ hand[v] # hand[w]
    BY <1>1, <1>3, InHand DEF Unseen, SwitchInv, Unshared
  <2> QED BY <1>3, <2>1 DEF SwitchInv, Unshared
<1>7. Cached'
  <2>1. host[hand[w]] = dest[w] /\ dest[w] \in Hosts
    BY <1>1, Shape DEF SwitchInv, Cached, Uncached
  <2>2. \A h \in Hosts : pool'[h] # NoConn => host[pool'[h]] = h
    BY <1>3, <2>1 DEF SwitchInv, Cached
  <2>3. ASSUME NEW c \in Dialled, host[c] \notin together
        PROVE  pool'[host[c]] = c \/ \E v \in Callers : pc'[v] \in Uncached /\ hand'[v] = c
    <3>1. CASE host[c] = dest[w]
      BY <1>1, <1>3, <2>3, <3>1 DEF SwitchInv, Cached, Uncached
    <3>2. CASE host[c] # dest[w]
      <4>1. CASE pool[host[c]] = c
        BY <1>3, <3>2, <4>1, Shape DEF SwitchInv
      <4>2. CASE pool[host[c]] # c
        <5>1. PICK v \in Callers : pc[v] \in Uncached /\ hand[v] = c
          BY <2>3, <4>2 DEF SwitchInv, Cached
        <5>2. v # w
          BY <2>1, <3>2, <5>1
        <5> QED BY <1>3, <5>1, <5>2
      <4> QED BY <4>1, <4>2
    <3> QED BY <3>1, <3>2
  <2>4. \A v \in Callers : pc'[v] # "idle" => v # w
    BY <1>3
  <2> QED BY <1>3, <2>2, <2>3, <2>4 DEF SwitchInv, Cached, Uncached, Unseen
<1> QED
  BY <1>2, <1>4, <1>5, <1>6, <1>7 DEF SwitchInv

\* Submits, answers and difficulties leave the switches alone.
LEMMA SubmitsSafe ==
  ASSUME SwitchInv, SwitchTypeOK', UNCHANGED switchVars
  PROVE  SwitchInv'
BY SwitchesStill DEF SwitchInv

\* The types of what a submit changes.
LEMMA SubmitTypes ==
  ASSUME SwitchTypeOK,
         \/ TellDifficulty
         \/ \E d \in Difficulties : poolInterceptor(d)
         \/ \E s \in Shares : \/ MineShare(s) \/ Register(s) \/ Write(s)
                              \/ \E c \in Conns, ok \in BOOLEAN : Answer(c, s, ok)
  PROVE  SwitchTypeOK' /\ UNCHANGED switchVars
<1>1. CASE TellDifficulty
  BY <1>1 DEF TellDifficulty, SwitchTypeOK, switchVars, submitVars, Dialled
<1>2. ASSUME NEW d \in Difficulties, poolInterceptor(d)
      PROVE  SwitchTypeOK' /\ UNCHANGED switchVars
  <2>1. retunes' \in 0..MaxRetunes
    BY <1>2, SwitchAssumption DEF poolInterceptor, SwitchTypeOK
  <2> QED BY <1>2, <2>1 DEF poolInterceptor, SwitchTypeOK, switchVars, submitVars, Dialled
<1>3. ASSUME NEW s \in Shares, MineShare(s)
      PROVE  SwitchTypeOK' /\ UNCHANGED switchVars
  BY <1>3 DEF MineShare, SwitchTypeOK, switchVars, Dialled
<1>4. ASSUME NEW s \in Shares, Register(s)
      PROVE  SwitchTypeOK' /\ UNCHANGED switchVars
  BY <1>4 DEF Register, getConn, SwitchTypeOK, switchVars, creditVars, Dialled
<1>5. ASSUME NEW s \in Shares, Write(s)
      PROVE  SwitchTypeOK' /\ UNCHANGED switchVars
  BY <1>5 DEF Write, SwitchTypeOK, switchVars, creditVars, Dialled
<1>6. ASSUME NEW s \in Shares, NEW c \in Conns, NEW ok \in BOOLEAN, Answer(c, s, ok)
      PROVE  SwitchTypeOK' /\ UNCHANGED switchVars
  <2>1. c \in Dialled /\ host[c] \in Hosts /\ GetDest \in Hosts
    BY <1>6, Shape DEF Answer, Answered, SwitchTypeOK, GetDest, getConn
  <2>2. accepted' \subseteq Shares \X Hosts /\ onSubmit' \subseteq Shares \X Hosts \X Difficulties
    BY <1>6, <2>1 DEF Answer, Answered, SwitchTypeOK
  <2> QED BY <1>6, <2>2 DEF Answer, Answered, SwitchTypeOK, switchVars, creditVars, Dialled
<1> QED
  BY <1>1, <1>2, <1>3, <1>4, <1>5, <1>6

LEMMA SwitchKept ==
  ASSUME SwitchInv, [SwitchNext]_routeVars
  PROVE  SwitchInv'
<1>1. CASE UNCHANGED routeVars
  <2>1. SwitchTypeOK'
    BY <1>1 DEF SwitchInv, SwitchTypeOK, Dialled, routeVars, switchVars, submitVars, creditVars
  <2> QED BY <1>1, <2>1, SubmitsSafe DEF routeVars
<1>2. ASSUME NEW w \in Callers,
             \/ \E h \in Hosts : SetDest(w, h)
             \/ Load(w) \/ SetCached(w) \/ ResendCurrent(w) \/ ResendEnds(w) \/ Dial(w)
             \/ DialFails(w) \/ ResendNew(w) \/ ResendNewEnds(w) \/ SetNew(w) \/ Store(w)
      PROVE  SwitchInv'
  BY <1>2, SetDestSafe, LoadSafe, SetCachedSafe, ResendCurrentSafe, ResendEndsSafe, DialSafe,
     DialFailsSafe, ResendNewSafe, ResendNewEndsSafe, SetNewSafe, StoreSafe
<1>3. CASE \/ TellDifficulty
           \/ \E d \in Difficulties : poolInterceptor(d)
           \/ \E s \in Shares : \/ MineShare(s) \/ Register(s) \/ Write(s)
                                \/ \E c \in Conns, ok \in BOOLEAN : Answer(c, s, ok)
  BY <1>3, SubmitTypes, SubmitsSafe DEF SwitchInv
<1> QED
  BY <1>1, <1>2, <1>3 DEF SwitchNext

\* Whatever the order the two calls' steps come in, the variables keep their types.
THEOREM SwitchTypeCorrect == SwitchSpec => []SwitchTypeOK
<1>1. SwitchInv => SwitchTypeOK
  BY DEF SwitchInv
<1> QED
  BY <1>1, InitSwitch, SwitchKept, PTL DEF SwitchSpec

LEMMA SettledWhenIdle == SwitchInv => SwitchesSettle
BY DEF SwitchInv, Resending, Cached, Uncached, Unseen, SwitchesSettle

\* When the calls of SetDest are over, the current connection has been resent since another
\* one was in use, every connection is being read, and only a destination two calls were
\* looking for at once has a connection outside the cache (pool_conn_pool.go:38 to :97).
THEOREM Settled == SwitchSpec => []SwitchesSettle
<1> QED
  BY SettledWhenIdle, InitSwitch, SwitchKept, PTL DEF SwitchSpec
-----------------------------------------------------------------------------
(* The shares.                                                              *)

\* What the shares depend on besides their own variables.
creditContext == <<current, Dialled, moved, submitVars, difficulty, mined, retuned>>

LEMMA CreditsStill ==
  ASSUME CreditInv, UNCHANGED creditContext
  PROVE  CreditInv'
BY DEF creditContext, submitVars, CreditInv, Tracked

LEMMA InitCredit == SwitchInit => CreditInv
<1> SUFFICES ASSUME SwitchInit PROVE CreditInv
  OBVIOUS
<1>1. /\ results = {} /\ owed = {} /\ onSubmit = {} /\ accepted = {}
      /\ \A s \in Shares : share[s] = "none"
  BY DEF SwitchInit
<1>2. IsFiniteSet(onSubmit)
  BY <1>1, FS_EmptySet
<1> QED
  BY <1>1, <1>2 DEF CreditInv, Tracked

\* A new connection has nothing to answer.
LEMMA DialCredits ==
  ASSUME SwitchInv, CreditInv, NEW w \in Callers, Dial(w)
  PROVE  CreditInv'
<1>1. /\ UNCHANGED <<current, moved, submitVars, creditVars>>
      /\ Dialled' = Dialled \cup {Cardinality(Dialled) + 1}
  BY DEF Dial, Dialled
<1>2. results \subseteq Dialled \X Shares /\ owed \subseteq Dialled \X Shares
      /\ current \in Dialled
  BY DEF SwitchInv, SwitchTypeOK
<1>3. /\ UNCHANGED <<share, results, owed, onSubmit, accepted, moved, current,
                     difficulty, mined, retuned>>
      /\ \A s : \A c \in Dialled' \ Dialled : <<c, s>> \notin results /\ <<c, s>> \notin owed
      /\ Dialled \subseteq Dialled'
  BY <1>1, <1>2 DEF submitVars, creditVars
<1>4. ASSUME NEW s \in Shares
      PROVE  Tracked(s)'
  <2>1. Tracked(s)
    BY DEF CreditInv
  <2>2. (share[s] \in {"registered", "written"} =>
          \E c \in Dialled : /\ \A b \in Dialled : <<b, s>> \in results <=> b = c
                             /\ s \notin moved => c = current)'
    BY <1>3, <2>1 DEF Tracked
  <2>3. (share[s] \in {"none", "mined"} => \A c \in Dialled : <<c, s>> \notin results)'
        /\ (share[s] # "written" => \A c \in Dialled : <<c, s>> \notin owed)'
        /\ (\A b, c \in Dialled : <<b, s>> \in owed /\ <<c, s>> \in owed => b = c)'
        /\ (share[s] = "written" =>
              \A c \in Dialled : <<c, s>> \in owed /\ s \notin moved => c = current)'
    BY <1>3, <2>1 DEF Tracked
  <2> QED BY <1>3, <2>1, <2>2, <2>3 DEF Tracked
<1> QED
  BY <1>3, <1>4 DEF CreditInv

\* A switch: the shares under way are among the moved ones from now on.
LEMMA SwitchCredits ==
  ASSUME SwitchInv, CreditInv, NEW w \in Callers, SetCached(w) \/ SetNew(w)
  PROVE  CreditInv'
<1>1. /\ UNCHANGED <<share, results, owed, onSubmit, accepted, difficulty, mined, retuned>>
      /\ Dialled' = Dialled
      /\ moved \subseteq moved'
      /\ current' = current \/ \A s \in Shares :
                                 share[s] \in {"registered", "written"} => s \in moved'
  BY DEF SetCached, SetNew, MakesCurrent, submitVars, creditVars, Dialled
<1>2. ASSUME NEW s \in Shares
      PROVE  Tracked(s)'
  BY <1>1 DEF CreditInv, Tracked
<1> QED
  BY <1>1, <1>2 DEF CreditInv

LEMMA MineCredits ==
  ASSUME SwitchInv, CreditInv, NEW s \in Shares, MineShare(s)
  PROVE  CreditInv'
<1>1. /\ UNCHANGED <<Dialled, current, results, owed, onSubmit, accepted, moved, difficulty>>
      /\ share[s] = "none" /\ share'[s] = "mined" /\ mined'[s] = knows
      /\ \A r \in Shares \ {s} : share'[r] = share[r] /\ mined'[r] = mined[r]
      /\ retuned \subseteq retuned' /\ (s \notin retuned' => knows = difficulty)
  BY DEF MineShare, SwitchInv, SwitchTypeOK, switchVars, Dialled
<1>2. ASSUME NEW r \in Shares
      PROVE  Tracked(r)'
  <2>1. CASE r = s
    BY <1>1, <2>1 DEF CreditInv, Tracked
  <2>2. CASE r # s
    BY <1>1, <2>2 DEF CreditInv, Tracked
  <2> QED BY <2>1, <2>2
<1>3. ASSUME NEW x \in onSubmit, x[1] \notin retuned'
      PROVE  x[3] = mined'[x[1]]
  <2>1. x[1] \in Shares /\ x[1] # s
    BY <1>1 DEF CreditInv, Tracked, SwitchInv, SwitchTypeOK
  <2>2. mined'[x[1]] = mined[x[1]] /\ x[1] \notin retuned
    BY <1>1, <1>3, <2>1
  <2>3. \A y \in onSubmit : y[1] \notin retuned => y[3] = mined[y[1]]
    BY DEF CreditInv
  <2>4. x[3] = mined[x[1]]
    BY <2>2, <2>3
  <2> QED BY <2>2, <2>4
<1> QED
  BY <1>1, <1>2, <1>3 DEF CreditInv

LEMMA RetuneCredits ==
  ASSUME SwitchInv, CreditInv, NEW d \in Difficulties, poolInterceptor(d)
  PROVE  CreditInv'
<1>1. /\ UNCHANGED <<Dialled, current, share, results, owed, onSubmit, accepted, moved, mined>>
      /\ retuned' = retuned \cup {s \in Shares : share[s] \notin {"none", "answered"}}
  BY DEF poolInterceptor, switchVars, submitVars, Dialled
<1>2. ASSUME NEW s \in Shares
      PROVE  Tracked(s)'
  BY <1>1 DEF CreditInv, Tracked
<1> QED
  BY <1>1, <1>2 DEF CreditInv

LEMMA RegisterCredits ==
  ASSUME SwitchInv, CreditInv, NEW s \in Shares, Register(s)
  PROVE  CreditInv'
<1>1. /\ UNCHANGED <<Dialled, current, owed, onSubmit, accepted, moved, difficulty, mined, retuned>>
      /\ share[s] = "mined" /\ share'[s] = "registered"
      /\ \A r \in Shares \ {s} : share'[r] = share[r]
      /\ results' = results \cup {<<current, s>>} /\ current \in Dialled
  BY DEF Register, getConn, SwitchInv, SwitchTypeOK, switchVars, creditVars, Dialled
<1>2. ASSUME NEW r \in Shares
      PROVE  Tracked(r)'
  <2>1. CASE r = s
    <3>1. Tracked(s)
      BY DEF CreditInv
    <3>2. \A b \in Dialled : <<b, s>> \in results' <=> b = current
      BY <1>1, <3>1 DEF Tracked
    <3> QED BY <1>1, <2>1, <3>1, <3>2 DEF Tracked
  <2>2. CASE r # s
    <3>1. \A b : <<b, r>> \in results' <=> <<b, r>> \in results
      BY <1>1, <2>2
    <3> QED BY <1>1, <2>2, <3>1 DEF CreditInv, Tracked
  <2> QED BY <2>1, <2>2
<1> QED
  BY <1>1, <1>2 DEF CreditInv

LEMMA WriteCredits ==
  ASSUME SwitchInv, CreditInv, NEW s \in Shares, Write(s)
  PROVE  CreditInv'
<1>1. /\ UNCHANGED <<Dialled, current, results, onSubmit, accepted, moved, difficulty, mined, retuned>>
      /\ share[s] = "registered" /\ share'[s] = "written"
      /\ \A r \in Shares \ {s} : share'[r] = share[r]
      /\ owed' = owed \cup {<<current, s>>} /\ current \in Dialled
  BY DEF Write, SwitchInv, SwitchTypeOK, switchVars, creditVars, Dialled
<1>2. ASSUME NEW r \in Shares
      PROVE  Tracked(r)'
  <2>1. CASE r = s
    <3>1. Tracked(s)
      BY DEF CreditInv
    <3>2. \A b \in Dialled : <<b, s>> \in owed' <=> b = current
      BY <1>1, <3>1 DEF Tracked
    <3> QED BY <1>1, <2>1, <3>1, <3>2 DEF Tracked
  <2>2. CASE r # s
    <3>1. \A b : <<b, r>> \in owed' <=> <<b, r>> \in owed
      BY <1>1, <2>2
    <3> QED BY <1>1, <2>2, <3>1 DEF CreditInv, Tracked
  <2> QED BY <2>1, <2>2
<1> QED
  BY <1>1, <1>2 DEF CreditInv

\* An answer finds the handler at the connection that owes it, and that is the current
\* one unless the miner has been switched since the registration.
LEMMA AnswerCredits ==
  ASSUME SwitchInv, CreditInv, NEW s \in Shares, NEW c \in Conns, NEW ok \in BOOLEAN,
         Answer(c, s, ok)
  PROVE  CreditInv'
<1> DEFINE counts == ok /\ <<c, s>> \in results
           credit == <<s, GetDest, difficulty>>
<1>1. /\ UNCHANGED <<Dialled, current, moved, difficulty, mined, retuned>>
      /\ <<c, s>> \in owed /\ owed' = owed \ {<<c, s>>}
      /\ share'[s] = "answered" /\ \A r \in Shares \ {s} : share'[r] = share[r]
      /\ results' = results \ {<<c, s>>}
      /\ accepted' = IF ok THEN accepted \cup {<<s, host[c]>>} ELSE accepted
      /\ onSubmit' = IF counts THEN onSubmit \cup {credit} ELSE onSubmit
  BY DEF Answer, Answered, SwitchInv, SwitchTypeOK, switchVars, creditVars, Dialled
<1>2. c \in Dialled /\ GetDest \in Hosts /\ host[c] \in Hosts /\ difficulty \in Difficulties
  BY <1>1, Shape DEF SwitchInv, SwitchTypeOK, GetDest, getConn
<1>3. /\ share[s] = "written" /\ (\A b \in Dialled : <<b, s>> \in owed => b = c)
      /\ (\A x \in onSubmit : x[1] # s) /\ (\A y \in accepted : y[1] # s)
      /\ s \notin retuned => mined[s] = difficulty
  BY <1>1, <1>2 DEF CreditInv, Tracked
<1>4. s \notin moved => c = current /\ <<c, s>> \in results
  BY <1>1, <1>2, <1>3 DEF CreditInv, Tracked
<1>5. credit[1] = s /\ credit[3] = difficulty
  OBVIOUS
<1>6. ASSUME NEW r \in Shares
      PROVE  Tracked(r)'
  <2>1. CASE r = s
    <3>1. \A x, y \in onSubmit' : x[1] = s /\ y[1] = s => x = y
      BY <1>1, <1>3
    <3>2. \A b \in Dialled : <<b, s>> \notin owed'
      BY <1>1, <1>3
    <3> QED BY <1>1, <2>1, <3>1, <3>2 DEF Tracked
  <2>2. CASE r # s
    <3>1. \A b : /\ <<b, r>> \in owed' <=> <<b, r>> \in owed
                 /\ <<b, r>> \in results' <=> <<b, r>> \in results
      BY <1>1, <2>2
    <3>2. \A x : x[1] = r => (x \in onSubmit' <=> x \in onSubmit)
      BY <1>1, <1>5, <2>2
    <3>3. \A y : y[1] = r => (y \in accepted' <=> y \in accepted)
      BY <1>1, <2>2
    <3>4. Tracked(r) /\ share'[r] = share[r]
      BY <1>1, <2>2 DEF CreditInv
    <3>5. /\ \A x, y \in onSubmit' : x[1] = r /\ y[1] = r => x = y
          /\ share[r] # "answered" => /\ \A x \in onSubmit' : x[1] # r
                                      /\ \A y \in accepted' : y[1] # r
      BY <3>2, <3>3, <3>4 DEF Tracked
    <3> HIDE DEF counts, credit
    <3> QED BY <1>1, <3>1, <3>4, <3>5 DEF Tracked
  <2> QED BY <2>1, <2>2
<1>7. ASSUME NEW r \in Shares \ moved, NEW h \in Hosts
      PROVE  <<r, h>> \in accepted' <=> \E d \in Difficulties : <<r, h, d>> \in onSubmit'
  <2>1. CASE r = s
    <3>1. counts = ok /\ GetDest = host[c]
      BY <1>4, <2>1 DEF GetDest, getConn
    <3>2. <<r, h>> \in accepted' <=> ok /\ h = host[c]
      BY <1>1, <1>3, <2>1
    <3>3. \A d : <<r, h, d>> \in onSubmit' <=> ok /\ h = host[c] /\ d = difficulty
      BY <1>1, <1>3, <2>1, <3>1
    <3> QED BY <1>2, <3>2, <3>3
  <2>2. CASE r # s
    <3>1. <<r, h>> \in accepted' <=> <<r, h>> \in accepted
      BY <1>1, <2>2
    <3>2. \A d : <<r, h, d>> \in onSubmit' <=> <<r, h, d>> \in onSubmit
      BY <1>1, <2>2
    <3> QED BY <3>1, <3>2 DEF CreditInv
  <2> QED BY <2>1, <2>2
<1>8. ASSUME NEW x \in onSubmit'
      PROVE  /\ \E y \in accepted' : x[1] = y[1]
             /\ x[1] \notin retuned => x[3] = mined[x[1]]
  <2>1. CASE x \in onSubmit
    <3>1. \A z \in onSubmit : /\ \E y \in accepted : z[1] = y[1]
                              /\ z[1] \notin retuned => z[3] = mined[z[1]]
      BY DEF CreditInv
    <3>2. accepted \subseteq accepted'
      BY <1>1
    <3> QED BY <2>1, <3>1, <3>2
  <2>2. CASE x \notin onSubmit
    <3>1. ok /\ x = credit /\ <<s, host[c]>> \in accepted'
      BY <1>1, <1>8, <2>2
    <3>2. x[1] = s /\ x[3] = difficulty
      BY <1>5, <3>1
    <3> QED BY <1>3, <3>1, <3>2
  <2> QED BY <2>1, <2>2
<1>9. IsFiniteSet(onSubmit')
  <2>1. IsFiniteSet(onSubmit) /\ IsFiniteSet(onSubmit \cup {credit})
    BY FS_AddElement DEF CreditInv
  <2> QED BY <1>1, <2>1
<1> QED
  BY <1>1, <1>6, <1>7, <1>8, <1>9 DEF CreditInv

LEMMA CreditStep ==
  ASSUME SwitchInv, CreditInv, [SwitchNext]_routeVars
  PROVE  CreditInv'
<1>1. CASE UNCHANGED routeVars
  BY <1>1, CreditsStill DEF creditContext, routeVars, switchVars, creditVars, Dialled
<1>2. ASSUME NEW w \in Callers,
             \/ \E h \in Hosts : SetDest(w, h)
             \/ Load(w) \/ ResendCurrent(w) \/ ResendEnds(w) \/ DialFails(w)
             \/ ResendNew(w) \/ ResendNewEnds(w) \/ Store(w)
      PROVE  CreditInv'
  <2>1. UNCHANGED <<host, current, moved, submitVars, creditVars>>
    BY <1>2 DEF SetDest, Load, ResendCurrent, ResendEnds, DialFails, ResendNew,
                ResendNewEnds, Store
  <2> QED BY <2>1, CreditsStill DEF creditContext, creditVars, Dialled
<1>3. ASSUME NEW w \in Callers, SetCached(w) \/ Dial(w) \/ SetNew(w)
      PROVE  CreditInv'
  BY <1>3, SwitchCredits, DialCredits
<1>4. CASE TellDifficulty
  <2>1. UNCHANGED <<current, Dialled, moved, submitVars, difficulty, mined, retuned>>
    BY <1>4 DEF TellDifficulty, switchVars, submitVars, Dialled
  <2> QED BY <2>1, CreditsStill DEF creditContext
<1>5. CASE \/ \E d \in Difficulties : poolInterceptor(d)
           \/ \E s \in Shares : \/ MineShare(s) \/ Register(s) \/ Write(s)
                                \/ \E c \in Conns, ok \in BOOLEAN : Answer(c, s, ok)
  BY <1>5, RetuneCredits, MineCredits, RegisterCredits, WriteCredits, AnswerCredits
<1> QED
  BY <1>1, <1>2, <1>3, <1>4, <1>5 DEF SwitchNext

\* A share has one count at most, so that counting the shares counts the calls.
LEMMA CountedOnce ==
  ASSUME SwitchInv, CreditInv
  PROVE  Cardinality({x[1] : x \in onSubmit}) = Cardinality(onSubmit)
<1> DEFINE counted == {x[1] : x \in onSubmit}
           f == [x \in onSubmit |-> x[1]]
<1>1. \A x \in onSubmit : x[1] \in Shares
  BY DEF SwitchInv, SwitchTypeOK
<1>2. f \in Injection(onSubmit, counted)
  <2>1. \A x, y \in onSubmit : x[1] = y[1] => x = y
    BY <1>1 DEF CreditInv, Tracked
  <2> QED BY <2>1 DEF Injection, IsInjective
<1>3. f \in Surjection(onSubmit, counted)
  BY DEF Surjection
<1>4. ExistsBijection(onSubmit, counted)
  BY <1>2, <1>3 DEF ExistsBijection, Bijection
<1> QED
  BY <1>4, FS_Bijection DEF CreditInv

LEMMA CreditsFollow == SwitchInv /\ CreditInv => SharesCredited
BY CountedOnce DEF CreditInv, SharesCredited

\* While the miner is not switched between the registration of a share's handler and the
\* answer, the share counts exactly when it was accepted, at the destination that accepted
\* it; it counts once, and with the difficulty it was mined at unless that changed on its
\* way (miner_model.go:138 to :160), whatever calls of SetDest run beside it.
THEOREM Credited == SwitchSpec => []SharesCredited
<1> QED
  BY CreditsFollow, InitSwitch, InitCredit, SwitchKept, CreditStep, PTL DEF SwitchSpec
-----------------------------------------------------------------------------
(* The runs: a session, or switches.                                        *)

LEMMA SessionKept ==
  ASSUME SessionInv, PeerStep \/ SessionStep
  PROVE  SessionInv'
<1>1. CASE PeerStep
  <2>1. ASSUME NEW q \in theirs.asked, NEW error \in BOOLEAN, PoolAnswers(q, error)
        PROVE  SessionInv'
    BY <2>1, PoolAnswersSafe
  <2> QED BY <1>1, <2>1, MinerSays, MinerLeavesSafe, PoolSays, PoolLeavesSafe DEF PeerStep
<1>2. CASE SessionStep
  <2>1. PeekFails \/ DialDefaultFails \/ LoginFails => Login /\ Closes
    BY DEF PeekFails, DialDefaultFails, LoginFails, At, Login
  <2>2. PeekFails \/ DialDefaultFails \/ LoginFails => SessionInv'
    BY <2>1, ClosesSafe
  <2>3. Peek \/ DialDefault \/ Subscribed \/ Authorized \/ Hold \/ StartSession => SessionInv'
    BY PeekSafe, DialDefaultSafe, SubscribedSafe, AuthorizedSafe, HoldSafe, StartSessionSafe
  <2>4. ChangesDest \/ DestChanged \/ ChangeDestFails \/ ContextDone \/ TakeError => SessionInv'
    BY ServesSafe
  <2>5. ReadPool \/ Emit \/ RegisterWait => SessionInv'
    BY ReadPoolSafe, EmitSafe, RegisterWaitSafe
  <2>6. ReadConfigure \/ ReadHandshake \/ ConfigureResult \/ ConnectFails \/ StartRelays => SessionInv'
    BY ReadConfigureSafe, ReadHandshakeSafe, ConfigureResultSafe, ConnectFailsSafe, StartRelaysSafe
  <2>7. RelayUp \/ RelayDown \/ RelayDownFails => SessionInv'
    BY RelayUpSafe, RelayDownSafe, RelayDownFailsSafe
  <2> QED BY <1>2, <2>2, <2>3, <2>4, <2>5, <2>6, <2>7 DEF SessionStep
<1> QED
  BY <1>1, <1>2

BothInv == SessionInv /\ SwitchInv /\ CreditInv

LEMMA BothInit == Init => BothInv
BY InitSession, InitSwitch, InitCredit DEF Init, BothInv

LEMMA BothStep ==
  ASSUME BothInv, [Next]_all
  PROVE  BothInv'
<1>1. SessionInv /\ SwitchInv /\ CreditInv
  BY DEF BothInv
<1>2. CASE UNCHANGED all
  <2>1. UNCHANGED sessionVars /\ UNCHANGED routeVars
    BY <1>2 DEF all
  <2> QED BY <1>1, <2>1, SessionStill, SwitchKept, CreditStep DEF BothInv
<1>3. CASE PeerStep \/ SessionStep
  <2>1. UNCHANGED routeVars
    BY <1>3 DEF PeerStep, SessionStep, Relays
  <2> QED BY <1>1, <1>3, <2>1, SessionKept, SwitchKept, CreditStep DEF BothInv
<1>4. CASE SwitchStep
  <2>1. UNCHANGED sessionVars /\ SwitchNext
    BY <1>4 DEF SwitchStep, Routes, SwitchNext
  <2> QED BY <1>1, <2>1, SessionStill, SwitchKept, CreditStep DEF BothInv
<1> QED
  BY <1>2, <1>3, <1>4 DEF Next

LEMMA BothTypes == BothInv => TypeOK
<1> SUFFICES ASSUME BothInv PROVE TypeOK
  OBVIOUS
<1>1. SessionShape /\ SwitchTypeOK
  BY DEF BothInv, SessionInv, SwitchInv
<1>2. MaxLines \in Nat /\ 1..MaxLines \subseteq SessionIds /\ Len(emitted) <= 1
  <2>1. Len(emitted) <= 1
    <3>1. CASE emitted = <<>>
      <4>1. Len(<<>>) = 0
        OBVIOUS
      <4> QED BY <3>1, <4>1
    <3>2. ASSUME NEW m, emitted = <<m>>
          PROVE  Len(emitted) <= 1
      <4>1. Len(<<m>>) = 1
        OBVIOUS
      <4> QED BY <3>2, <4>1
    <3> QED BY <1>1, <3>1, <3>2 DEF SessionShape, QueueShape
  <2> QED BY <2>1, SessionAssumption DEF SessionIds
<1>3. SessionTypeOK
  BY <1>1, <1>2, Fields DEF SessionTypeOK, SessionShape, RunShape, Nonces
<1> QED
  BY <1>1, <1>3 DEF TypeOK

LEMMA BothSound == BothInv => SessionSound
<1> SUFFICES ASSUME BothInv PROVE SessionSound
  OBVIOUS
<1>1. SessionShape /\ Stages /\ LoggingIn /\ Counted /\ Delivered /\ Extranonce
  BY DEF BothInv, SessionInv
<1>2. \A i : Count(<<>>, AnswersTo(i)) = 0 /\ Count(<<>>, ResultsOf(i)) = 0
  BY CountEmpty
<1>3. ASSUME NEW i \in SessionIds
      PROVE  told[i] <= Cardinality({i} \cap miner.asked) + Cardinality({i} \cap (2..lastRequestId))
  <2>1. told[i] \in Nat /\ LinesOf(i) \in Nat /\ OnTheWay(i) \in Nat
    BY <1>1, Numbers DEF SessionShape, RunShape
  <2>2. \A S : Cardinality({i} \cap S) = One(i \in S)
    <3>1. ASSUME NEW S PROVE Cardinality({i} \cap S) = One(i \in S)
      <4>1. CASE i \in S
        <5>1. {i} \cap S = {i}
          BY <4>1
        <5> QED BY <4>1, <5>1, FS_Singleton DEF One
      <4>2. CASE i \notin S
        <5>1. {i} \cap S = {}
          BY <4>2
        <5> QED BY <4>2, <5>1, FS_EmptySet DEF One
      <4> QED BY <4>1, <4>2
    <3> QED BY <3>1
  <2>3. CASE Login
    <3>1. told[i] = 0
      BY <1>1, <2>3 DEF LoggingIn
    <3> QED BY <2>2, <3>1 DEF One
  <2>4. CASE ~Login
    <3>1. MayBeTold(i) <= One(i \in miner.asked) + One(i \in 2..lastRequestId)
      BY <1>1, <2>4 DEF Counted
    <3>2. PICK n \in Nat : MayBeTold(i) = told[i] + n
      <4>1. PICK rest \in Nat : rest = IF Done THEN 0 ELSE One(<<i, "miner">> \in theirs.asked)
                                       + One(<<i, "node">> \in theirs.asked) + OnTheWay(i)
        BY <2>1 DEF One
      <4>2. PICK c \in Nat : c = One(Configures(i))
        BY DEF One
      <4>3. MayBeTold(i) = told[i] + LinesOf(i) + c + rest
        BY <4>1, <4>2 DEF MayBeTold
      <4>4. told[i] \in Nat /\ LinesOf(i) \in Nat /\ c \in Nat /\ rest \in Nat
        BY <2>1
      <4>5. PICK t \in Nat, l \in Nat : t = told[i] /\ l = LinesOf(i)
        BY <4>4
      <4>6. MayBeTold(i) = t + (l + c + rest) /\ l + c + rest \in Nat
        BY <4>3, <4>4, <4>5
      <4> QED BY <4>5, <4>6
    <3>3. PICK b \in Nat : b = One(i \in miner.asked) + One(i \in 2..lastRequestId)
      BY DEF One
    <3>4. told[i] <= b
      BY <2>1, <3>1, <3>2, <3>3
    <3> QED BY <2>2, <3>3, <3>4
  <2> QED BY <2>3, <2>4
<1>4. ASSUME Relayed, NEW i \in answers
      PROVE  told[i] > 0
  BY <1>1, <1>2, <1>4 DEF Relayed, Delivered
<1>5. AnswersMatch
  BY <1>3, <1>4 DEF AnswersMatch
<1>6. ExtranonceFresh
  <2>1. ASSUME Relayed, ~early PROVE nonce = theirs.nonce
    <3>1. PICK n \in Nonces : MessagesLead(<<>>, nonce, n) /\ Leads(n)
      BY <1>1, <2>1 DEF Relayed, Extranonce
    <3>2. PICK k \in Nonces : MessagesLead(<<>>, n, k) /\ LinesLead(<<>>, 0, k, theirs.nonce)
      BY <2>1, <3>1 DEF Relayed, Leads
    <3>3. nonce = n /\ n = k
      BY <3>1, <3>2, LeadEmpty
    <3>4. k = theirs.nonce
      BY <3>2 DEF LinesLead
    <3> QED BY <3>3, <3>4
  <2> QED BY <2>1 DEF ExtranonceFresh
<1>7. SharesNamed
  BY <1>1 DEF SharesNamed, SessionShape, PoolShape
<1> QED
  BY <1>5, <1>6, <1>7 DEF SessionSound

\* A session and its switches keep their types: no id outruns the requests there are, and
\* one message at most is between the pool's reader and the miner's queue.
THEOREM SessionTypeCorrect == Spec => []TypeOK
<1> QED
  BY BothInit, BothStep, BothTypes, PTL DEF Spec

\* Whatever miner and pool say, in whatever order, the miner is told one result for a
\* request at most, save the answers to the connection's own requests, and never loses the
\* pool's; it mines with the pool's extranonce unless that changed before the relays
\* started; and the pool gets shares under the destination's user only
\* (stratum_v1_pool_conn.go:97, :170, :283; stratum_v1_miner_model.go:61, :101).
THEOREM SessionIsSound == Spec => []SessionSound
<1> QED
  BY BothInit, BothStep, BothSound, PTL DEF Spec

\* What is true of the switches alone is true of the run's switches.
THEOREM SwitchesInRun == Spec => [](SwitchesSettle /\ SharesCredited)
<1>1. BothInv => SwitchesSettle
  BY SettledWhenIdle DEF BothInv
<1>2. BothInv => SharesCredited
  BY CreditsFollow DEF BothInv
<1> QED
  BY <1>1, <1>2, BothInit, BothStep, PTL DEF Spec
=============================================================================
