---------------------------- MODULE RoutingProofs ----------------------------
(***************************************************************************)
(* A miner is kept at the right pool: for any number of pools, jobs and    *)
(* switches and any capacity of the channels.                              *)
(***************************************************************************)
EXTENDS StratumRouting, TLAPS, SequenceTheorems

-----------------------------------------------------------------------------
(* The inductive invariant.                                                 *)

Walks(w) == pc[w] \in {"walk", "push"}

\* Jobs carry a number, whether they are cached, held or about to be resent.
Carried ==
    /\ \A p \in Pools : /\ size[p] <= made
                        /\ reader[p] \in {"check", "emit"} => held[p] \in Messages
                        /\ \A n \in 1..size[p] : jobs[p][n] # 0
    /\ \A w \in Workers : Walks(w) => \A n \in 1..end[w] : jobs[on[w]][n] # 0
    /\ \A w \in Workers : pc[w] = "push" => carry[w] # 0 /\ step[w] > 1

\* A connection that is dialled is known to SetDest alone; a cached one that SetDest
\* works on is the current one already.
Worked ==
    /\ conn \in cached /\ on["run"] \in cached /\ Default \in cached
    /\ from \in cached \cup {NoPool}
    /\ pc["set"] \in {"write", "register", "wait", "open"} => on["set"] \notin cached
    /\ pc["set"] \in {"hold"} \cup Resending /\ on["set"] \in cached => on["set"] = conn
    /\ pc["run"] # "done" => from = NoPool

\* SetDest has made a connection the current one and owes it a resend.
Due == pc["set"] \in {"hold", "setup"} /\ on["set"] = conn

\* The extranonce of the current pool is on its way to the miner or is the miner's, and
\* the copy loop waits for no other pool; so it is on its way where SetDest will lead.
HasSetup(s) == \E k \in DOMAIN s : s[k].kind = Setup
SetupComes ==
    /\ ~Due => HasSetup(ch[conn]) \/ (miner.setup = conn /\ from \in {NoPool, conn})
    /\ Walks("set") /\ on["set"] # conn => HasSetup(ch[on["set"]])

\* Jobs are numbered as they come: the last one of a cache is its newest, and a reader
\* has no older one in its hands.
Newest(p) == jobs[p][size[p]]
Ordered ==
    \A p \in Pools : /\ \A n \in Jobs : jobs[p][n] <= made
                     /\ size[p] = 0 => \A n \in Jobs : jobs[p][n] = 0
                     /\ size[p] > 0 => \A n \in Jobs : jobs[p][n] <= Newest(p)
                     /\ reader[p] \in {"check", "emit"} /\ held[p].kind = "job" =>
                            size[p] > 0 /\ held[p].job = Newest(p)

\* A resend during which no job came: the length and the elements are those of the cache.
Whole ==
    \A w \in Workers : Walks(w) /\ on[w] \notin raced =>
        /\ end[w] = size[on[w]] /\ step[w] <= end[w] + 1
        /\ pc[w] = "push" => carry[w] = jobs[on[w]][step[w] - 1]

\* The newest job of a pool is still to be resent, in the hands of a reader that will
\* pass it on, or the last job of the channel; or it has come.
Lasts(s, j) == \E k \in DOMAIN s : /\ s[k].kind = "job" /\ s[k].job = j
                                   /\ \A l \in DOMAIN s : l > k => s[l].kind # "job"
NoJob(s) == \A k \in DOMAIN s : s[k].kind # "job"
ToBeResent(p) == \E w \in Workers : /\ Walks(w) /\ on[w] = p
                                    /\ step[w] <= end[w] \/ (pc[w] = "push" /\ carry[w] = Newest(p))
InHand(p) == /\ reader[p] = "emit" \/ (reader[p] = "check" /\ reading[p])
             /\ held[p].kind = "job"
Comes(p) == ToBeResent(p) \/ InHand(p) \/ Lasts(ch[p], Newest(p))
Came(p) == NoJob(ch[p]) /\ miner.job = Newest(p) /\ from \in {NoPool, p}
Fresh(p) == size[p] > 0 /\ p \notin raced
JobComes ==
    /\ ~Due /\ Fresh(conn) => Comes(conn) \/ Came(conn)
    /\ Walks("set") /\ on["set"] # conn /\ Fresh(on["set"]) => Comes(on["set"])

RoutingInv == /\ TypeOK /\ Carried /\ Worked /\ HoldWindow /\ SetupComes
              /\ Ordered /\ Whole /\ JobComes

-----------------------------------------------------------------------------
(* Messages and channels.                                                   *)

LEMMA MessageKinds ==
  /\ Message(Setup, 0) \in Messages /\ Message(Setup, 0).kind = Setup
  /\ Message(Other, 0) \in Messages /\ Message(Other, 0).kind = Other
  /\ \A n \in Jobs : /\ Message("job", n) \in Messages
                     /\ Message("job", n).kind = "job" /\ Message("job", n).job = n
  /\ \A m \in Messages : m.kind = "job" => m.job \in Jobs
  /\ Setup # "job" /\ Other # "job" /\ Setup # Other
<1>1. Message(Setup, 0).kind = Setup /\ Message(Other, 0).kind = Other
  BY DEF Message
<1>2. Setup # "job" /\ Other # "job" /\ Setup # Other
  BY DEF Setup, Other
<1>3. Message(Setup, 0) \in Messages /\ Message(Other, 0) \in Messages
  BY Zenon DEF Messages
<1>4. \A n \in Jobs : Message("job", n) \in Messages
  BY Zenon DEF Messages
<1>5. \A n \in Jobs : Message("job", n).kind = "job" /\ Message("job", n).job = n
  BY DEF Message
<1>6. ASSUME NEW m \in Messages, m.kind = "job" PROVE m.job \in Jobs
  <2>1. PICK n \in Jobs : m = Message("job", n)
    BY <1>1, <1>2, <1>6, Zenon DEF Messages
  <2> QED BY <2>1, <1>5
<1> QED
  BY <1>1, <1>2, <1>3, <1>4, <1>5, <1>6

\* What is put at the end of a channel: an extranonce stays in it, and so does the last
\* job, unless it is followed by another one.
LEMMA Appended ==
  ASSUME NEW s \in Seq(Messages), NEW m \in Messages, NEW j
  PROVE  /\ Append(s, m) \in Seq(Messages)
         /\ Len(Append(s, m)) = Len(s) + 1
         /\ HasSetup(s) \/ m.kind = Setup => HasSetup(Append(s, m))
         /\ m.kind = "job" /\ m.job = j => Lasts(Append(s, m), j)
         /\ m.kind # "job" /\ Lasts(s, j) => Lasts(Append(s, m), j)
         /\ m.kind # "job" /\ NoJob(s) => NoJob(Append(s, m))
<1> DEFINE t == Append(s, m)
<1>1. /\ t \in Seq(Messages) /\ Len(t) = Len(s) + 1
      /\ DOMAIN s = 1..Len(s) /\ DOMAIN t = 1..(Len(s) + 1) /\ Len(s) \in Nat
      /\ \A k \in 1..Len(s) : t[k] = s[k]
      /\ t[Len(s) + 1] = m
  OBVIOUS
<1> HIDE DEF t
<1>2. HasSetup(s) \/ m.kind = Setup => HasSetup(t)
  BY <1>1 DEF HasSetup
<1>3. m.kind = "job" /\ m.job = j => Lasts(t, j)
  BY <1>1 DEF Lasts
<1>4. m.kind # "job" /\ Lasts(s, j) => Lasts(t, j)
  BY <1>1 DEF Lasts
<1>5. m.kind # "job" /\ NoJob(s) => NoJob(t)
  BY <1>1 DEF NoJob
<1> QED
  BY <1>1, <1>2, <1>3, <1>4, <1>5 DEF t

\* What is taken from a channel is the extranonce, the last job, or there is more to come.
LEMMA Received ==
  ASSUME NEW s \in Seq(Messages), s # <<>>, NEW j
  PROVE  /\ Tail(s) \in Seq(Messages) /\ Len(Tail(s)) <= Len(s) /\ Head(s) \in Messages
         /\ HasSetup(s) => Head(s).kind = Setup \/ HasSetup(Tail(s))
         /\ Lasts(s, j) => \/ Lasts(Tail(s), j)
                           \/ NoJob(Tail(s)) /\ Head(s).kind = "job" /\ Head(s).job = j
         /\ NoJob(s) => NoJob(Tail(s)) /\ Head(s).kind # "job"
<1> DEFINE t == Tail(s)
           h == Head(s)
<1>1. /\ t \in Seq(Messages) /\ Len(s) \in Nat \ {0} /\ Len(t) = Len(s) - 1
      /\ DOMAIN s = 1..Len(s) /\ DOMAIN t = 1..(Len(s) - 1)
      /\ \A k \in 1..(Len(s) - 1) : t[k] = s[k + 1]
      /\ h = s[1] /\ h \in Messages
  OBVIOUS
<1> HIDE DEF t, h
<1>2. HasSetup(s) => h.kind = Setup \/ HasSetup(t)
  <2> SUFFICES ASSUME NEW k \in DOMAIN s, s[k].kind = Setup, k # 1
               PROVE  \E l \in DOMAIN t : t[l].kind = Setup
    BY <1>1 DEF HasSetup
  <2>1. k - 1 \in DOMAIN t /\ t[k - 1] = s[k]
    BY <1>1
  <2> QED BY <2>1
<1>3. Lasts(s, j) => Lasts(t, j) \/ (NoJob(t) /\ h.kind = "job" /\ h.job = j)
  <2> SUFFICES ASSUME NEW k \in DOMAIN s, s[k].kind = "job", s[k].job = j,
                      \A l \in DOMAIN s : l > k => s[l].kind # "job"
               PROVE  Lasts(t, j) \/ (NoJob(t) /\ h.kind = "job" /\ h.job = j)
    BY DEF Lasts
  <2>1. \A l \in DOMAIN t : l + 1 > k => t[l].kind # "job"
    BY <1>1
  <2>2. CASE k = 1
    BY <2>1, <2>2, <1>1 DEF NoJob
  <2>3. CASE k # 1
    <3>1. k - 1 \in DOMAIN t /\ t[k - 1] = s[k]
      BY <1>1, <2>3
    <3>2. \A l \in DOMAIN t : l > k - 1 => t[l].kind # "job"
      BY <2>1, <1>1
    <3> QED BY <3>1, <3>2 DEF Lasts
  <2> QED BY <2>2, <2>3
<1>4. ASSUME NoJob(s) PROVE NoJob(t) /\ h.kind # "job"
  <2>1. s[1].kind # "job"
    BY <1>1, <1>4 DEF NoJob
  <2>2. \A k \in DOMAIN t : k + 1 \in DOMAIN s /\ t[k] = s[k + 1]
    BY <1>1
  <2> QED
    BY <1>1, <1>4, <2>1, <2>2 DEF NoJob
<1> QED
  BY <1>1, <1>2, <1>3, <1>4 DEF t, h

-----------------------------------------------------------------------------
(* The actions, one by one.                                                 *)

LEMMA Actions ==
  ASSUME Next
  PROVE  \/ \E p \in Pools : \/ ReadNotify(p) \/ ReadOther(p) \/ ReadAnswer(p)
                             \/ Check(p) \/ Emit(p) \/ PoolFails(p) \/ Reuse(p) \/ Dial(p)
         \/ \E w \in Workers : Write(w) \/ Register(w) \/ SendSetup(w) \/ Fetch(w) \/ Push(w)
         \/ DialFails \/ Open \/ Hold \/ Release
         \/ Configure \/ Subscribe \/ Authorize \/ Resent \/ Choose \/ Receive
BY DEF Next, Pool, Reader, SetDest, Handshake, RunModel, Resend, Workers

-----------------------------------------------------------------------------
(* Each part of the invariant is kept.                                      *)

\* The types of the variables that actions change or leave alone together.
PoolTypes == conn \in Pools /\ cached \subseteq Pools /\ reading \in [Pools -> BOOLEAN]
CacheTypes == /\ jobs \in [Pools -> [Jobs -> 0..MaxJobs]]
              /\ size \in [Pools -> 0..MaxJobs]
              /\ made \in 0..MaxJobs /\ spoken \in 0..MaxOther /\ raced \subseteq Pools
ReaderTypes == /\ reader \in [Pools -> {"off", "idle", "check", "emit", "dead"}]
               /\ held \in [Pools -> Messages \cup {Nothing}]
ChannelTypes == ch \in [Pools -> Seq(Messages)] /\ \A p \in Pools : Len(ch[p]) <= Cap
RequestTypes == asked \subseteq Pools /\ handler \subseteq Pools
Places == Resending \cup {"new", "idle", "write", "register", "wait", "open", "hold",
                          "subscribe", "authorize", "done", "failed"}
PlaceTypes == pc \in [Workers -> Places]
WalkTypes == /\ on \in [Workers -> Pools]
             /\ step \in [Workers -> 1..(MaxJobs + 2)] /\ end \in [Workers -> 0..MaxJobs]
             /\ carry \in [Workers -> 0..MaxJobs] /\ switches \in 0..MaxSwitches
CopierTypes == /\ from \in Pools \cup {NoPool}
               /\ miner \in [setup : Pools \cup {NoPool}, job : 0..MaxJobs]

LEMMA TypeParts ==
  /\ TypeOK <=> /\ PoolTypes /\ CacheTypes /\ ReaderTypes /\ ChannelTypes /\ RequestTypes
                /\ PlaceTypes /\ WalkTypes /\ CopierTypes
  /\ TypeOK' <=> /\ PoolTypes' /\ CacheTypes' /\ ReaderTypes' /\ ChannelTypes' /\ RequestTypes'
                 /\ PlaceTypes' /\ WalkTypes' /\ CopierTypes'
BY Zenon DEF TypeOK, PoolTypes, CacheTypes, ReaderTypes, ChannelTypes, RequestTypes, PlaceTypes,
      WalkTypes, CopierTypes, Places

LEMMA TypesFramed ==
  /\ PoolTypes /\ UNCHANGED pools => PoolTypes'
  /\ CacheTypes /\ UNCHANGED cache => CacheTypes'
  /\ ReaderTypes /\ UNCHANGED readers => ReaderTypes'
  /\ ChannelTypes /\ UNCHANGED ch => ChannelTypes'
  /\ RequestTypes /\ UNCHANGED requests => RequestTypes'
  /\ PlaceTypes /\ UNCHANGED pc => PlaceTypes'
  /\ WalkTypes /\ UNCHANGED walks => WalkTypes'
  /\ CopierTypes /\ UNCHANGED copier => CopierTypes'
BY DEF PoolTypes, CacheTypes, ReaderTypes, ChannelTypes, RequestTypes, PlaceTypes,
      WalkTypes, CopierTypes, pools, cache, readers, requests, walks, copier

\* Who goes on.
LEMMA GoesTyped ==
  ASSUME PlaceTypes, NEW w \in Workers, NEW a, NEW b \in Places, Goes(w, a, b)
  PROVE  PlaceTypes'
BY DEF PlaceTypes, Goes

LEMMA SendTyped ==
  ASSUME ChannelTypes, NEW p \in Pools, NEW m \in Messages, Send(p, m)
  PROVE  ChannelTypes'
<1>1. Append(ch[p], m) \in Seq(Messages) /\ Len(Append(ch[p], m)) <= Cap
  BY CapAssumption, Appended DEF Send, ChannelTypes
<1> QED BY <1>1 DEF Send, ChannelTypes

LEMMA StandsTyped ==
  ASSUME ReaderTypes, NEW p \in Pools, NEW m \in Messages \cup {Nothing},
         NEW at \in {"off", "idle", "check", "emit", "dead"}, Stands(p, at, m)
  PROVE  ReaderTypes'
BY DEF Stands, ReaderTypes

LEMMA WalkedTyped ==
  ASSUME WalkTypes, NEW w, Walked(w), UNCHANGED <<carry, switches>>
  PROVE  WalkTypes'
<1>1. on' \in [Workers -> Pools]
  BY PoolsAssumption DEF Walked, WalkTypes
<1>2. 1 \in 1..(MaxJobs + 2) /\ 0 \in 0..MaxJobs
  BY CapAssumption
<1>3. step' \in [Workers -> 1..(MaxJobs + 2)]
  BY <1>2 DEF Walked, WalkTypes
<1>4. end' \in [Workers -> 0..MaxJobs]
  BY <1>2 DEF Walked, WalkTypes
<1> QED BY <1>1, <1>3, <1>4 DEF WalkTypes

LEMMA TypeStep ==
  ASSUME RoutingInv, Next
  PROVE  TypeOK'
<1>0. /\ PoolTypes /\ CacheTypes /\ ReaderTypes /\ ChannelTypes /\ RequestTypes
      /\ PlaceTypes /\ WalkTypes /\ CopierTypes
  BY TypeParts DEF RoutingInv
<1> USE <1>0, TypesFramed, TypeParts, MessageKinds
<1>1. ASSUME NEW p \in Pools, ReadNotify(p) PROVE TypeOK'
  <2>1. /\ made' = made + 1 /\ made' \in Jobs /\ made \in Nat
        /\ Stands(p, "check", Message("job", made'))
    BY <1>1, CapAssumption DEF ReadNotify, Reads, Jobs, CacheTypes
  <2>2. PICK at \in {1, size[p] + 1} : /\ jobs' = [jobs EXCEPT ![p][at] = made']
                                       /\ size' = [size EXCEPT ![p] = at]
    BY <1>1 DEF ReadNotify
  <2>3. size[p] <= made
    BY DEF RoutingInv, Carried
  <2>4. at \in Jobs /\ at \in 0..MaxJobs
    BY <2>1, <2>2, <2>3, CapAssumption DEF Jobs, CacheTypes
  <2>5. made' \in 0..MaxJobs
    BY <2>1, CapAssumption DEF Jobs
  <2>6. jobs' \in [Pools -> [Jobs -> 0..MaxJobs]]
    <3>1. jobs' = [jobs EXCEPT ![p] = [jobs[p] EXCEPT ![at] = made']]
      BY <2>2
    <3>2. [jobs[p] EXCEPT ![at] = made'] \in [Jobs -> 0..MaxJobs]
      BY <2>4, <2>5 DEF CacheTypes
    <3> QED BY <3>1, <3>2 DEF CacheTypes
  <2>7. raced' \subseteq Pools /\ spoken' = spoken
    BY <1>1 DEF ReadNotify, CacheTypes
  <2>8. CacheTypes'
    BY <2>2, <2>4, <2>5, <2>6, <2>7 DEF CacheTypes
  <2>9. ReaderTypes'
    BY <2>1, StandsTyped
  <2> QED
    BY <1>1, <2>8, <2>9 DEF ReadNotify, Reads
<1>2. ASSUME NEW p \in Pools, ReadOther(p) PROVE TypeOK'
  <2>1. CacheTypes'
    BY <1>2, CapAssumption DEF ReadOther, CacheTypes
  <2>2. ReaderTypes'
    BY <1>2, StandsTyped DEF ReadOther, Reads
  <2> QED BY <1>2, <2>1, <2>2 DEF ReadOther, Reads, requests
<1>3. ASSUME NEW p \in Pools, ReadAnswer(p) PROVE TypeOK'
  <2>1. PlaceTypes'
    <3>1. CASE p \in handler
      BY <1>3, <3>1 DEF ReadAnswer, Answered, PlaceTypes, Places
    <3>2. CASE p \notin handler
      BY <1>3, <3>2 DEF ReadAnswer
    <3> QED BY <3>1, <3>2
  <2>2. step' \in [Workers -> 1..(MaxJobs + 2)]
    BY <1>3, CapAssumption DEF ReadAnswer, WalkTypes
  <2>3. WalkTypes'
    BY <1>3, <2>2 DEF ReadAnswer, WalkTypes
  <2>4. ReaderTypes'
    BY <1>3, StandsTyped DEF ReadAnswer
  <2>5. RequestTypes'
    BY <1>3 DEF ReadAnswer, RequestTypes
  <2> QED BY <1>3, <2>1, <2>3, <2>4, <2>5 DEF ReadAnswer
<1>4. ASSUME NEW p \in Pools, Check(p) PROVE TypeOK'
  <2>1. held[p] \in Messages \cup {Nothing}
    BY DEF ReaderTypes
  <2>2. ReaderTypes'
    BY <1>4, <2>1, StandsTyped DEF Check
  <2> QED BY <1>4, <2>2 DEF Check
<1>5. ASSUME NEW p \in Pools, Emit(p) PROVE TypeOK'
  <2>1. held[p] \in Messages
    BY <1>5 DEF Emit, RoutingInv, Carried
  <2>2. ChannelTypes'
    BY <1>5, <2>1, SendTyped DEF Emit
  <2>3. ReaderTypes'
    BY <1>5, StandsTyped DEF Emit
  <2> QED BY <1>5, <2>2, <2>3 DEF Emit
<1>6. ASSUME NEW p \in Pools, PoolFails(p) PROVE TypeOK'
  <2>1. ReaderTypes'
    BY <1>6 DEF PoolFails, ReaderTypes
  <2> QED BY <1>6, <2>1 DEF PoolFails
<1>7. ASSUME NEW p \in Pools, Reuse(p) \/ Dial(p) PROVE TypeOK'
  <2>1. PlaceTypes'
    BY <1>7, GoesTyped DEF Reuse, Dial, Target, Workers, Places
  <2>2. WalkTypes'
    BY <1>7, CapAssumption DEF Reuse, Dial, Target, WalkTypes, Workers
  <2>3. PoolTypes'
    BY <1>7 DEF Reuse, Dial, PoolTypes, pools
  <2>4. ReaderTypes'
    BY <1>7 DEF Reuse, Dial, ReaderTypes, readers
  <2> QED BY <1>7, <2>1, <2>2, <2>3, <2>4 DEF Reuse, Dial
<1>8. ASSUME NEW w \in Workers, Write(w) \/ Register(w) PROVE TypeOK'
  <2>1. PlaceTypes'
    BY <1>8, GoesTyped DEF Write, Register, Places
  <2>2. RequestTypes'
    BY <1>8 DEF Write, Register, RequestTypes, WalkTypes
  <2> QED BY <1>8, <2>1, <2>2 DEF Write, Register
<1>9. ASSUME NEW w \in Workers, SendSetup(w) PROVE TypeOK'
  <2>1. PlaceTypes'
    BY <1>9, GoesTyped DEF SendSetup, Places, Resending
  <2>2. on[w] \in Pools
    BY DEF WalkTypes
  <2>3. ChannelTypes'
    BY <1>9, <2>2, SendTyped DEF SendSetup
  <2>4. WalkTypes'
    BY <1>9, <2>2, CapAssumption DEF SendSetup, WalkTypes, CacheTypes
  <2>5. CacheTypes'
    BY <1>9 DEF SendSetup, CacheTypes
  <2> QED BY <1>9, <2>1, <2>3, <2>4, <2>5 DEF SendSetup
<1>10. ASSUME NEW w \in Workers, Fetch(w) PROVE TypeOK'
  <2>1. PlaceTypes'
    BY <1>10, GoesTyped DEF Fetch, Places, Resending
  <2>2. step[w] \in Jobs /\ step[w] + 1 \in 1..(MaxJobs + 2) /\ on[w] \in Pools
    BY <1>10, CapAssumption DEF Fetch, Jobs, WalkTypes
  <2>3. jobs[on[w]][step[w]] \in 0..MaxJobs
    BY <2>2 DEF CacheTypes
  <2>4. WalkTypes'
    BY <1>10, <2>2, <2>3 DEF Fetch, WalkTypes
  <2> QED BY <1>10, <2>1, <2>4 DEF Fetch
<1>11. ASSUME NEW w \in Workers, Push(w) PROVE TypeOK'
  <2>1. PlaceTypes'
    BY <1>11, GoesTyped DEF Push, Places, Resending
  <2>2. carry[w] \in Jobs /\ on[w] \in Pools
    BY <1>11, CapAssumption DEF Push, Goes, Jobs, WalkTypes, RoutingInv, Carried
  <2>3. ChannelTypes'
    BY <1>11, <2>2, SendTyped DEF Push
  <2>4. WalkTypes'
    BY <1>11, CapAssumption DEF Push, WalkTypes
  <2> QED BY <1>11, <2>1, <2>3, <2>4 DEF Push
<1>12. ASSUME DialFails \/ Open \/ Hold \/ Release PROVE TypeOK'
  <2>1. PlaceTypes'
    BY <1>12, GoesTyped DEF DialFails, Open, Hold, Release, Places, Resending, Workers
  <2>2. PoolTypes'
    <3>1. on["set"] \in Pools
      BY DEF WalkTypes, Workers
    <3>2. CASE Open \/ Hold
      BY <3>1, <3>2 DEF Open, Hold, SetReading, PoolTypes
    <3>3. CASE Release
      BY <3>1, <3>3 DEF Release, SetReading, PoolTypes
    <3> QED BY <1>12, <3>2, <3>3 DEF DialFails
  <2>3. WalkTypes'
    <3>1. CASE Release
      BY <3>1, WalkedTyped DEF Release
    <3> QED BY <1>12, <3>1 DEF DialFails, Open, Hold
  <2> QED BY <1>12, <2>1, <2>2, <2>3 DEF DialFails, Open, Hold, Release
<1>13. ASSUME Configure \/ Subscribe \/ Authorize \/ Resent \/ Choose PROVE TypeOK'
  <2>1. PlaceTypes'
    BY <1>13, GoesTyped
    DEF Configure, Subscribe, Authorize, Resent, Choose, Places, Resending, Workers, PlaceTypes
  <2>2. WalkTypes'
    <3>1. CASE Configure \/ Authorize
      BY <3>1 DEF Configure, Authorize, WalkTypes, PoolTypes
    <3>2. CASE Resent
      BY <3>2, WalkedTyped DEF Resent
    <3> QED BY <1>13, <3>1, <3>2 DEF Subscribe, Choose, walks
  <2>3. CopierTypes'
    BY <1>13 DEF Configure, Subscribe, Authorize, Resent, Choose, CopierTypes, PoolTypes, copier
  <2> QED BY <1>13, <2>1, <2>2, <2>3 DEF Configure, Subscribe, Authorize, Resent, Choose
<1>14. ASSUME Receive PROVE TypeOK'
  <2>1. from \in Pools /\ ch[from] \in Seq(Messages) /\ ch[from] # <<>>
    BY <1>14 DEF Receive, CopierTypes, ChannelTypes
  <2>2. /\ Tail(ch[from]) \in Seq(Messages) /\ Len(Tail(ch[from])) <= Len(ch[from])
        /\ Head(ch[from]) \in Messages
    BY <2>1, HeadTailProperties
  <2>3. Told(Head(ch[from])) \in [setup : Pools \cup {NoPool}, job : 0..MaxJobs]
    <3> DEFINE m == Head(ch[from])
    <3>1. m \in Messages
      BY <2>2
    <3> HIDE DEF m
    <3>2. m.kind = "job" => m.job \in 0..MaxJobs
      BY <3>1 DEF Jobs
    <3>3. Told(m) \in [setup : Pools \cup {NoPool}, job : 0..MaxJobs]
      BY <2>1, <3>2 DEF Told, CopierTypes
    <3> QED BY <3>3 DEF m
  <2>4. ChannelTypes'
    BY <1>14, <2>1, <2>2, HeadTailProperties, CapAssumption DEF Receive, ChannelTypes
  <2>5. CopierTypes'
    BY <1>14, <2>3 DEF Receive, CopierTypes
  <2> QED BY <1>14, <2>4, <2>5 DEF Receive
<1> QED
  BY <1>1, <1>2, <1>3, <1>4, <1>5, <1>6, <1>7, <1>8, <1>9, <1>10, <1>11, <1>12, <1>13, <1>14, Actions

LEMMA WorkedStep ==
  ASSUME RoutingInv, Next
  PROVE  Worked'
<1> USE PoolsAssumption DEF RoutingInv, TypeOK, Worked
<1> USE DEF pools, cache, requests, readers, walks, copier, Workers, Resending, Goes
<1>1. ASSUME NEW p \in Pools,
             \/ ReadNotify(p) \/ ReadOther(p) \/ Check(p) \/ Emit(p) \/ PoolFails(p)
      PROVE  Worked'
  BY <1>1 DEF ReadNotify, ReadOther, Check, Emit, PoolFails, Reads
<1>2. ASSUME NEW p \in Pools, ReadAnswer(p) PROVE Worked'
  BY <1>2 DEF ReadAnswer, Answered, Awaits
<1>3. ASSUME NEW p \in Pools, Reuse(p) \/ Dial(p) PROVE Worked'
  BY <1>3 DEF Reuse, Dial, Target
<1>4. ASSUME NEW w \in Workers,
             Write(w) \/ Register(w) \/ SendSetup(w) \/ Fetch(w) \/ Push(w)
      PROVE  Worked'
  BY <1>4 DEF Write, Register, SendSetup, Fetch, Push
<1>5. ASSUME DialFails \/ Open \/ Hold \/ Release PROVE Worked'
  BY <1>5 DEF DialFails, Open, Hold, Release, Walked
<1>6. ASSUME Configure \/ Subscribe \/ Authorize \/ Resent \/ Choose \/ Receive PROVE Worked'
  BY <1>6 DEF Configure, Subscribe, Authorize, Resent, Choose, Receive, Walked
<1> QED
  BY <1>1, <1>2, <1>3, <1>4, <1>5, <1>6, Actions


\* A pool is not heard before its handshake is over, and a connected one is always read
\* but for the time in which SetDest resends.
LEMMA HoldStep ==
  ASSUME RoutingInv, Next
  PROVE  HoldWindow'
<1>0. /\ conn \in Pools /\ cached \subseteq Pools /\ reading \in [Pools -> BOOLEAN]
      /\ reader \in [Pools -> {"off", "idle", "check", "emit", "dead"}]
      /\ on \in [Workers -> Pools] /\ DOMAIN ch = Pools /\ DOMAIN pc = Workers
      /\ HoldWindow /\ Worked
  BY DEF RoutingInv, TypeOK
<1> USE <1>0, PoolsAssumption DEF Worked, HoldWindow
<1> USE DEF pools, cache, requests, readers, walks, copier, Workers, Resending, Goes
<1>1. ASSUME NEW p \in Pools, ReadNotify(p) \/ ReadOther(p) \/ PoolFails(p) PROVE HoldWindow'
  BY <1>1 DEF ReadNotify, ReadOther, PoolFails, Reads, Stands
<1>2. ASSUME NEW p \in Pools, ReadAnswer(p) PROVE HoldWindow'
  BY <1>2 DEF ReadAnswer, Answered, Awaits, Stands
<1>3. ASSUME NEW p \in Pools, Check(p) PROVE HoldWindow'
  BY <1>3 DEF Check, Stands
<1>4. ASSUME NEW p \in Pools, Emit(p) PROVE HoldWindow'
  BY <1>4 DEF Emit, Send, Stands
<1>5. ASSUME NEW p \in Pools, Reuse(p) \/ Dial(p) PROVE HoldWindow'
  BY <1>5 DEF Reuse, Dial, Target
<1>6. ASSUME NEW w \in Workers, Write(w) \/ Register(w) \/ Fetch(w) PROVE HoldWindow'
  BY <1>6 DEF Write, Register, Fetch
<1>7. ASSUME NEW w \in Workers, SendSetup(w) \/ Push(w) PROVE HoldWindow'
  BY <1>7 DEF SendSetup, Push, Send
<1>8. ASSUME DialFails \/ Open \/ Hold \/ Release PROVE HoldWindow'
  BY <1>8 DEF DialFails, Open, Hold, Release, Walked, SetReading
<1>9. ASSUME Configure \/ Subscribe \/ Authorize \/ Resent \/ Choose PROVE HoldWindow'
  BY <1>9 DEF Configure, Subscribe, Authorize, Resent, Choose, Walked
<1>10. ASSUME Receive PROVE HoldWindow'
  BY <1>10 DEF Receive
<1> QED
  BY <1>1, <1>2, <1>3, <1>4, <1>5, <1>6, <1>7, <1>8, <1>9, <1>10, Actions

\* What a message that is sent means for the channels.
LEMMA Sent ==
  ASSUME ChannelTypes, NEW p \in Pools, NEW m \in Messages, Send(p, m)
  PROVE  /\ \A q \in Pools : HasSetup(ch[q]) => HasSetup(ch'[q])
         /\ m.kind = Setup => HasSetup(ch'[p])
         /\ \A q \in Pools \ {p} : ch'[q] = ch[q]
         /\ m.kind = "job" => Lasts(ch'[p], m.job)
         /\ m.kind # "job" => /\ \A j \in Jobs : Lasts(ch[p], j) => Lasts(ch'[p], j)
                              /\ NoJob(ch[p]) => NoJob(ch'[p])
<1>1. /\ ch[p] \in Seq(Messages) /\ ch'[p] = Append(ch[p], m)
      /\ \A q \in Pools \ {p} : ch'[q] = ch[q]
  BY DEF Send, ChannelTypes
<1>2. /\ HasSetup(ch[p]) \/ m.kind = Setup => HasSetup(ch'[p])
      /\ m.kind # "job" /\ NoJob(ch[p]) => NoJob(ch'[p])
  BY <1>1, Appended
<1>3. m.kind = "job" => Lasts(ch'[p], m.job)
  BY <1>1, Appended, MessageKinds
<1>4. ASSUME m.kind # "job", NEW j \in Jobs, Lasts(ch[p], j) PROVE Lasts(ch'[p], j)
  BY <1>1, <1>4, Appended
<1> QED BY <1>1, <1>2, <1>3, <1>4

LEMMA SetupStep ==
  ASSUME RoutingInv, Next
  PROVE  SetupComes'
<1>0. /\ conn \in Pools /\ cached \subseteq Pools
      /\ on \in [Workers -> Pools] /\ pc \in [Workers -> Places]
      /\ from \in Pools \cup {NoPool} /\ NoPool \notin Pools
      /\ DOMAIN miner = {"setup", "job"}
      /\ SetupComes /\ Worked
  BY PoolsAssumption DEF RoutingInv, TypeOK, Places
<1>00. ChannelTypes
  BY TypeParts DEF RoutingInv
<1> USE <1>0 DEF Worked, SetupComes, Due, Walks
<1> USE DEF pools, cache, requests, readers, walks, copier, Workers, Resending, Goes
<1>1. ASSUME NEW p \in Pools, ReadNotify(p) \/ ReadOther(p) \/ Check(p) \/ PoolFails(p)
      PROVE  SetupComes'
  BY <1>1 DEF ReadNotify, ReadOther, Check, PoolFails, Reads
<1>2. ASSUME NEW p \in Pools, ReadAnswer(p) PROVE SetupComes'
  BY <1>2 DEF ReadAnswer, Answered, Awaits
<1>3. ASSUME NEW p \in Pools, Emit(p) PROVE SetupComes'
  <2>1. held[p] \in Messages
    BY <1>3 DEF Emit, RoutingInv, Carried
  <2>2. \A q \in Pools : HasSetup(ch[q]) => HasSetup(ch'[q])
    BY <1>00, <1>3, <2>1, Sent DEF Emit
  <2> QED BY <1>3, <2>2 DEF Emit
<1>4. ASSUME NEW p \in Pools, Reuse(p) \/ Dial(p) PROVE SetupComes'
  BY <1>4 DEF Reuse, Dial, Target
<1>5. ASSUME NEW w \in Workers, Write(w) \/ Register(w) \/ Fetch(w) PROVE SetupComes'
  BY <1>5 DEF Write, Register, Fetch
<1>6. ASSUME NEW w \in Workers, SendSetup(w) PROVE SetupComes'
  <2>1. HasSetup(ch'[on[w]]) /\ \A q \in Pools : HasSetup(ch[q]) => HasSetup(ch'[q])
    BY <1>00, <1>6, Sent, MessageKinds DEF SendSetup
  <2> QED BY <1>6, <2>1 DEF SendSetup
<1>7. ASSUME NEW w \in Workers, Push(w) PROVE SetupComes'
  <2>1. carry[w] \in Jobs
    BY <1>7, CapAssumption, SMTT(30) DEF Push, RoutingInv, Carried, TypeOK, Jobs
  <2>2. \A q \in Pools : HasSetup(ch[q]) => HasSetup(ch'[q])
    BY <1>00, <1>7, <2>1, Sent, MessageKinds DEF Push
  <2> QED BY <1>7, <2>2 DEF Push
<1>8. ASSUME DialFails \/ Open \/ Hold \/ Release PROVE SetupComes'
  BY <1>8 DEF DialFails, Open, Hold, Release, Walked
<1>9. ASSUME Configure \/ Subscribe \/ Authorize \/ Resent \/ Choose PROVE SetupComes'
  BY <1>9 DEF Configure, Subscribe, Authorize, Resent, Choose, Walked
<1>10. ASSUME Receive PROVE SetupComes'
  <2> DEFINE m == Head(ch[from])
  <2>1. /\ ch[from] \in Seq(Messages) /\ ch[from] # <<>> /\ from \in Pools
        /\ ch'[from] = Tail(ch[from]) /\ \A q \in Pools \ {from} : ch'[q] = ch[q]
    BY <1>00, <1>10 DEF Receive, ChannelTypes
  <2>2. HasSetup(ch[from]) => m.kind = Setup \/ HasSetup(ch'[from])
    <3>1. HasSetup(ch[from]) => Head(ch[from]).kind = Setup \/ HasSetup(Tail(ch[from]))
      <4> DEFINE s == ch[from]
      <4>1. s \in Seq(Messages) /\ s # <<>>
        BY <2>1
      <4> HIDE DEF s
      <4>2. HasSetup(s) => Head(s).kind = Setup \/ HasSetup(Tail(s))
        BY <4>1, Received, Zenon
      <4> QED BY <4>2 DEF s
    <3> QED BY <2>1, <3>1
  <2>3. miner' = Told(m) /\ from' = NoPool /\ UNCHANGED <<pools, pc, walks>>
    BY <1>10 DEF Receive
  <2> HIDE DEF m
  <2>4. miner'.setup = IF m.kind = Setup THEN from ELSE miner.setup
    BY <2>3, MessageKinds DEF Told
  <2> QED BY <2>1, <2>2, <2>3, <2>4
<1> QED
  BY <1>1, <1>2, <1>3, <1>4, <1>5, <1>6, <1>7, <1>8, <1>9, <1>10, Actions

LEMMA OrderedStep ==
  ASSUME RoutingInv, Next
  PROVE  Ordered'
<1>0. /\ jobs \in [Pools -> [Jobs -> 0..MaxJobs]] /\ size \in [Pools -> 0..MaxJobs]
      /\ made \in 0..MaxJobs /\ DOMAIN reader = Pools /\ DOMAIN held = Pools
      /\ \A p \in Pools : size[p] <= made
      /\ Ordered
  BY DEF RoutingInv, TypeOK, Carried
<1> USE <1>0 DEF Ordered, Newest
<1>1. ASSUME NEW p \in Pools, ReadNotify(p) PROVE Ordered'
  <2> DEFINE m == Message("job", made')
  <2>1. /\ made' = made + 1 /\ made' \in Jobs /\ made' \in Nat /\ made \in Nat
        /\ reader[p] = "idle"
        /\ reader' = [reader EXCEPT ![p] = "check"] /\ held' = [held EXCEPT ![p] = m]
    BY <1>1, CapAssumption DEF ReadNotify, Reads, Stands, Jobs
  <2>2. PICK at \in {1, size[p] + 1} : /\ jobs' = [jobs EXCEPT ![p][at] = made']
                                       /\ size' = [size EXCEPT ![p] = at]
    BY <1>1 DEF ReadNotify
  <2>3. at \in Jobs /\ at > 0
    <3>1. size[p] \in Nat /\ size[p] <= made /\ MaxJobs \in Nat
      BY CapAssumption
    <3> QED BY <2>1, <2>2, <3>1 DEF Jobs
  <2>4. m.job = made'
    BY <2>1, MessageKinds
  <2> HIDE DEF m
  <2>5. /\ size'[p] = at /\ jobs'[p][at] = made'
        /\ \A n \in Jobs : n # at => jobs'[p][n] = jobs[p][n]
        /\ held'[p].job = made'
    BY <2>1, <2>2, <2>3, <2>4
  <2>6. \A n \in Jobs : jobs'[p][n] \in Nat /\ jobs'[p][n] <= made'
    BY <2>1, <2>3, <2>5
  <2>7. ASSUME NEW q \in Pools, q # p
        PROVE  /\ jobs'[q] = jobs[q] /\ size'[q] = size[q]
               /\ reader'[q] = reader[q] /\ held'[q] = held[q]
               /\ \A n \in Jobs : jobs'[q][n] <= made'
    BY <2>1, <2>2, <2>7
  <2> QED BY <2>3, <2>5, <2>6, <2>7
<1>2. ASSUME NEW p \in Pools, ReadOther(p) \/ ReadAnswer(p) PROVE Ordered'
  <2>1. /\ UNCHANGED <<jobs, size, made>>
        /\ reader' = [reader EXCEPT ![p] = "check"]
        /\ held' = [held EXCEPT ![p] = Message(Other, 0)]
    BY <1>2 DEF ReadOther, ReadAnswer, Reads, Stands, cache
  <2> QED BY <2>1, MessageKinds
<1>3. ASSUME NEW p \in Pools, Check(p) \/ Emit(p) PROVE Ordered'
  <2>1. /\ UNCHANGED <<jobs, size, made>>
        /\ \/ reader[p] = "check" /\ Stands(p, "emit", held[p])
           \/ Stands(p, "idle", Nothing)
    BY <1>3 DEF Check, Emit, cache
  <2> QED BY <2>1 DEF Stands
<1>4. ASSUME NEW p \in Pools, PoolFails(p) \/ Reuse(p) \/ Dial(p) PROVE Ordered'
  BY <1>4 DEF PoolFails, Reuse, Dial, cache, readers
<1>5. ASSUME \/ \E w \in Workers : Write(w) \/ Register(w) \/ SendSetup(w) \/ Fetch(w) \/ Push(w)
             \/ DialFails \/ Open \/ Hold \/ Release
             \/ Configure \/ Subscribe \/ Authorize \/ Resent \/ Choose \/ Receive
      PROVE  Ordered'
  <2>1. UNCHANGED <<jobs, size, made, readers>>
    BY <1>5 DEF Write, Register, SendSetup, Fetch, Push, DialFails, Open, Hold, Release,
                Configure, Subscribe, Authorize, Resent, Choose, Receive, cache
  <2> QED BY <2>1 DEF readers
<1> QED
  BY <1>1, <1>2, <1>3, <1>4, <1>5, Actions

\* What a job that is announced changes in the cache of its pool.
LEMMA Announced ==
  ASSUME RoutingInv, NEW p \in Pools, ReadNotify(p)
  PROVE  /\ made' = made + 1 /\ made' \in Jobs
         /\ size'[p] \in 1..made' /\ jobs'[p][size'[p]] = made'
         /\ \A n \in Jobs \ {size'[p]} : jobs'[p][n] = jobs[p][n]
         /\ size'[p] \in {1, size[p] + 1}
         /\ \A q \in Pools \ {p} : jobs'[q] = jobs[q] /\ size'[q] = size[q]
<1>1. /\ jobs \in [Pools -> [Jobs -> 0..MaxJobs]] /\ size \in [Pools -> 0..MaxJobs]
      /\ made \in 0..MaxJobs /\ size[p] <= made /\ MaxJobs \in Nat
  BY CapAssumption DEF RoutingInv, TypeOK, Carried
<1>2. made' = made + 1 /\ made' \in Jobs
  BY <1>1 DEF ReadNotify, Jobs
<1>3. PICK at \in {1, size[p] + 1} : /\ jobs' = [jobs EXCEPT ![p][at] = made']
                                     /\ size' = [size EXCEPT ![p] = at]
  BY DEF ReadNotify
<1>4. at \in Jobs /\ at \in 1..made'
  <2>1. size[p] \in Nat
    BY <1>1
  <2> QED BY <1>1, <1>2, <1>3, <2>1 DEF Jobs
<1>5. jobs'[p] = [jobs[p] EXCEPT ![at] = made'] /\ size'[p] = at
  BY <1>1, <1>3
<1>6. jobs'[p][at] = made' /\ \A n \in Jobs \ {at} : jobs'[p][n] = jobs[p][n]
  BY <1>1, <1>4, <1>5
<1>7. \A q \in Pools \ {p} : jobs'[q] = jobs[q] /\ size'[q] = size[q]
  BY <1>1, <1>3
<1> QED BY <1>2, <1>3, <1>4, <1>5, <1>6, <1>7

LEMMA CarriedStep ==
  ASSUME RoutingInv, Next
  PROVE  Carried'
<1>0. /\ jobs \in [Pools -> [Jobs -> 0..MaxJobs]] /\ size \in [Pools -> 0..MaxJobs]
      /\ made \in 0..MaxJobs /\ MaxJobs \in Nat
      /\ DOMAIN reader = Pools /\ DOMAIN held = Pools /\ DOMAIN pc = Workers
      /\ on \in [Workers -> Pools] /\ step \in [Workers -> 1..(MaxJobs + 2)]
      /\ end \in [Workers -> 0..MaxJobs] /\ DOMAIN carry = Workers
      /\ Carried
  BY CapAssumption DEF RoutingInv, TypeOK
<1> USE <1>0 DEF Carried, Walks
<1>1. ASSUME NEW p \in Pools, ReadNotify(p) PROVE Carried'
  <2>1. /\ made' = made + 1 /\ made' \in Jobs /\ size'[p] \in 1..made'
        /\ \A n \in Jobs : jobs'[p][n] = made' \/ jobs'[p][n] = jobs[p][n]
        /\ jobs'[p][size'[p]] = made' /\ size'[p] \in {1, size[p] + 1}
        /\ \A n \in Jobs \ {size'[p]} : jobs'[p][n] = jobs[p][n]
        /\ \A q \in Pools \ {p} : jobs'[q] = jobs[q] /\ size'[q] = size[q]
    BY <1>1, Announced
  <2>2. made' \in Nat /\ made' # 0 /\ made \in Nat
    BY <2>1
  <2>3. \A q \in Pools : size'[q] <= made'
    BY <2>1, <2>2
  <2>4. /\ reader' = [reader EXCEPT ![p] = "check"]
        /\ held' = [held EXCEPT ![p] = Message("job", made')]
        /\ UNCHANGED <<pc, on, step, end, carry>>
    BY <1>1 DEF ReadNotify, Reads, Stands, walks
  <2>5. \A q \in Pools : reader'[q] \in {"check", "emit"} => held'[q] \in Messages
    BY <2>1, <2>4, MessageKinds
  <2>6. \A q \in Pools : \A n \in Jobs : jobs[q][n] # 0 => jobs'[q][n] # 0
    BY <2>1, <2>2
  <2>7. \A q \in Pools : \A n \in 1..size'[q] : jobs'[q][n] # 0
    <3> SUFFICES ASSUME NEW q \in Pools, NEW n \in 1..size'[q], q = p, n # size'[p]
                 PROVE  jobs'[q][n] # 0
      BY <2>1, <2>2
    <3>1. size[p] \in Nat /\ size'[p] \in Nat /\ size'[p] <= MaxJobs
      BY <2>1, <2>2 DEF Jobs
    <3>2. n \in 1..size[p] /\ n \in Jobs
      BY <3>1, <2>1 DEF Jobs
    <3> QED BY <3>2, <2>6
  <2>8. \A w \in Workers : (Walks(w))' => \A n \in 1..end'[w] : jobs'[on'[w]][n] # 0
    <3> SUFFICES ASSUME NEW w \in Workers, Walks(w), NEW n \in 1..end[w]
                 PROVE  jobs'[on[w]][n] # 0
      BY <2>4
    <3>1. n \in Jobs
      BY DEF Jobs
    <3> QED BY <3>1, <2>6
  <2> QED BY <2>3, <2>4, <2>5, <2>7, <2>8
<1>2. ASSUME NEW p \in Pools, ReadOther(p) PROVE Carried'
  BY <1>2, MessageKinds DEF ReadOther, Reads, Stands, walks
<1>3. ASSUME NEW p \in Pools, ReadAnswer(p) PROVE Carried'
  <2>1. /\ reader' = [reader EXCEPT ![p] = "check"]
        /\ held' = [held EXCEPT ![p] = Message(Other, 0)]
        /\ UNCHANGED <<jobs, size, made, on, end, carry>>
    BY <1>3 DEF ReadAnswer, Stands, cache
  <2>2. \A w \in Workers : pc'[w] \in {"walk", "push"} => pc'[w] = pc[w] /\ step'[w] = step[w]
    BY <1>3 DEF ReadAnswer, Answered, Awaits
  <2> QED BY <2>1, <2>2, MessageKinds
<1>4. ASSUME NEW p \in Pools, Check(p) \/ Emit(p) \/ PoolFails(p) PROVE Carried'
  BY <1>4 DEF Check, Emit, PoolFails, Stands, walks, cache
<1>5. ASSUME NEW p \in Pools, Reuse(p) \/ Dial(p) PROVE Carried'
  <2>1. \A w \in Workers : pc'[w] \in {"walk", "push"} =>
            /\ pc'[w] = pc[w] /\ on'[w] = on[w] /\ step'[w] = step[w]
            /\ end'[w] = end[w] /\ carry'[w] = carry[w]
    BY <1>5 DEF Reuse, Dial, Target, Goes, Workers
  <2>2. \A q \in Pools : reader'[q] \in {"check", "emit"} =>
            reader'[q] = reader[q] /\ held'[q] = held[q]
    BY <1>5 DEF Reuse, Dial, readers
  <2>3. UNCHANGED <<jobs, size, made>>
    BY <1>5 DEF Reuse, Dial, cache
  <2> QED BY <2>1, <2>2, <2>3
<1>6. ASSUME NEW w \in Workers, Write(w) \/ Register(w) PROVE Carried'
  BY <1>6 DEF Write, Register, Goes, cache, readers, walks
<1>7. ASSUME NEW w \in Workers, SendSetup(w) PROVE Carried'
  BY <1>7 DEF SendSetup, Goes, cache, readers, walks
<1>8. ASSUME NEW w \in Workers, Fetch(w) PROVE Carried'
  <2>1. step[w] \in 1..end[w] /\ step[w] + 1 > 1
    BY <1>8 DEF Fetch
  <2>2. jobs[on[w]][step[w]] # 0
    BY <1>8, <2>1 DEF Fetch, Goes
  <2>3. /\ UNCHANGED <<jobs, size, made, reader, held, on, end>>
        /\ pc[w] = "walk" /\ pc' = [pc EXCEPT ![w] = "push"]
        /\ carry'[w] # 0 /\ step'[w] > 1
        /\ \A v \in Workers \ {w} : carry'[v] = carry[v] /\ step'[v] = step[v]
    BY <1>8, <2>1, <2>2 DEF Fetch, Goes, cache, readers
  <2> QED BY <2>3
<1>9. ASSUME NEW w \in Workers, Push(w) PROVE Carried'
  BY <1>9 DEF Push, Goes, cache, readers, walks
<1>10. ASSUME DialFails \/ Open \/ Hold \/ Release PROVE Carried'
  <2>1. UNCHANGED <<jobs, size, made, reader, held>>
    BY <1>10 DEF DialFails, Open, Hold, Release, cache, readers
  <2>2. \A w \in Workers : pc'[w] \in {"walk", "push"} =>
            /\ pc'[w] = pc[w] /\ on'[w] = on[w] /\ step'[w] = step[w]
            /\ end'[w] = end[w] /\ carry'[w] = carry[w]
    <3>1. CASE Release
      BY <3>1 DEF Release, Walked, Goes, Workers
    <3> QED BY <1>10, <3>1 DEF DialFails, Open, Hold, Goes, Workers, walks
  <2> QED BY <2>1, <2>2
<1>11. ASSUME Configure \/ Subscribe \/ Authorize \/ Resent \/ Choose \/ Receive PROVE Carried'
  BY <1>11 DEF Configure, Subscribe, Authorize, Resent, Choose, Receive, Walked, Goes,
               cache, readers, walks, Workers
<1> QED
  BY <1>1, <1>2, <1>3, <1>4, <1>5, <1>6, <1>7, <1>8, <1>9, <1>10, <1>11, Actions

LEMMA WholeStep ==
  ASSUME RoutingInv, Next
  PROVE  Whole'
<1>0. /\ DOMAIN size = Pools /\ DOMAIN pc = Workers /\ raced \subseteq Pools
      /\ size \in [Pools -> 0..MaxJobs] /\ MaxJobs \in Nat
      /\ on \in [Workers -> Pools] /\ step \in [Workers -> 1..(MaxJobs + 2)]
      /\ end \in [Workers -> 0..MaxJobs] /\ DOMAIN carry = Workers
      /\ Whole
  BY CapAssumption DEF RoutingInv, TypeOK
<1> USE <1>0 DEF Whole, Walks
<1>1. ASSUME NEW p \in Pools, ReadNotify(p) PROVE Whole'
  <2>1. /\ \A q \in Pools \ {p} : jobs'[q] = jobs[q] /\ size'[q] = size[q]
        /\ UNCHANGED <<pc, on, step, end, carry>>
    BY <1>1, Announced DEF ReadNotify, Reads, walks
  <2>2. \A w \in Workers : Walks(w) /\ on[w] \notin raced' => on[w] # p /\ on[w] \notin raced
    BY <1>1 DEF ReadNotify, Walking
  <2> QED BY <2>1, <2>2
<1>2. ASSUME NEW p \in Pools, ReadAnswer(p) PROVE Whole'
  <2>1. UNCHANGED <<jobs, size, raced, on, end, carry>>
    BY <1>2 DEF ReadAnswer, cache
  <2>2. \A w \in Workers : pc'[w] \in {"walk", "push"} => pc'[w] = pc[w] /\ step'[w] = step[w]
    BY <1>2 DEF ReadAnswer, Answered, Awaits
  <2> QED BY <2>1, <2>2
<1>3. ASSUME NEW p \in Pools,
             \/ ReadOther(p) \/ Check(p) \/ Emit(p) \/ PoolFails(p)
      PROVE  Whole'
  BY <1>3 DEF ReadOther, Check, Emit, PoolFails, Reads, cache, walks
<1>4. ASSUME NEW p \in Pools, Reuse(p) \/ Dial(p) PROVE Whole'
  BY <1>4 DEF Reuse, Dial, Target, Goes, cache, Workers
<1>5. ASSUME NEW w \in Workers, Write(w) \/ Register(w) PROVE Whole'
  BY <1>5 DEF Write, Register, Goes, cache, walks
<1>6. ASSUME NEW w \in Workers, SendSetup(w) PROVE Whole'
  <2>1. /\ UNCHANGED <<jobs, size, on, carry>>
        /\ pc' = [pc EXCEPT ![w] = "walk"] /\ step' = [step EXCEPT ![w] = 1]
        /\ end' = [end EXCEPT ![w] = size[on[w]]]
    BY <1>6 DEF SendSetup, Goes
  <2>2. \A v \in Workers : v # w /\ Walks(v) /\ on[v] \notin raced' => on[v] \notin raced
    BY <1>6 DEF SendSetup, Walking
  <2>3. size[on[w]] \in Nat
    OBVIOUS
  <2> QED BY <2>1, <2>2, <2>3
<1>7. ASSUME NEW w \in Workers, Fetch(w) PROVE Whole'
  <2>1. /\ UNCHANGED <<jobs, size, raced, on, end>>
        /\ step[w] <= end[w] /\ pc[w] = "walk" /\ pc' = [pc EXCEPT ![w] = "push"]
        /\ carry'[w] = jobs[on[w]][step[w]] /\ step'[w] = step[w] + 1
        /\ \A v \in Workers \ {w} : carry'[v] = carry[v] /\ step'[v] = step[v]
    BY <1>7 DEF Fetch, Goes, cache
  <2>2. step[w] \in Nat /\ end[w] \in Nat /\ (step[w] + 1) - 1 = step[w]
    OBVIOUS
  <2> QED BY <2>1, <2>2
<1>8. ASSUME NEW w \in Workers, Push(w) PROVE Whole'
  BY <1>8 DEF Push, Goes, cache
<1>9. ASSUME DialFails \/ Open \/ Hold \/ Release PROVE Whole'
  <2>1. UNCHANGED <<jobs, size, raced>>
    BY <1>9 DEF DialFails, Open, Hold, Release, cache
  <2>2. \A w \in Workers : pc'[w] \in {"walk", "push"} =>
            /\ pc'[w] = pc[w] /\ on'[w] = on[w] /\ step'[w] = step[w]
            /\ end'[w] = end[w] /\ carry'[w] = carry[w]
    <3>1. CASE Release
      BY <3>1 DEF Release, Walked, Goes, Workers
    <3> QED BY <1>9, <3>1 DEF DialFails, Open, Hold, Goes, Workers, walks
  <2> QED BY <2>1, <2>2
<1>10. ASSUME Configure \/ Subscribe \/ Authorize \/ Resent \/ Choose \/ Receive PROVE Whole'
  BY <1>10 DEF Configure, Subscribe, Authorize, Resent, Choose, Receive, Walked, Goes,
               cache, walks, Workers
<1> QED
  BY <1>1, <1>2, <1>3, <1>4, <1>5, <1>6, <1>7, <1>8, <1>9, <1>10, Actions

\* The worker has a job of q yet to resend, as far as it knows.
Resends(w, q) == Walks(w) /\ on[w] = q /\ (step[w] <= end[w] \/ pc[w] = "push")
SameWalk(w) == /\ pc'[w] = pc[w] /\ on'[w] = on[w] /\ step'[w] = step[w]
               /\ end'[w] = end[w] /\ carry'[w] = carry[w]

\* A job that is to come is still to come when its cache and those who resend it stay as
\* they are, what the reader holds is not dropped and the channel loses nothing.
LEMMA ComesKept ==
  ASSUME NEW q \in Pools,
         jobs'[q] = jobs[q], size'[q] = size[q],
         \A w \in Workers : Resends(w, q) => SameWalk(w),
         InHand(q) => InHand(q)' \/ Lasts(ch'[q], Newest(q)),
         Lasts(ch[q], Newest(q)) => Lasts(ch'[q], Newest(q))
  PROVE  Comes(q) => Comes(q)'
<1>1. Newest(q)' = Newest(q)
  BY DEF Newest
<1>2. ToBeResent(q) => ToBeResent(q)'
  BY <1>1, Zenon DEF ToBeResent, Resends, SameWalk, Walks
<1> QED
  BY <1>1, <1>2 DEF Comes

\* What is to come of the pools that matter is so after a step that makes none of them
\* fresh and begins no walk.
Matters(q) == q = conn \/ (Walks("set") /\ q = on["set"])
LEMMA JobsKept ==
  ASSUME JobComes, conn \in Pools, on["set"] \in Pools, conn' = conn,
         Due => Due',
         Due' => Due,
         Walks("set")' => Walks("set") /\ on'["set"] = on["set"],
         \A q \in Pools : Matters(q) /\ Fresh(q)' =>
             Fresh(q) /\ (Comes(q) => Comes(q)') /\ (Came(q) => Comes(q)' \/ Came(q)')
  PROVE  JobComes'
<1>1. PICK c \in Pools : c = conn
  OBVIOUS
<1>2. ASSUME ~Due', Fresh(conn)' PROVE (Comes(conn) \/ Came(conn))'
  <2>1. Matters(c)
    BY <1>1 DEF Matters
  <2>2. Fresh(c)'
    BY <1>1, <1>2
  <2>3. Fresh(c) /\ (Comes(c) => Comes(c)') /\ (Came(c) => Comes(c)' \/ Came(c)')
    BY <2>1, <2>2
  <2>4. Comes(c) \/ Came(c)
    BY <1>1, <1>2, <2>3 DEF JobComes
  <2>5. (Comes(c) \/ Came(c))'
    BY <2>3, <2>4
  <2> QED BY <1>1, <2>5
<1>3. PICK o \in Pools : o = on["set"]
  OBVIOUS
<1>4. ASSUME Walks("set")', (on["set"] # conn)', Fresh(on["set"])' PROVE Comes(on["set"])'
  <2>1. Matters(o) /\ on'["set"] = o
    BY <1>3, <1>4 DEF Matters
  <2>2. Fresh(o)'
    BY <1>4, <2>1
  <2>3. Fresh(o) /\ (Comes(o) => Comes(o)')
    BY <2>1, <2>2
  <2>4. Comes(o)
    BY <1>3, <1>4, <2>3 DEF JobComes
  <2>5. Comes(o)'
    BY <2>3, <2>4
  <2> QED BY <2>1, <2>5
<1> QED
  BY <1>2, <1>4 DEF JobComes

\* After a job was fetched from an undisturbed walk, or pushed, the newest one is to come.
LEMMA StillResent ==
  ASSUME RoutingInv, NEW w \in Workers, Fetch(w) \/ Push(w), on[w] \notin raced
  PROVE  Comes(on[w])'
<1>0. /\ on \in [Workers -> Pools] /\ step \in [Workers -> 1..(MaxJobs + 2)]
      /\ end \in [Workers -> 0..MaxJobs] /\ size \in [Pools -> 0..MaxJobs] /\ MaxJobs \in Nat
      /\ carry \in [Workers -> 0..MaxJobs] /\ DOMAIN pc = Workers /\ Whole
  BY CapAssumption DEF RoutingInv, TypeOK
<1>1. PICK p \in Pools : p = on[w]
  BY <1>0
<1>2. UNCHANGED <<jobs, size, on, end>> /\ on'[w] = p
  BY <1>1 DEF Fetch, Push, cache
<1>3. Newest(p)' = Newest(p) /\ Newest(p) = jobs[p][size[p]]
  BY <1>2 DEF Newest
<1>4. Walks(w) /\ end[w] = size[p] /\ step[w] \in Nat /\ end[w] \in Nat
  BY <1>0, <1>1 DEF Walks, Whole, Fetch, Push, Goes
<1>5. CASE Fetch(w)
  <2>1. /\ step[w] <= end[w] /\ pc'[w] = "push"
        /\ carry'[w] = jobs[p][step[w]] /\ step'[w] = step[w] + 1
    BY <1>0, <1>1, <1>5 DEF Fetch, Goes
  <2>2. step'[w] <= end[w] \/ carry'[w] = Newest(p)
    BY <1>3, <1>4, <2>1
  <2>3. ToBeResent(p)'
    BY <1>2, <1>3, <2>1, <2>2 DEF ToBeResent, Walks
  <2> QED BY <1>2, <2>3, <1>1 DEF Comes
<1>6. CASE Push(w)
  <2>1. /\ pc[w] = "push" /\ pc'[w] = "walk" /\ step'[w] = step[w]
        /\ Send(p, Message("job", carry[w]))
    BY <1>0, <1>1, <1>6 DEF Push, Goes
  <2>2. /\ carry[w] = jobs[p][step[w] - 1] /\ step[w] <= end[w] + 1
        /\ carry[w] # 0 /\ step[w] > 1
    BY <1>0, <1>1, <1>4, <2>1 DEF Whole, RoutingInv, Carried
  <2>3. carry[w] \in Jobs
    BY <1>0, <2>2 DEF Jobs
  <2>4. CASE step[w] = end[w] + 1
    <3>1. carry[w] = Newest(p)
      BY <1>3, <1>4, <2>2, <2>4
    <3>2. Lasts(ch'[p], Newest(p))
      BY <2>1, <2>3, <3>1, MessageKinds, Sent, TypeParts DEF RoutingInv
    <3>3. Lasts(ch[p], Newest(p))'
      BY <1>3, <3>2
    <3> QED BY <1>1, <1>2, <3>3 DEF Comes
  <2>5. CASE step[w] # end[w] + 1
    <3>1. step'[w] <= end'[w]
      BY <1>2, <1>4, <2>1, <2>2, <2>5
    <3>2. ToBeResent(p)'
      BY <1>2, <2>1, <3>1 DEF ToBeResent, Walks
    <3> QED BY <1>1, <1>2, <3>2 DEF Comes
  <2> QED BY <2>4, <2>5
<1> QED BY <1>5, <1>6

LEMMA JobStep ==
  ASSUME RoutingInv, Next
  PROVE  JobComes'
<1>0. /\ conn \in Pools /\ cached \subseteq Pools /\ raced \subseteq Pools
      /\ reading \in [Pools -> BOOLEAN]
      /\ on \in [Workers -> Pools] /\ DOMAIN pc = Workers
      /\ DOMAIN jobs = Pools /\ size \in [Pools -> 0..MaxJobs] /\ MaxJobs \in Nat
      /\ DOMAIN step = Workers /\ DOMAIN end = Workers /\ DOMAIN carry = Workers
      /\ DOMAIN reader = Pools /\ DOMAIN held = Pools /\ DOMAIN ch = Pools
      /\ from \in Pools \cup {NoPool} /\ NoPool \notin Pools
      /\ DOMAIN miner = {"setup", "job"}
      /\ Worked /\ JobComes
  BY CapAssumption, PoolsAssumption DEF RoutingInv, TypeOK
<1>00. ChannelTypes
  BY TypeParts DEF RoutingInv
<1> USE <1>0
<1>1. ASSUME NEW p \in Pools, ReadNotify(p) PROVE JobComes'
  <2>1. /\ UNCHANGED <<pools, ch, pc, walks, copier>>
        /\ reader[p] = "idle" /\ held' = [held EXCEPT ![p] = Message("job", made')]
        /\ reader' = [reader EXCEPT ![p] = "check"]
        /\ \A q \in Pools \ {p} : jobs'[q] = jobs[q] /\ size'[q] = size[q]
        /\ made' \in Jobs
    BY <1>1, Announced DEF ReadNotify, Reads, Stands
  <2>2. \A w \in Workers : SameWalk(w)
    BY <2>1 DEF SameWalk, walks
  <2>3. \A q \in Pools \ {p} : Comes(q) => Comes(q)'
    <3> SUFFICES ASSUME NEW q \in Pools \ {p} PROVE Comes(q) => Comes(q)'
      OBVIOUS
    <3>1. InHand(q) => InHand(q)'
      BY <2>1 DEF InHand, pools
    <3> QED BY <2>1, <2>2, <3>1, ComesKept
  <2>4. \A q \in Pools \ {p} : Came(q) => Came(q)'
    BY <2>1 DEF Came, Newest, NoJob, copier
  <2>5. \A q \in Pools \ {p} : Fresh(q)' => Fresh(q)
    BY <1>1, <2>1 DEF Fresh, ReadNotify
  <2>6. conn' = conn /\ Due' = Due /\ on' = on /\ Walks("set")' = Walks("set")
    BY <2>1 DEF pools, walks, Due, Walks
  <2>7. Fresh(p)' => ~Walks("set") \/ on["set"] # p
    BY <1>1 DEF Fresh, ReadNotify, Walking, Walks, Workers
  <2>8. CASE p # conn
    BY <2>3, <2>4, <2>5, <2>6, <2>7, <2>8, JobsKept DEF Matters, Workers
  <2>9. CASE p = conn
    <3>1. ~Due /\ Fresh(conn)' => Comes(conn)'
      <4> SUFFICES ASSUME ~Due, Fresh(p)' PROVE Comes(p)'
        BY <2>6, <2>9
      <4>1. reading[p]
        BY <2>7, <2>9 DEF RoutingInv, HoldWindow, Due, Walks, Resending, Worked
      <4>2. InHand(p)'
        BY <2>1, <4>1, MessageKinds DEF InHand, pools
      <4> QED BY <4>2 DEF Comes
    <3>2. Walks("set") /\ on["set"] # conn /\ Fresh(on["set"])' => Comes(on["set"])'
      <4> SUFFICES ASSUME Walks("set"), on["set"] # conn, Fresh(on["set"])'
                   PROVE  Comes(on["set"])'
        OBVIOUS
      <4>1. PICK q \in Pools \ {p} : q = on["set"]
        BY <2>9 DEF Workers
      <4>2. Fresh(q)' /\ (Comes(on["set"])' = Comes(q)')
        BY <4>1, <2>6
      <4>3. Fresh(q)
        BY <4>2, <2>5
      <4>4. Comes(q)
        BY <4>1, <4>3 DEF JobComes
      <4> QED BY <2>3, <4>2, <4>4
    <3> QED BY <2>6, <3>1, <3>2 DEF JobComes
  <2> QED BY <2>8, <2>9
<1>2. ASSUME NEW p \in Pools, \/ ReadOther(p) \/ ReadAnswer(p) \/ Check(p) \/ PoolFails(p)
      PROVE  JobComes'
  <2>1. /\ UNCHANGED <<pools, ch, jobs, size, raced, copier, on>>
        /\ \A q \in Pools \ {p} : reader'[q] = reader[q] /\ held'[q] = held[q]
    BY <1>2 DEF ReadOther, ReadAnswer, Check, PoolFails, Reads, Stands, cache, walks
  <2>2. \A w \in Workers : Walks(w) => SameWalk(w)
    BY <1>2 DEF ReadOther, ReadAnswer, Check, PoolFails, Reads, Stands, Walks, walks, SameWalk,
                Answered, Awaits
  <2>3. \A w \in Workers : Walks(w)' => Walks(w)
    BY <1>2 DEF ReadOther, ReadAnswer, Check, PoolFails, Reads, Walks, Answered, Awaits
  <2>4. Due' = Due
    BY <1>2, <2>1 DEF ReadOther, ReadAnswer, Check, PoolFails, Reads, Due, Answered, Awaits,
                      pools, Workers
  <2>5. InHand(p) => InHand(p)'
    BY <1>2, <2>1 DEF ReadOther, ReadAnswer, Check, PoolFails, Reads, Stands, InHand, pools
  <2>6. \A q \in Pools : Comes(q) => Comes(q)'
    <3> SUFFICES ASSUME NEW q \in Pools PROVE Comes(q) => Comes(q)'
      OBVIOUS
    <3>1. InHand(q) => InHand(q)'
      BY <2>1, <2>5 DEF InHand, pools
    <3> QED BY <2>1, <2>2, <3>1, ComesKept DEF Resends
  <2>7. \A q \in Pools : (Came(q) => Came(q)') /\ (Fresh(q)' => Fresh(q))
    BY <2>1 DEF Came, Newest, NoJob, copier, Fresh
  <2> QED BY <2>1, <2>3, <2>4, <2>6, <2>7, JobsKept DEF pools, Workers
<1>3. ASSUME NEW p \in Pools, Emit(p) PROVE JobComes'
  <2>1. /\ UNCHANGED <<pools, cache, pc, walks, copier>>
        /\ reader[p] = "emit" /\ held[p] \in Messages /\ Send(p, held[p])
        /\ reader' = [reader EXCEPT ![p] = "idle"]
        /\ held' = [held EXCEPT ![p] = Nothing]
    BY <1>3 DEF Emit, Stands, RoutingInv, Carried
  <2>2. \A w \in Workers : SameWalk(w)
    BY <2>1 DEF SameWalk, walks
  <2>3. /\ held[p].kind = "job" => Lasts(ch'[p], Newest(p))
        /\ held[p].kind # "job" => /\ \A j \in Jobs : Lasts(ch[p], j) => Lasts(ch'[p], j)
                                   /\ NoJob(ch[p]) => NoJob(ch'[p])
        /\ \A q \in Pools \ {p} : ch'[q] = ch[q]
    <3>1. held[p].kind = "job" => held[p].job = Newest(p)
      BY <2>1 DEF RoutingInv, Ordered
    <3> QED BY <1>00, <2>1, <3>1, Sent
  <2>4. ASSUME NEW q \in Pools PROVE Comes(q) => Comes(q)'
    <3>1. InHand(q) => InHand(q)' \/ Lasts(ch'[q], Newest(q))
      BY <2>1, <2>3 DEF InHand, pools
    <3>2. Lasts(ch[q], Newest(q)) => Lasts(ch'[q], Newest(q))
      <4>1. Lasts(ch[p], Newest(p)) => Newest(p) \in Jobs
        BY <1>00, MessageKinds DEF Lasts, ChannelTypes
      <4> QED BY <2>3, <4>1
    <3> QED BY <2>1, <2>2, <3>1, <3>2, ComesKept DEF cache
  <2>5. ASSUME NEW q \in Pools PROVE Came(q) => Comes(q)' \/ Came(q)'
    <3>1. Newest(q)' = Newest(q)
      BY <2>1 DEF Newest, cache
    <3>2. CASE q # p \/ held[p].kind # "job"
      BY <2>1, <2>3, <3>1, <3>2 DEF Came, copier
    <3>3. CASE q = p /\ held[p].kind = "job"
      BY <2>3, <3>1, <3>3 DEF Comes
    <3> QED BY <3>2, <3>3
  <2>6. conn' = conn /\ Due' = Due /\ on' = on /\ Walks("set")' = Walks("set")
    BY <2>1 DEF pools, walks, Due, Walks
  <2>7. \A q \in Pools : Fresh(q)' => Fresh(q)
    BY <2>1 DEF Fresh, cache
  <2> QED BY <2>4, <2>5, <2>6, <2>7, JobsKept DEF Workers
<1>4. ASSUME NEW p \in Pools, Reuse(p) PROVE JobComes'
  <2>1. pc'["set"] = "hold" /\ on'["set"] = conn'
    BY <1>4 DEF Reuse, Target, Goes, Workers
  <2> QED BY <2>1 DEF JobComes, Due, Walks
<1>5. ASSUME NEW p \in Pools, Dial(p) PROVE JobComes'
  <2>1. /\ UNCHANGED <<pools, cache, held, ch, copier>> /\ p # conn
        /\ reader' = [reader EXCEPT ![p] = "idle"]
        /\ pc["set"] = "idle" /\ pc'["set"] = "write"
    BY <1>5 DEF Dial, Target, Goes, Workers
  <2>2. \A w \in Workers : Walks(w) => SameWalk(w)
    BY <1>5 DEF Dial, Target, Goes, Walks, SameWalk, Workers
  <2>3. Comes(conn) => Comes(conn)'
    <3>1. PICK q \in Pools : q = conn
      OBVIOUS
    <3>2. InHand(q) => InHand(q)'
      BY <2>1, <3>1 DEF InHand, pools
    <3>3. Comes(q) => Comes(q)'
      BY <2>1, <2>2, <3>2, ComesKept DEF Resends, cache
    <3> QED BY <2>1, <3>1, <3>3 DEF pools
  <2>4. (Came(conn) => Came(conn)') /\ (Fresh(conn)' => Fresh(conn))
    BY <2>1 DEF Came, Newest, NoJob, copier, Fresh, pools, cache
  <2> QED BY <2>1, <2>3, <2>4 DEF JobComes, Due, Walks
<1>6. ASSUME \/ \E w \in Workers : Write(w) \/ Register(w)
             \/ DialFails \/ Open \/ Configure \/ Subscribe \/ Authorize \/ Choose
      PROVE  JobComes'
  <2>1. /\ UNCHANGED <<cache, readers, ch, conn, cached, step, end, carry>>
        /\ \A q \in Pools : reading[q] => reading'[q]
    BY <1>6 DEF Write, Register, DialFails, Open, SetReading, Configure, Subscribe, Authorize,
                Choose, pools, walks, Workers
  <2>2. \A w \in Workers : (Walks(w) => SameWalk(w)) /\ (Walks(w)' => Walks(w))
    BY <1>6 DEF Write, Register, DialFails, Open, Configure, Subscribe, Authorize, Choose,
                Goes, Walks, SameWalk, walks, Workers
  <2>3. Due' = Due
    BY <1>6, <2>1 DEF Write, Register, DialFails, Open, Configure, Subscribe, Authorize, Choose,
                      Goes, Due, Worked, walks, Workers
  <2>4. miner'.job = miner.job /\ (from' = from \/ (from' = conn /\ from = NoPool))
    BY <1>6 DEF Write, Register, DialFails, Open, Configure, Subscribe, Authorize, Choose, copier
  <2>5. \A q \in Pools : Comes(q) => Comes(q)'
    <3> SUFFICES ASSUME NEW q \in Pools PROVE Comes(q) => Comes(q)'
      OBVIOUS
    <3>1. InHand(q) => InHand(q)'
      BY <2>1 DEF InHand, readers
    <3> QED BY <2>1, <2>2, <3>1, ComesKept DEF Resends, cache
  <2>6. Came(conn) => Came(conn)'
    BY <2>1, <2>4 DEF Came, Newest, NoJob, cache
  <2>7. \A q \in Pools : Fresh(q)' => Fresh(q)
    BY <2>1 DEF Fresh, cache
  <2>8. ASSUME Walks("set")' PROVE on'["set"] = on["set"] /\ Walks("set")
    BY <2>2, <2>8 DEF SameWalk, Workers
  <2>9. ~Due' /\ Fresh(conn)' => (Comes(conn) \/ Came(conn))'
    <3>1. PICK q \in Pools : q = conn /\ q = conn'
      BY <2>1
    <3> QED BY <2>3, <2>5, <2>6, <2>7, <3>1 DEF JobComes
  <2>10. ASSUME Walks("set")', (on["set"] # conn)', Fresh(on["set"])' PROVE Comes(on["set"])'
    <3>1. PICK q \in Pools : q = on["set"] /\ q = on'["set"]
      BY <2>8, <2>10 DEF Workers
    <3> QED BY <2>1, <2>5, <2>7, <2>8, <2>10, <3>1 DEF JobComes
  <2> QED BY <2>9, <2>10 DEF JobComes
<1>7. ASSUME NEW w \in Workers, SendSetup(w) PROVE JobComes'
  <2>1. /\ UNCHANGED <<pools, jobs, size, readers, copier, on, carry>>
        /\ pc[w] = "setup" /\ pc' = [pc EXCEPT ![w] = "walk"]
        /\ step' = [step EXCEPT ![w] = 1] /\ end' = [end EXCEPT ![w] = size[on[w]]]
        /\ Send(on[w], Message(Setup, 0)) /\ on[w] \in Pools
        /\ raced' \in {raced, raced \ {on[w]}}
    BY <1>7 DEF SendSetup, Goes
  <2>2. \A v \in Workers : Walks(v) => SameWalk(v)
    BY <2>1 DEF Walks, SameWalk
  <2>3. /\ \A q \in Pools \ {on[w]} : ch'[q] = ch[q]
        /\ \A j \in Jobs : Lasts(ch[on[w]], j) => Lasts(ch'[on[w]], j)
        /\ NoJob(ch[on[w]]) => NoJob(ch'[on[w]])
    BY <1>00, <2>1, MessageKinds, Sent
  <2>4. ASSUME NEW q \in Pools PROVE Comes(q) => Comes(q)'
    <3>1. InHand(q) => InHand(q)'
      BY <2>1 DEF InHand, pools, readers
    <3>2. Lasts(ch[q], Newest(q)) => Newest(q) \in Jobs
      BY <1>00, MessageKinds DEF Lasts, ChannelTypes
    <3>3. Lasts(ch[q], Newest(q)) => Lasts(ch'[q], Newest(q))
      BY <2>3, <3>2
    <3> QED BY <2>1, <2>2, <3>1, <3>3, ComesKept DEF Resends
  <2>5. ASSUME NEW q \in Pools PROVE Came(q) => Came(q)'
    BY <2>1, <2>3 DEF Came, Newest, copier
  <2>6. PICK p \in Pools : p = on[w] /\ p = on'[w]
    BY <2>1
  <2>7. ASSUME Fresh(p)' PROVE Comes(p)'
    <3>1. step'[w] <= end'[w] /\ pc'[w] = "walk"
      BY <2>1, <2>6, <2>7 DEF Fresh
    <3>2. ToBeResent(p)'
      BY <2>6, <3>1 DEF ToBeResent, Walks
    <3> QED BY <3>2 DEF Comes
  <2>8. ASSUME NEW q \in Pools, q # p, Fresh(q)' PROVE Fresh(q)
    BY <2>1, <2>6, <2>8 DEF Fresh
  <2>9. ASSUME ~Due', Fresh(conn)' PROVE (Comes(conn) \/ Came(conn))'
    <3>1. PICK q \in Pools : q = conn /\ q = conn'
      BY <2>1 DEF pools
    <3>2. CASE q = p
      BY <2>7, <2>9, <3>1, <3>2
    <3>3. CASE q # p
      <4>1. ~Due
        BY <2>1, <2>6, <2>9, <3>1, <3>3 DEF Due, pools, Workers
      <4>2. Comes(q) \/ Came(q)
        BY <2>8, <2>9, <3>1, <3>3, <4>1 DEF JobComes
      <4> QED BY <2>4, <2>5, <3>1, <4>2
    <3> QED BY <3>2, <3>3
  <2>10. ASSUME Walks("set")', (on["set"] # conn)', Fresh(on["set"])' PROVE Comes(on["set"])'
    <3>1. PICK q \in Pools : q = on["set"] /\ q = on'["set"]
      BY <2>1 DEF Workers
    <3>2. CASE q = p
      BY <2>7, <2>10, <3>1, <3>2
    <3>3. CASE q # p
      <4>1. Walks("set")
        BY <2>1, <2>6, <2>10, <3>1, <3>3 DEF Walks, Workers
      <4>2. Comes(q)
        BY <2>1, <2>8, <2>10, <3>1, <3>3, <4>1 DEF JobComes, pools
      <4> QED BY <2>4, <3>1, <4>2
    <3> QED BY <3>2, <3>3
  <2> QED BY <2>9, <2>10 DEF JobComes
<1>8. ASSUME NEW w \in Workers, Fetch(w) \/ Push(w) PROVE JobComes'
  <2>1. /\ UNCHANGED <<pools, cache, readers, copier, on, end>>
        /\ Walks(w) /\ Walks(w)' /\ \A v \in Workers \ {w} : SameWalk(v)
    BY <1>8 DEF Fetch, Push, Goes, Walks, SameWalk
  <2>2. PICK p \in Pools : p = on[w]
    OBVIOUS
  <2>3. p \notin raced => Comes(p)'
    <3>1. on'[w] = on[w]
      BY <2>1
    <3> QED BY <1>8, <2>2, <3>1, StillResent
  <2>4. \A q \in Pools \ {p} : ch'[q] = ch[q]
    <3>1. CASE Fetch(w)
      BY <3>1 DEF Fetch
    <3>2. CASE Push(w)
      BY <2>2, <3>2 DEF Push, Send
    <3> QED BY <1>8, <3>1, <3>2
  <2>5. ASSUME NEW q \in Pools \ {p} PROVE (Comes(q) => Comes(q)') /\ (Came(q) => Came(q)')
    <3>1. InHand(q) => InHand(q)'
      BY <2>1 DEF InHand, pools, readers
    <3>2. \A v \in Workers : Resends(v, q) => SameWalk(v)
      BY <2>1, <2>2 DEF Resends
    <3>3. Came(q) => Came(q)'
      BY <2>1, <2>4 DEF Came, Newest, cache, copier
    <3> QED BY <2>1, <2>4, <3>1, <3>2, <3>3, ComesKept DEF cache
  <2>6. \A q \in Pools : Fresh(q)' => Fresh(q) /\ q \notin raced
    BY <2>1 DEF Fresh, cache
  <2>7. /\ conn' = conn /\ Due' = Due /\ on' = on
        /\ Walks("set")' => Walks("set")
    <3>1. pc'["set"] = pc["set"] \/ w = "set"
      BY <2>1 DEF SameWalk, Workers
    <3>2. pc["set"] \in {"hold", "setup"} <=> pc'["set"] \in {"hold", "setup"}
      BY <2>1, <3>1 DEF Walks
    <3>3. Walks("set")' => Walks("set")
      BY <2>1, <3>1 DEF Walks
    <3>4. conn' = conn /\ on' = on
      BY <2>1 DEF pools
    <3> QED BY <3>2, <3>3, <3>4 DEF Due
  <2>8. ASSUME NEW q \in Pools, Fresh(q)'
        PROVE  Fresh(q) /\ (Comes(q) => Comes(q)') /\ (Came(q) => Comes(q)' \/ Came(q)')
    BY <2>3, <2>5, <2>6, <2>8
  <2> QED BY <2>7, <2>8, JobsKept DEF Workers
<1>9. ASSUME Hold PROVE JobComes'
  <2>1. /\ UNCHANGED <<conn, cached, cache, readers, ch, copier, walks>>
        /\ pc["set"] = "hold" /\ pc' = [pc EXCEPT !["set"] = "setup"]
        /\ reading' = [reading EXCEPT ![on["set"]] = FALSE]
    BY <1>9 DEF Hold, Goes, SetReading
  <2>2. CASE on["set"] = conn
    BY <2>1, <2>2 DEF JobComes, Due, Walks, walks, Workers
  <2>3. CASE on["set"] # conn
    <3>1. PICK q \in Pools : q = conn
      OBVIOUS
    <3>2. InHand(q) => InHand(q)'
      BY <2>1, <2>3, <3>1 DEF InHand, readers
    <3>3. \A w \in Workers : Walks(w) => SameWalk(w)
      BY <2>1 DEF Walks, SameWalk, walks
    <3>4. Comes(q) => Comes(q)'
      BY <2>1, <3>2, <3>3, ComesKept DEF Resends, cache
    <3>5. (Came(q) => Came(q)') /\ (Fresh(q)' => Fresh(q))
      BY <2>1 DEF Came, Newest, NoJob, cache, copier, Fresh
    <3>6. ~Due /\ conn' = conn
      BY <2>1, <2>3 DEF Due
    <3>7. ~Walks("set")'
      BY <2>1 DEF Walks, Workers
    <3>8. Fresh(conn)' => (Comes(conn) \/ Came(conn))'
      BY <3>1, <3>4, <3>5, <3>6 DEF JobComes
    <3> QED BY <3>7, <3>8 DEF JobComes
  <2> QED BY <2>2, <2>3
<1>10. ASSUME NEW w \in Workers, Walked(w), Goes(w, "walk", IF w = "set" THEN "idle" ELSE "done"),
              UNCHANGED <<cache, readers, ch, carry, copier>>,
              \A q \in Pools : reading[q] => reading'[q]
       PROVE  \A q \in Pools : /\ Comes(q) => Comes(q)'
                               /\ Came(q) => Came(q)'
                               /\ Fresh(q)' => Fresh(q)
  <2>1. \A v \in Workers : \A q \in Pools : Resends(v, q) => SameWalk(v)
    <3>1. ~Resends(w, on[w]) /\ \A q \in Pools : Resends(w, q) => q = on[w]
      <4>1. step[w] > end[w] /\ pc[w] = "walk"
        BY <1>10 DEF Walked, Goes
      <4>2. step[w] \in Nat /\ end[w] \in Nat
        BY DEF RoutingInv, TypeOK
      <4> QED BY <4>1, <4>2 DEF Resends
    <3>2. \A v \in Workers : v # w => SameWalk(v)
      BY <1>10 DEF Walked, Goes, SameWalk
    <3> QED BY <3>1, <3>2
  <2> SUFFICES ASSUME NEW q \in Pools
               PROVE  /\ Comes(q) => Comes(q)'
                      /\ Came(q) => Came(q)'
                      /\ Fresh(q)' => Fresh(q)
    OBVIOUS
  <2>2. InHand(q) => InHand(q)'
    BY <1>10 DEF InHand, readers
  <2>3. Comes(q) => Comes(q)'
    BY <1>10, <2>1, <2>2, ComesKept DEF cache
  <2>4. (Came(q) => Came(q)') /\ (Fresh(q)' => Fresh(q))
    BY <1>10 DEF Came, Newest, NoJob, cache, copier, Fresh
  <2> QED BY <2>3, <2>4
<1>11. ASSUME Release \/ Resent PROVE JobComes'
  <2>1. CASE Release
    <3>1. /\ pc["set"] = "walk" /\ pc'["set"] = "idle" /\ conn' = on["set"]
          /\ \A q \in Pools : reading[q] => reading'[q]
      BY <2>1 DEF Release, Goes, SetReading, Workers
    <3>2. \A q \in Pools : (Comes(q) => Comes(q)') /\ (Came(q) => Came(q)') /\ (Fresh(q)' => Fresh(q))
      BY <2>1, <3>1, <1>10 DEF Release, Workers
    <3>3. PICK p \in Pools : p = on["set"] /\ p = conn'
      BY <3>1 DEF Workers
    <3>4. Walks("set") /\ ~Due /\ ~Walks("set")'
      BY <3>1 DEF Walks, Due
    <3>5. Fresh(p) => Comes(p) \/ Came(p)
      BY <3>3, <3>4 DEF JobComes
    <3>6. Fresh(conn)' => (Comes(conn) \/ Came(conn))'
      BY <3>2, <3>3, <3>5
    <3> QED BY <3>4, <3>6 DEF JobComes
  <2>2. CASE Resent
    <3>1. /\ UNCHANGED <<pools, cache, readers, ch, carry, copier>>
          /\ pc'["set"] = pc["set"] /\ on'["set"] = on["set"]
      BY <2>2 DEF Resent, Goes, Walked, Workers
    <3>2. \A q \in Pools : (Comes(q) => Comes(q)') /\ (Came(q) => Came(q)') /\ (Fresh(q)' => Fresh(q))
      BY <2>2, <3>1, <1>10 DEF Resent, Workers, pools
    <3>3. conn' = conn /\ Due' = Due /\ Walks("set")' = Walks("set")
      BY <3>1 DEF pools, Due, Walks
    <3> QED BY <3>1, <3>2, <3>3, JobsKept DEF Workers
  <2> QED BY <1>11, <2>1, <2>2
<1>12. ASSUME Receive PROVE JobComes'
  <2> DEFINE m == Head(ch[from])
  <2>1. /\ from \in cached /\ ch[from] \in Seq(Messages) /\ ch[from] # <<>>
        /\ ch' = [ch EXCEPT ![from] = Tail(ch[from])] /\ miner' = Told(m) /\ from' = NoPool
        /\ UNCHANGED <<pools, cache, readers, requests, pc, walks>>
    BY <1>00, <1>12 DEF Receive, Worked, ChannelTypes
  <2>2. miner'.job = IF m.kind = "job" THEN m.job ELSE miner.job
    <3> HIDE DEF m
    <3> QED BY <2>1, MessageKinds DEF Told
  <2>3. PICK f \in Pools : f = from
    BY <2>1
  <2>4. \A w \in Workers : SameWalk(w)
    BY <2>1 DEF SameWalk, walks
  <2>5. ASSUME NEW q \in Pools, q # f PROVE Comes(q) => Comes(q)'
    <3>1. InHand(q) => InHand(q)'
      BY <2>1 DEF InHand, pools, readers
    <3>2. ch'[q] = ch[q]
      BY <2>1, <2>3, <2>5
    <3> QED BY <2>1, <2>4, <3>1, <3>2, ComesKept DEF cache
  <2>6. ASSUME NEW q \in Pools, q # f PROVE ~Came(q)
    BY <2>3, <2>6 DEF Came
  <2>7. Newest(f)' = Newest(f) /\ ch'[f] = Tail(ch[f])
    BY <2>1, <2>3 DEF Newest, cache
  <2>8. Came(f) => Came(f)'
    <3>1. NoJob(ch[f]) => NoJob(Tail(ch[f])) /\ m.kind # "job"
      BY <2>1, <2>3, Received
    <3> HIDE DEF m
    <3> QED BY <2>1, <2>2, <2>7, <3>1 DEF Came
  <2>9. Comes(f) => Comes(f)' \/ Came(f)'
    <3>1. Lasts(ch[f], Newest(f)) => \/ Lasts(Tail(ch[f]), Newest(f))
                                     \/ (NoJob(Tail(ch[f])) /\ m.kind = "job" /\ m.job = Newest(f))
      BY <2>1, <2>3, Received
    <3>2. InHand(f) => InHand(f)'
      BY <2>1 DEF InHand, pools, readers
    <3>3. ToBeResent(f) => ToBeResent(f)'
      BY <2>4, <2>7 DEF ToBeResent, SameWalk, Walks
    <3>4. Lasts(ch[f], Newest(f)) => Lasts(ch[f], Newest(f))' \/ Came(f)'
      <4> HIDE DEF m
      <4> QED BY <2>1, <2>2, <2>7, <3>1 DEF Came
    <3> QED BY <3>2, <3>3, <3>4 DEF Comes
  <2>10. conn' = conn /\ Due' = Due /\ on' = on /\ Walks("set")' = Walks("set")
    BY <2>1 DEF pools, walks, Due, Walks
  <2>11. \A q \in Pools : Fresh(q)' => Fresh(q)
    BY <2>1 DEF Fresh, cache
  <2>12. ASSUME ~Due', Fresh(conn)' PROVE (Comes(conn) \/ Came(conn))'
    <3>1. PICK q \in Pools : q = conn /\ q = conn'
      BY <2>10
    <3>2. Comes(q) \/ Came(q)
      BY <2>10, <2>11, <2>12, <3>1 DEF JobComes
    <3> QED BY <2>5, <2>6, <2>8, <2>9, <3>1, <3>2
  <2>13. ASSUME Walks("set")', (on["set"] # conn)', Fresh(on["set"])' PROVE Comes(on["set"])'
    <3>1. PICK q \in Pools : q = on["set"] /\ q = on'["set"]
      BY <2>10 DEF Workers
    <3>2. Comes(q)
      BY <2>10, <2>11, <2>13, <3>1 DEF JobComes
    <3>3. q # f
      BY <2>1, <2>3, <2>10, <2>13, <3>1 DEF Worked, Walks, Resending
    <3> QED BY <2>5, <3>1, <3>2, <3>3
  <2> QED BY <2>12, <2>13 DEF JobComes
<1> QED
  BY <1>1, <1>2, <1>3, <1>4, <1>5, <1>6, <1>7, <1>8, <1>9, <1>11, <1>12, Actions

-----------------------------------------------------------------------------
(* The invariant.                                                           *)

LEMMA InitRouting == Init => RoutingInv
<1> SUFFICES ASSUME Init PROVE RoutingInv
  OBVIOUS
<1> USE PoolsAssumption, CapAssumption, MessageKinds DEF Init, Workers
<1>1. TypeOK
  <2>1. /\ PoolTypes /\ ReaderTypes /\ RequestTypes
    BY DEF PoolTypes, ReaderTypes, RequestTypes
  <2>2. CacheTypes
    BY DEF CacheTypes, Jobs
  <2>3. ChannelTypes
    <3>1. /\ <<Message(Setup, 0)>> \in Seq(Messages) /\ <<>> \in Seq(Messages)
          /\ Len(<<Message(Setup, 0)>>) <= Cap /\ Len(<<>>) <= Cap
      OBVIOUS
    <3> QED BY <3>1 DEF ChannelTypes
  <2>4. PlaceTypes
    BY DEF PlaceTypes, Places
  <2>5. WalkTypes
    <3>1. 1 \in 1..(MaxJobs + 2) /\ 0 \in 0..MaxJobs /\ 0 \in 0..MaxSwitches
      OBVIOUS
    <3> QED BY <3>1 DEF WalkTypes
  <2>6. CopierTypes
    BY DEF CopierTypes
  <2> QED BY <2>1, <2>2, <2>3, <2>4, <2>5, <2>6, TypeParts
<1>2. Carried
  BY DEF Carried, Walks
<1>3. Worked
  BY DEF Worked, Resending
<1>4. HoldWindow
  BY DEF HoldWindow
<1>5. SetupComes
  <2>1. HasSetup(<<Message(Setup, 0)>>)
    BY DEF HasSetup
  <2> QED BY <2>1 DEF SetupComes, Walks
<1>6. Ordered
  <2>1. \A p \in Pools : size[p] = 0 /\ reader[p] \notin {"check", "emit"}
    BY Zenon
  <2>2. \A p \in Pools : \A n \in Jobs : jobs[p][n] = 0
    BY Zenon
  <2>3. made = 0 /\ 0 <= 0 /\ ~(0 > 0)
    OBVIOUS
  <2> HIDE PoolsAssumption, CapAssumption, MessageKinds DEF Init, Workers
  <2> QED BY <2>1, <2>2, <2>3, Zenon DEF Ordered
<1>7. Whole
  BY DEF Whole, Walks
<1>8. JobComes
  BY DEF JobComes, Fresh, Walks
<1> QED
  BY <1>1, <1>2, <1>3, <1>4, <1>5, <1>6, <1>7, <1>8 DEF RoutingInv

LEMMA RoutingStep == RoutingInv /\ [Next]_vars => RoutingInv'
<1> SUFFICES ASSUME RoutingInv, [Next]_vars PROVE RoutingInv'
  OBVIOUS
<1>1. CASE Next
  BY <1>1, TypeStep, CarriedStep, WorkedStep, HoldStep, SetupStep, OrderedStep, WholeStep, JobStep
  DEF RoutingInv
<1>2. CASE UNCHANGED vars
  <2>1. UNCHANGED <<pools, cache, readers, ch, requests, pc, walks, copier>>
    BY <1>2 DEF vars
  <2>2. TypeOK'
    BY <2>1, TypeParts, TypesFramed DEF RoutingInv
  <2> USE <2>1 DEF RoutingInv, pools, cache, readers, walks, copier, Walks, Newest, Due
  <2>3. Carried' /\ Worked' /\ HoldWindow' /\ SetupComes'
    BY DEF Carried, Worked, HoldWindow, SetupComes
  <2>4. Ordered' /\ Whole'
    BY DEF Ordered, Whole
  <2>5. JobComes'
    BY DEF JobComes, Comes, Came, Fresh, ToBeResent, InHand
  <2> QED BY <2>2, <2>3, <2>4, <2>5 DEF RoutingInv
<1> QED
  BY <1>1, <1>2

-----------------------------------------------------------------------------
(* What the invariant says of a settled miner.                              *)

\* Every variable of the routing keeps its type; in particular the channels hold messages
\* and never more than their capacity, and a job that is resent is one that was cached.
THEOREM RoutingTypeCorrect == Spec => []TypeOK
<1>1. RoutingInv => TypeOK
  BY DEF RoutingInv
<1> QED
  BY <1>1, InitRouting, RoutingStep, PTL DEF Spec

\* A connected pool is on hold only while SetDest resends what it has cached
\* (stratum_v1_pool_conn.go:186), and a pool whose handshake is not
\* over has put nothing into its channel.
THEOREM HeldOnlyToResend == Spec => []HoldWindow
<1>1. RoutingInv => HoldWindow
  BY DEF RoutingInv
<1> QED
  BY <1>1, InitRouting, RoutingStep, PTL DEF Spec

\* Whatever calls of SetDest there were, reused connections and dialled ones, and whatever
\* the copy loop was doing: a settled miner works with the extranonce of the current pool.
THEOREM SettledOnCurrentPool == Spec => []OnCurrentPool
<1>1. RoutingInv => OnCurrentPool
  <2> SUFFICES ASSUME RoutingInv, Settled PROVE miner.setup = conn
    BY DEF OnCurrentPool
  <2>1. ~Due /\ ch[conn] = <<>>
    BY DEF Settled, Due
  <2>2. ~HasSetup(ch[conn])
    BY <2>1 DEF HasSetup
  <2> QED BY <2>1, <2>2 DEF RoutingInv, SetupComes
<1> QED
  BY <1>1, InitRouting, RoutingStep, PTL DEF Spec

\* A settled miner has the newest job its pool has announced, unless a job of that pool
\* came while its cached ones were being resent.
THEOREM SettledHasNewestJob == Spec => []JobFresh
<1>1. RoutingInv => JobFresh
  <2> SUFFICES ASSUME RoutingInv, Settled, size[conn] > 0, conn \notin raced
               PROVE  \A n \in Jobs : jobs[conn][n] <= miner.job /\ miner.job \in Cached(conn)
    BY DEF JobFresh
  <2>1. conn \in Pools /\ size[conn] \in Nat
    BY CapAssumption DEF RoutingInv, TypeOK
  <2>2. ~Due /\ Fresh(conn) /\ \A w \in Workers : ~Walks(w)
    BY DEF Settled, Due, Fresh, Walks, Workers
  <2>3. Comes(conn) \/ Came(conn)
    BY <2>2 DEF RoutingInv, JobComes
  <2>4. ~Comes(conn)
    BY <2>2 DEF Comes, ToBeResent, InHand, Lasts, Settled
  <2>5. miner.job = Newest(conn)
    BY <2>3, <2>4 DEF Came
  <2>6. \A n \in Jobs : jobs[conn][n] <= Newest(conn)
    BY <2>1 DEF RoutingInv, Ordered
  <2>7. Newest(conn) \in Cached(conn)
    BY <2>1 DEF Newest, Cached
  <2> QED BY <2>5, <2>6, <2>7
<1> QED
  BY <1>1, InitRouting, RoutingStep, PTL DEF Spec

\* A switch does not get stuck: when the node has come to rest and the miner has not been
\* given up, the miner works with the current pool, unless the copy loop waits for a former
\* pool that says nothing (stratum_v1_pool_conn_pool.go:87), or was never started because
\* the channel was full by then.
THEOREM SwitchesComeThrough == Spec => []SwitchTakesEffect
<1>1. RoutingInv => SwitchTakesEffect
  <2> SUFFICES ASSUME RoutingInv, ~Gone, pc["run"] \in Resending \cup {"done"}, Quiet,
                      ~(from \notin {NoPool, conn} /\ ch[from] = <<>>),
                      ~(pc["run"] # "done" /\ Len(ch[on["run"]]) = Cap)
               PROVE  miner.setup = conn
    BY DEF SwitchTakesEffect
  <2>1. pc["run"] = "done"
    BY DEF Quiet, Full, Resending, Workers
  <2>2. from = conn /\ ch[conn] = <<>>
    BY <2>1 DEF Quiet
  <2>3. ~Due
    <3>1. Len(ch[conn]) # Cap
      BY <2>2, CapAssumption
    <3> QED BY <3>1 DEF Due, Quiet, Full, Workers
  <2>4. ~HasSetup(ch[conn])
    BY <2>2 DEF HasSetup
  <2> QED BY <2>3, <2>4 DEF RoutingInv, SetupComes
<1> QED
  BY <1>1, InitRouting, RoutingStep, PTL DEF Spec
=============================================================================
