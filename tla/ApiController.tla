---------------------------- MODULE ApiController ----------------------------
(***************************************************************************)
(* api/controller.go: the HTTP requests, each handled by a goroutine of    *)
(* its own that ranges over a sync.Map while miners come and go, and the   *)
(* fulfilment of a contract made by POST /contracts, which has no listener *)
(* and no blockchain: nothing closes it.  A Range meets every item that    *)
(* stays, once, and may meet one that joins.                               *)
(***************************************************************************)
EXTENDS Integers, Sequences, FiniteSets, Functions

CONSTANTS Rigs,      \* miners, numbered in the order of their ids
          Requests   \* bound: the requests, numbered; a contract has its request's number

ASSUME ApiAssumption == IsFiniteSet(Rigs) /\ Rigs \subseteq Nat /\ Requests \subseteq Nat \ {0}

VARIABLES rig,       \* each miner: not there yet, being vetted, vetted, gone
          share,     \* the contracts made here that have a share of each miner
          req,       \* what is asked, where its handler stands, what it has met, the reply
          contracts, \* the collection of contracts, as far as they were made here
          posted,    \* each contract: the parameters that were sound, c.state, its fulfilment
          \* history:
          stayed,    \* the items that were in the collection ever since the request began
          changed    \* the miners each request has moved

apiVars == <<rig, share, req, contracts, posted, stayed, changed>>

Parameters == {"dest", "hrGHS", "duration"}
NoRequest == [kind |-> "none", st |-> "new", seen |-> {}, rows |-> <<>>, status |-> 0]
rigs == {m \in Rigs : rig[m] \in {"vetting", "vetted"}}   \* the collection of miners
NoContract == [sound |-> {}, state |-> "available", run |-> "off"]

ApiTypeOK ==
    /\ rig \in [Rigs -> {"absent", "vetting", "vetted", "gone"}] /\ contracts \subseteq Requests
    /\ share \in [Rigs -> SUBSET Requests]
    /\ \A r \in Requests :
          /\ req[r].kind \in {"none", "change", "miners", "contracts", "post"}
          /\ req[r].st \in {"new", "range", "store", "done"}
          /\ req[r].status \in {0, 200, 400, 500} /\ (req[r].status # 0) = (req[r].st = "done")
          /\ posted[r].sound \subseteq Parameters
          /\ posted[r].state \in {"available", "purchased", "running"}
          /\ posted[r].run \in {"off", "start", "running", "over"}

ApiInit ==
    /\ rig \in [Rigs -> {"absent", "vetted"}]
    /\ share = [m \in Rigs |-> {}]
    /\ req = [r \in Requests |-> NoRequest]
    /\ contracts = {} /\ posted = [r \in Requests |-> NoContract]
    /\ stayed = [r \in Requests |-> {}] /\ changed = stayed
-----------------------------------------------------------------------------
(* Requests. *)

requestUnchanged == UNCHANGED <<rig, share>>
Asks(r, kind) == req[r].kind = "none" /\ \A q \in Requests : q < r => req[q].kind # "none"
Ranges(r, kind) == req[r].kind = kind /\ req[r].st = "range"
Replies(r, status) == req' = [req EXCEPT ![r].st = "done", ![r].status = status]

\* Collection.Range: an item it has not met.
Meets(r, items) == items \ req[r].seen

\* The handler begins to range over a collection.
Begins(r, kind, items) ==
    /\ Asks(r, kind)
    /\ req' = [req EXCEPT ![r].kind = kind, ![r].st = "range"]
    /\ stayed' = [stayed EXCEPT ![r] = items]

\* POST /miners/change-dest; changeDestAll.
ChangeDestAll(r) == /\ Begins(r, "change", rigs)
                    /\ UNCHANGED <<contracts, posted, changed>> /\ requestUnchanged

\* Without a destination, or with one that cannot be parsed.
ChangeDestRefused(r, status) ==
    /\ Asks(r, "change")
    /\ req' = [req EXCEPT ![r] = [NoRequest EXCEPT !.kind = "change", !.st = "done", !.status = status]]
    /\ UNCHANGED <<contracts, posted, stayed, changed>> /\ requestUnchanged

\* OnDemandMinerScheduler.ChangeDest: the miner is moved now (PoolSwitch has how), and its
\* own cycle, which is not told, will move it again.
ChangeDest(r, m) ==
    /\ Ranges(r, "change") /\ m \in Meets(r, rigs)
    /\ req' = [req EXCEPT ![r].seen = @ \cup {m}]
    /\ changed' = [changed EXCEPT ![r] = @ \cup {m}]
    /\ UNCHANGED <<contracts, posted, stayed>> /\ requestUnchanged

\* The first error ends the range; the miners met before it stay where they were moved.
ChangeDestFails(r, m) ==
    /\ Ranges(r, "change") /\ m \in Meets(r, rigs)
    /\ Replies(r, 500)
    /\ UNCHANGED <<contracts, posted, stayed, changed>> /\ requestUnchanged

ChangeDestEnds(r) ==
    /\ Ranges(r, "change") /\ stayed[r] \subseteq req[r].seen
    /\ Replies(r, 200)
    /\ UNCHANGED <<contracts, posted, stayed, changed>> /\ requestUnchanged

Lists(r) == \/ Begins(r, "miners", rigs) \/ Begins(r, "contracts", contracts)
GetLists(r) == Lists(r) /\ UNCHANGED <<contracts, posted, changed>> /\ requestUnchanged

GetStatus(m) == IF rig[m] # "vetted" THEN "vetting" ELSE IF share[m] = {} THEN "free" ELSE "busy"
Row(r, x) == IF req[r].kind = "miners" THEN [id |-> x, says |-> GetStatus(x)]
             ELSE [id |-> x, says |-> posted[x].state]

\* GetMiners and GetContracts take down what they meet.
ListNext(r, x) ==
    /\ \/ Ranges(r, "miners") /\ x \in Meets(r, rigs)
       \/ Ranges(r, "contracts") /\ x \in Meets(r, contracts)
    /\ req' = [req EXCEPT ![r].seen = @ \cup {x}, ![r].rows = Append(@, Row(r, x))]
    /\ UNCHANGED <<contracts, posted, stayed, changed>> /\ requestUnchanged

\* The rows in the order of their ids.
Sorted(rows) ==
    {s \in {[k \in DOMAIN rows |-> rows[p[k]]] : p \in Bijection(DOMAIN rows, DOMAIN rows)} :
        \A i, j \in DOMAIN s : i < j => s[i].id <= s[j].id}

\* They are sorted at the end.
ListEnds(r) ==
    /\ Ranges(r, "miners") \/ Ranges(r, "contracts")
    /\ stayed[r] \subseteq req[r].seen
    /\ \E rows \in Sorted(req[r].rows) :
          req' = [req EXCEPT ![r].st = "done", ![r].status = 200, ![r].rows = rows]
    /\ UNCHANGED <<contracts, posted, stayed, changed>> /\ requestUnchanged

\* POST /contracts: every parameter that cannot be parsed aborts with 400, but the
\* handler goes on, with a zero in its place: the contract is fulfilled, and then stored.
PostContract(r, sound) ==
    /\ Asks(r, "post")
    /\ req' = [req EXCEPT ![r].kind = "post", ![r].st = "store"]
    /\ posted' = [posted EXCEPT ![r].sound = sound, ![r].run = "start"]
    /\ UNCHANGED <<contracts, stayed, changed>> /\ requestUnchanged

StoreContract(r) ==
    /\ req[r].kind = "post" /\ req[r].st = "store"
    /\ Replies(r, IF posted[r].sound = Parameters THEN 200 ELSE 400)
    /\ contracts' = contracts \cup {r}
    /\ UNCHANGED <<posted, stayed, changed>> /\ requestUnchanged
-----------------------------------------------------------------------------
(* What goes on meanwhile. *)

meanwhileUnchanged == UNCHANGED <<req, contracts, changed>>
RunsTo(c, run, state) == posted' = [posted EXCEPT ![c].run = run, ![c].state = state]

\* FulfillContract: a contract without a duration is over at once, one without a
\* hashrate is given no miner.
FulfillPosted(c) ==
    /\ posted[c].run = "start"
    /\ \/ /\ "duration" \notin posted[c].sound
          /\ RunsTo(c, "over", "purchased") /\ UNCHANGED share
       \/ /\ "duration" \in posted[c].sound
          /\ \E given \in SUBSET {m \in rigs : rig[m] = "vetted"} :
                /\ given = {} <=> "hrGHS" \notin posted[c].sound
                /\ share' = [m \in Rigs |-> IF m \in given THEN share[m] \cup {c} ELSE share[m]]
          /\ RunsTo(c, "running", "running")
       \/ /\ {"duration", "hrGHS"} \subseteq posted[c].sound    \* not enough hashrate
          /\ RunsTo(c, "over", "running") /\ UNCHANGED share
    /\ UNCHANGED <<rig, stayed>> /\ meanwhileUnchanged

\* UpdateCombination, every 30 seconds.
PostedAdjusts(c) ==
    /\ posted[c].run = "running" /\ "hrGHS" \in posted[c].sound
    /\ \E m \in rigs : /\ rig[m] = "vetted"
                       /\ share' = [share EXCEPT ![m] = IF c \in @ THEN @ \ {c} ELSE @ \cup {c}]
    /\ UNCHANGED <<rig, posted, stayed>> /\ meanwhileUnchanged

\* Its term is over, or its combination cannot be updated: FulfillContract returns an
\* error, which is logged.
PostedEnds(c) ==
    /\ posted[c].run = "running"
    /\ RunsTo(c, "over", "running")
    /\ UNCHANGED <<rig, share, stayed>> /\ meanwhileUnchanged

Leaves(m) ==
    /\ rig' = [rig EXCEPT ![m] = "gone"]
    /\ share' = [share EXCEPT ![m] = {}]
    /\ stayed' = [r \in Requests |-> IF req[r].kind \in {"change", "miners"} THEN stayed[r] \ {m}
                                     ELSE stayed[r]]
    /\ UNCHANGED posted /\ meanwhileUnchanged

RigLeaves(m) == m \in rigs /\ Leaves(m)
\* The turn of a share whose destination nobody can dial ends the miner's session.
TurnFails(m) == /\ m \in rigs /\ \E c \in share[m] : "dest" \notin posted[c].sound
                /\ Leaves(m)

RigBecomes(m, from, to) == /\ rig[m] = from
                           /\ rig' = [rig EXCEPT ![m] = to]
                           /\ UNCHANGED <<share, posted, stayed>> /\ meanwhileUnchanged
RigJoins(m) == RigBecomes(m, "absent", "vetting")
RigVetted(m) == RigBecomes(m, "vetting", "vetted")

ApiNext ==
    \/ \E r \in Requests :
          \/ ChangeDestAll(r) \/ ChangeDestRefused(r, 400) \/ ChangeDestRefused(r, 500)
          \/ ChangeDestEnds(r) \/ GetLists(r) \/ ListEnds(r)
          \/ \E sound \in SUBSET Parameters : PostContract(r, sound)
          \/ StoreContract(r) \/ FulfillPosted(r) \/ PostedAdjusts(r)
          \/ PostedEnds(r)
          \/ \E m \in Rigs : ChangeDest(r, m) \/ ChangeDestFails(r, m)
          \/ \E x \in Rigs \cup Requests : ListNext(r, x)
    \/ \E m \in Rigs :
          \/ RigLeaves(m) \/ TurnFails(m) \/ RigJoins(m) \/ RigVetted(m)
-----------------------------------------------------------------------------
\* 200 means that every miner that stayed was moved, though others may have been moved
\* before an error (controller.go:180); a list is sorted, names nothing twice and nothing
\* that stayed is missing; a contract that holds a share of a miner is listed as running
\* for ever, even when its term is over or its request was refused (controller.go:112).
ApiReports ==
    \A r \in Requests :
       /\ req[r].kind = "change" /\ req[r].status = 200 => stayed[r] \subseteq changed[r]
       /\ req[r].kind \in {"miners", "contracts"} /\ req[r].status = 200 =>
             /\ \A i, j \in DOMAIN req[r].rows : i < j => req[r].rows[i].id < req[r].rows[j].id
             /\ stayed[r] \subseteq {req[r].rows[i].id : i \in DOMAIN req[r].rows}
       /\ (\E m \in Rigs : r \in share[m]) => posted[r].state = "running"
       /\ posted[r].run = "over" => posted[r].state # "available"
=============================================================================
