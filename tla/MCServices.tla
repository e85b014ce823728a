------------------------------ MODULE MCServices ------------------------------
(***************************************************************************)
(* The services of the node that one goroutine or one request at a time    *)
(* uses: the closeout worker, the HTTP requests, a counter of work, the    *)
(* configuration.  They share no state: a behaviour exercises one of them, *)
(* named by which, and the others stand still.  The back-off, and the two  *)
(* functions that nothing calls any more, have no state; of these two the  *)
(* behaviour is a single state.                                            *)
(***************************************************************************)
EXTENDS Closeout, ApiController, HashrateCounter, Config, Backoff, MeetInTheMiddle,
        MerkleRoot

VARIABLE which

MCBranches == 0..17
MCLists == {<<0, 0, 0, 0, 1, 1, 1, 9, 1>>, <<5, 3, 3, 1, 1, 3, 5, 6, 7, 8>>}

services == <<vars, apiVars, hashrateVars, configVars, which>>

ServicesInit ==
    /\ Init /\ NewHashrate /\ ConfigInit /\ ApiInit
    /\ which \in {"closeout", "api", "hashrate", "config", "functions"}
    /\ (which # "api" => rigs = {})

In(k) == which = k /\ UNCHANGED which
Closes == In("closeout") /\ UNCHANGED <<apiVars, hashrateVars, configVars>>
Serves == In("api") /\ UNCHANGED <<vars, hashrateVars, configVars>>
Counts == In("hashrate") /\ UNCHANGED <<vars, apiVars, configVars>>
Loads == In("config") /\ UNCHANGED <<vars, apiVars, hashrateVars>>

CloseoutStep ==
    \/ \E c \in Callers : (Closes /\ Call(c)) \/ (Closes /\ Start(c)) \/ (Closes /\ Reply(c))
    \/ (Closes /\ ReadNonce) \/ (Closes /\ Fail) \/ (Closes /\ Submit) \/ (Closes /\ ReplacePending)
    \/ (Closes /\ Settle) \/ (Closes /\ ForeignTx)

ApiStep ==
    \/ \E r \in Requests :
          \/ (Serves /\ ChangeDestAll(r)) \/ (Serves /\ ChangeDestEnds(r))
          \/ \E status \in {400, 500} : (Serves /\ ChangeDestRefused(r, status))
          \/ (Serves /\ GetLists(r)) \/ (Serves /\ ListEnds(r))
          \/ \E sound \in SUBSET Parameters : (Serves /\ PostContract(r, sound))
          \/ (Serves /\ StoreContract(r)) \/ (Serves /\ FulfillPosted(r))
          \/ (Serves /\ PostedAdjusts(r)) \/ (Serves /\ PostedEnds(r))
          \/ \E m \in Rigs : (Serves /\ ChangeDest(r, m)) \/ (Serves /\ ChangeDestFails(r, m))
          \/ \E y \in Rigs \cup Requests : (Serves /\ ListNext(r, y))
    \/ \E m \in Rigs : \/ (Serves /\ RigLeaves(m)) \/ (Serves /\ TurnFails(m))
                       \/ (Serves /\ RigJoins(m)) \/ (Serves /\ RigVetted(m))

CounterStep ==
    \/ (Counts /\ ClockTicks)
    \/ \E r \in Readers : \/ \E diff \in Diffs : (Counts /\ OnSubmit(r, diff))
                          \/ \E i \in Intervals : (Counts /\ Add(r, i))
                          \/ (Counts /\ AddTotal(r))

ConfigStep ==
    \/ (Loads /\ Configure) \/ (Loads /\ LoadEnv) \/ (Loads /\ ParseFlags)
    \/ (Loads /\ ValidateConfig) \/ (Loads /\ NewEthereumWallet)
    \/ (Loads /\ setPoolDurationConstraints)

ServicesNext == CloseoutStep \/ ApiStep \/ CounterStep \/ ConfigStep

\* Only the closeout worker owes anything to the scheduler of goroutines.
ServicesSpec == ServicesInit /\ [][ServicesNext]_services /\ Fairness
-----------------------------------------------------------------------------
\* The types of the services' state, and what those beside the closeout worker promise
\* (see ApiController, HashrateCounter, Config and Backoff).
ServicesSound == /\ TypeOK /\ ApiTypeOK /\ HashrateTypeOK /\ ConfigTypeOK
                 /\ ApiReports /\ HashrateCounted /\ ConfigFollows
                 /\ BackoffSound

\* The two functions compute what they are defined to (see MeetInTheMiddle, MerkleRoot).
FunctionsSound == which = "functions" => FindsClosest /\ RootIsDefined
=============================================================================
