----------------------------- MODULE Repository ------------------------------
(***************************************************************************)
(* data/inMemoryRepository.go, inMemoryDataStore.go: items are read and    *)
(* written by one goroutine that takes functions from an unbuffered        *)
(* channel.  Save is Create for an item without an id and Update for the   *)
(* others, FindOne is Get; Query and Delete do nothing.                    *)
(***************************************************************************)
EXTENDS Integers, FiniteSets

CONSTANTS Clients, Ids, Items,
          Absent,  \* no item
          MaxOps   \* bound: the operations called

ASSUME RepositoryAssumption == Absent \notin Items /\ MaxOps \in Nat

Transactions == {"get"} \X Ids \X {Absent} \cup {"put"} \X Ids \X Items
NoTransaction == <<"none", Absent, Absent>>

VARIABLES store,
          client,   \* what each client waits for: to hand over its function, or its result
          request,  \* the transaction it has called
          worker,   \* the goroutine: "idle", "busy", or "blocked" on a channel
          job,      \* the client and the transaction it works on
          ops,
          \* history:
          written,  \* the item each id had been given when the goroutine took a Get
          found     \* clients, items they were given, and items they should have been given

repositoryVars == <<store, client, request, worker, job, ops, written, found>>

RepositoryTypeOK == /\ store \in [Ids -> Items \cup {Absent}]
                    /\ client \in [Clients -> {"idle", "calls", "waits"}]
                    /\ request \in [Clients -> Transactions \cup {NoTransaction}]
                    /\ worker \in {"idle", "busy", "blocked"}
                    /\ ops \in 0..MaxOps
                    /\ written \in [Ids -> Items \cup {Absent}]

RepositoryInit == /\ store = [i \in Ids |-> Absent]
                  /\ client = [c \in Clients |-> "idle"]
                  /\ request = [c \in Clients |-> NoTransaction]
                  /\ worker = "idle" /\ job = <<>> /\ ops = 0
                  /\ written = store /\ found = {}

CallRepository(c, t) ==
    /\ client[c] = "idle" /\ ops < MaxOps
    /\ client' = [client EXCEPT ![c] = "calls"]
    /\ request' = [request EXCEPT ![c] = t]
    /\ ops' = ops + 1
    /\ UNCHANGED <<store, worker, job, written, found>>

\* The function is handed over: Create and Update return, Get waits for its result.
TakeTransaction(c) ==
    /\ client[c] = "calls" /\ worker = "idle"
    /\ worker' = "busy" /\ job' = <<c, request[c]>>
    /\ client' = [client EXCEPT ![c] = IF request[c][1] = "get" THEN "waits" ELSE "idle"]
    /\ request' = [request EXCEPT ![c] = NoTransaction]
    /\ written' = IF request[c][1] = "put" THEN [written EXCEPT ![request[c][2]] = request[c][3]]
                  ELSE written
    /\ UNCHANGED <<store, ops, found>>

Put == /\ worker = "busy" /\ job[2][1] = "put"
       /\ store' = [store EXCEPT ![job[2][2]] = job[2][3]]
       /\ worker' = "idle" /\ job' = <<>>
       /\ UNCHANGED <<client, request, ops, written, found>>

GetAbsent == /\ worker = "busy" /\ job[2][1] = "get" /\ store[job[2][2]] = Absent
             /\ client' = [client EXCEPT ![job[1]] = "idle"]
             /\ worker' = "idle" /\ job' = <<>>
             /\ found' = found \cup {<<job[1], Absent, written[job[2][2]]>>}
             /\ UNCHANGED <<store, request, ops, written>>

\* After the item the goroutine sends an error nobody waits for.
GetFound == /\ worker = "busy" /\ job[2][1] = "get" /\ store[job[2][2]] # Absent
            /\ client' = [client EXCEPT ![job[1]] = "idle"]
            /\ worker' = "blocked" /\ job' = <<>>
            /\ found' = found \cup {<<job[1], store[job[2][2]], written[job[2][2]]>>}
            /\ UNCHANGED <<store, request, ops, written>>

RepositoryNext == \/ \E c \in Clients, t \in Transactions : CallRepository(c, t)
                  \/ \E c \in Clients : TakeTransaction(c)
                  \/ Put \/ GetAbsent \/ GetFound
-----------------------------------------------------------------------------
\* Get returns the item last saved before it, though Save returns before it is stored.
\* The first Get that finds one is the last transaction (inMemoryRepository.go:57): the
\* goroutine is blocked after it, and only after it.
LastSaved ==
    /\ \A f \in found : f[2] = f[3]
    /\ Cardinality({f \in found : f[2] # Absent}) <= 1
    /\ worker = "blocked" <=> \E f \in found : f[2] # Absent
=============================================================================
