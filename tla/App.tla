-------------------------------- MODULE App ----------------------------------
(***************************************************************************)
(* main.go, wire_gen.go, app/app.go, tcpserver/tcp_server.go, api/server.go*)
(* the process from the construction of its parts to its end.  The parts   *)
(* run as members of an errgroup: the first to return with an error        *)
(* cancels the context of all, and so does the first signal.  The contract *)
(* manager is modelled in Discovery.                                       *)
(***************************************************************************)
EXTENDS Integers, FiniteSets

CONSTANTS MaxConnections  \* bound: miner connections accepted

ASSUME AppAssumption == MaxConnections \in Nat

\* The providers that can fail, in the order InitApp calls them.
Providers == <<"config", "logger", "minerController", "ethClient", "ethWallet",
               "ethGateway", "contractManager">>
Components == {"tcp", "contracts", "api"}

VARIABLES app,       \* the process
          built,     \* providers that have returned
          part,      \* each component's Run
          cancelled, \* subCtx
          signals,   \* signals taken from shutdownChan
          handlers   \* connections in HandleConnection; nobody waits for them

appVars == <<app, built, part, cancelled, signals, handlers>>

AppTypeOK == /\ app \in {"init", "running", "exited", "panicked"}
             /\ built \in 0..Cardinality(DOMAIN Providers)
             /\ part \in [Components -> {"off", "up", "serving", "done"}]
             /\ cancelled \in BOOLEAN /\ signals \in 0..2
             /\ handlers \in 0..MaxConnections

AppInit == /\ app = "init" /\ built = 0
           /\ part = [k \in Components |-> "off"]
           /\ cancelled = FALSE /\ signals = 0 /\ handlers = 0

Live == app = "running"

\* One provider after the other, then App.Run starts the components.
InitApp ==
    /\ app = "init"
    /\ IF built < Cardinality(DOMAIN Providers)
       THEN built' = built + 1 /\ UNCHANGED <<app, part>>
       ELSE /\ app' = "running"
            /\ part' = [k \in Components |-> "up"]
            /\ UNCHANGED built
    /\ UNCHANGED <<cancelled, signals, handlers>>

\* main panics with the first error.
InitFails == /\ app = "init" /\ built < Cardinality(DOMAIN Providers)
             /\ app' = "panicked"
             /\ UNCHANGED <<built, part, cancelled, signals, handlers>>

\* A member of the group returns; every Run that returns before the context is
\* cancelled returns an error, which cancels it.
Returns(k) == /\ part' = [part EXCEPT ![k] = "done"]
              /\ cancelled' = TRUE

componentUnchanged == UNCHANGED <<app, built, signals, handlers>>

\* TCPServer.Run: the address is invalid or taken.  Later only the context ends it:
\* startAccepting goes on after every error, so serverErr stays empty.
ListenFails == /\ Live /\ part["tcp"] = "up"
               /\ Returns("tcp") /\ componentUnchanged

Bind == /\ Live /\ part["tcp"] = "up"
        /\ part' = [part EXCEPT !["tcp"] = "serving"]
        /\ UNCHANGED cancelled /\ componentUnchanged

Accept == /\ Live /\ part["tcp"] = "serving" /\ handlers < MaxConnections
          /\ handlers' = handlers + 1
          /\ UNCHANGED <<app, built, part, cancelled, signals>>

HandlerReturns == /\ Live /\ handlers > 0
                  /\ handlers' = handlers - 1
                  /\ UNCHANGED <<app, built, part, cancelled, signals>>

TCPStops == /\ Live /\ part["tcp"] = "serving" /\ cancelled
            /\ Returns("tcp") /\ componentUnchanged

\* Server.Run: ListenAndServe ends with an error, or Shutdown is called (with a
\* context that is over already, so it does not wait for requests).
ServeFails == /\ Live /\ part["api"] = "up"
              /\ Returns("api") /\ componentUnchanged

ServerStops == /\ Live /\ part["api"] = "up" /\ cancelled
               /\ Returns("api") /\ componentUnchanged

\* The first signal cancels the context, the second ends the process.
Signal == /\ Live /\ signals < 2
          /\ signals' = signals + 1
          /\ cancelled' = TRUE
          /\ app' = IF signals = 1 THEN "exited" ELSE app
          /\ UNCHANGED <<built, part, handlers>>

\* Mutant: the connections' handlers are waited for.
WaitForHandlers == /\ Live /\ handlers = 0 /\ \A k \in Components : part[k] = "done"
                   /\ app' = "exited"
                   /\ UNCHANGED <<built, part, cancelled, signals, handlers>>

\* g.Wait
Wait == /\ Live /\ \A k \in Components : part[k] = "done"
        /\ app' = "exited"
        /\ UNCHANGED <<built, part, cancelled, signals, handlers>>

AppNext == \/ InitApp \/ InitFails \/ ListenFails \/ Bind \/ Accept \/ HandlerReturns
           \/ TCPStops \/ ServeFails \/ ServerStops \/ Signal \/ Wait
=============================================================================
