------------------------------ MODULE Closeout ------------------------------
(***************************************************************************)
(* The closeout worker of blockchain/ethereum_gateway.go.  Contract        *)
(* goroutines call SetContractCloseOut concurrently; the call sends a      *)
(* request on the unbuffered channel startCloseout and then receives an    *)
(* error on the unbuffered channel endCloseout.  One worker goroutine      *)
(* receives a request, runs setContractCloseOut (read the pending nonce,   *)
(* submit the transaction, sleep) and sends the error back.  Neither       *)
(* channel carries the caller's name: that an answer reaches the right     *)
(* caller, and that no nonce is used twice, rests on the rendezvous alone. *)
(*                                                                         *)
(* A send on an unbuffered channel and its receive are one step.  The      *)
(* Ethereum node is external: it knows the account's transactions by nonce *)
(* (`ledger`) and, when a nonce is used again, either refuses it or        *)
(* replaces the pending transaction (its gas price may be higher by then). *)
(***************************************************************************)
EXTENDS Integers, Sequences, FiniteSets

CONSTANTS Callers,   \* the goroutines that close contracts
          Foreign,   \* any other program that spends from the same account
          NoJob,     \* the worker has no request
          MaxTx      \* bound: transactions of the account that are looked at

ASSUME CallersAssumption == Foreign \notin Callers /\ NoJob \notin Callers
ASSUME MaxTxAssumption == MaxTx \in Nat

VARIABLES pc,        \* where each caller stands in SetContractCloseOut
          answer,    \* the error value the caller got last
          worker,    \* where the worker goroutine stands
          job,       \* the caller whose request the worker holds
          nonce,     \* the nonce the worker read
          result,    \* the error value setContractCloseOut returns
          ledger     \* ledger[n + 1]: who sent the transaction with nonce n

vars == <<pc, answer, worker, job, nonce, result, ledger>>

TypeOK == /\ pc \in [Callers -> {"idle", "sending", "waiting"}]
          /\ answer \in [Callers -> {"none", "nil", "err"}]
          /\ worker \in {"receiving", "preparing", "submitting", "sleeping", "replying"}
          /\ job \in Callers \cup {NoJob}
          /\ nonce \in Nat
          /\ result \in {"nil", "err"}
          /\ ledger \in Seq(Callers \cup {Foreign})

Init == /\ pc = [c \in Callers |-> "idle"]
        /\ answer = [c \in Callers |-> "none"]
        /\ worker = "receiving"
        /\ job = NoJob
        /\ nonce = 0
        /\ result = "nil"
        /\ ledger = <<>>

PendingNonceAt == Len(ledger)

\* A contract goroutine enters SetContractCloseOut.
Call(c) == /\ pc[c] = "idle"
           /\ pc' = [pc EXCEPT ![c] = "sending"]
           /\ UNCHANGED <<answer, worker, job, nonce, result, ledger>>

\* Mutant: startCloseout is buffered, a request leaves its caller at once.
StartBuffered(c) == /\ pc[c] = "sending"
                    /\ pc' = [pc EXCEPT ![c] = "waiting"]
                    /\ worker' = "preparing"
                    /\ job' = c
                    /\ UNCHANGED <<answer, nonce, result, ledger>>

\* The rendezvous on startCloseout.
Start(c) == /\ pc[c] = "sending"
            /\ worker = "receiving"
            /\ pc' = [pc EXCEPT ![c] = "waiting"]
            /\ worker' = "preparing"
            /\ job' = c
            /\ UNCHANGED <<answer, nonce, result, ledger>>

\* Mutant: the nonce of the last transaction, not the next one.
ReadLastNonce == /\ worker = "preparing"
                 /\ nonce' = PendingNonceAt - 1
                 /\ worker' = "submitting"
                 /\ UNCHANGED <<pc, answer, job, result, ledger>>

\* setContractCloseOut up to PendingNonceAt, with every call succeeding.
ReadNonce == /\ worker = "preparing"
             /\ nonce' = PendingNonceAt
             /\ worker' = "submitting"
             /\ UNCHANGED <<pc, answer, job, result, ledger>>

\* Mutant: the error of SetContractCloseOut is logged and not returned.
FailSilently == /\ worker \in {"preparing", "submitting"}
                /\ worker' = "replying"
                /\ result' = "nil"
                /\ UNCHANGED <<pc, answer, job, nonce, ledger>>

\* Mutant: an error leaves the worker loop without an answer.
FailUnanswered == /\ worker \in {"preparing", "submitting"}
                  /\ worker' = "receiving"
                  /\ result' = "err"
                  /\ UNCHANGED <<pc, answer, job, nonce, ledger>>

\* Any early return of setContractCloseOut, refusal by the node included.
Fail == /\ worker \in {"preparing", "submitting"}
        /\ worker' = "replying"
        /\ result' = "err"
        /\ UNCHANGED <<pc, answer, job, nonce, ledger>>

\* The node takes the transaction as the account's next one.
Submit == /\ worker = "submitting"
          /\ nonce = Len(ledger)
          /\ Len(ledger) < MaxTx
          /\ ledger' = Append(ledger, job)
          /\ worker' = "sleeping"
          /\ result' = "nil"
          /\ UNCHANGED <<pc, answer, job, nonce>>

\* The nonce was taken meanwhile; the node lets the new transaction replace
\* the pending one (the other outcome, a refusal, is Fail).
ReplacePending == /\ worker = "submitting"
                  /\ nonce < Len(ledger)
                  /\ ledger' = [ledger EXCEPT ![nonce + 1] = job]
                  /\ worker' = "sleeping"
                  /\ result' = "nil"
                  /\ UNCHANGED <<pc, answer, job, nonce>>

\* time.Sleep(30 * time.Second) is over.
Settle == /\ worker = "sleeping"
          /\ worker' = "replying"
          /\ UNCHANGED <<pc, answer, job, nonce, result, ledger>>

\* The rendezvous on endCloseout: whoever receives there gets the value.
Reply(c) == /\ worker = "replying"
            /\ pc[c] = "waiting"
            /\ answer' = [answer EXCEPT ![c] = result]
            /\ pc' = [pc EXCEPT ![c] = "idle"]
            /\ worker' = "receiving"
            /\ job' = NoJob
            /\ nonce' = 0
            /\ UNCHANGED <<result, ledger>>

\* Another program spends from the account.
ForeignTx == /\ Len(ledger) < MaxTx
             /\ ledger' = Append(ledger, Foreign)
             /\ UNCHANGED <<pc, answer, worker, job, nonce, result>>

Work == ReadNonce \/ Fail \/ Submit \/ ReplacePending \/ Settle

Next == \/ \E c \in Callers : Call(c) \/ Start(c) \/ Reply(c)
        \/ Work
        \/ ForeignTx

\* The worker goroutine runs and every call to the node returns; senders
\* blocked on a Go channel queue up in order, so none is passed over for ever.
Fairness == /\ WF_vars(Work)
            /\ \A c \in Callers : SF_vars(Start(c)) /\ WF_vars(Reply(c))

Spec == Init /\ [][Next]_vars
FairSpec == Spec /\ Fairness
-----------------------------------------------------------------------------
\* At most one caller is between its request and its answer, and the worker
\* is then busy with that caller's request (ethereum_gateway.go:59-64).
OneInFlight ==
    /\ \A c \in Callers : pc[c] = "waiting" => worker # "receiving" /\ job = c
    /\ worker # "receiving" => job \in Callers /\ pc[job] = "waiting"

\* What the worker owes to the rendezvous, and what makes both properties above
\* inductive: while a nonce is held, only other programs can have used it.
NonceHeld == worker = "submitting" =>
                /\ nonce <= Len(ledger)
                /\ \A i \in DOMAIN ledger : i > nonce => ledger[i] = Foreign

CloseoutInv == OneInFlight /\ NonceHeld

\* A closeout of this node, once in the node's pool, is never displaced by
\* another closeout of this node: no nonce is given out twice (:265, :279).
NoCloseoutDisplaced ==
    [][\A i \in DOMAIN ledger : ledger[i] \in Callers => ledger'[i] = ledger[i]]_vars

\* Every SetContractCloseOut returns (:229-235).
EveryCallReturns == \A c \in Callers : pc[c] = "sending" ~> pc[c] = "idle"

\* Seen from its callers the worker is an atomic service: each call is served
\* once and its caller learns the outcome of its own transaction.
servedBy(c) == pc[c] = "waiting" /\ job = c /\ worker \in {"sleeping", "replying"}

callBar == [c \in Callers |-> IF servedBy(c) THEN result
                              ELSE IF pc[c] = "idle" THEN "idle" ELSE "requested"]

Service == INSTANCE CloseoutService WITH call <- callBar

ImplementsService == Service!ASpec
=============================================================================
