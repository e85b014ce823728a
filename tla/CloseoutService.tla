--------------------------- MODULE CloseoutService ---------------------------
(***************************************************************************)
(* What EthereumGateway.SetContractCloseOut promises the goroutines that   *)
(* call it: every call is served once, in one indivisible step, and its    *)
(* caller is told the outcome of its own call.  A call that succeeds adds  *)
(* its transaction to the account's transactions; it may displace another  *)
(* program's pending transaction, never one of this node's.                *)
(***************************************************************************)
EXTENDS Naturals, Sequences

CONSTANTS Callers,   \* the goroutines that close contracts
          Foreign    \* any other program that spends from the same account

VARIABLES call,      \* "idle", "requested", or the outcome of a served call
          answer,    \* the error value the caller got last
          ledger     \* ledger[n + 1]: who sent the transaction with nonce n

absVars == <<call, answer, ledger>>

Outcomes == {"nil", "err"}

AInit == /\ call = [c \in Callers |-> "idle"]
         /\ answer = [c \in Callers |-> "none"]
         /\ ledger = <<>>

Request(c) == /\ call[c] = "idle"
              /\ call' = [call EXCEPT ![c] = "requested"]
              /\ UNCHANGED <<answer, ledger>>

ServeOk(c) ==
    /\ call[c] = "requested"
    /\ call' = [call EXCEPT ![c] = "nil"]
    /\ \/ ledger' = Append(ledger, c)
       \/ \E i \in 1..Len(ledger) : /\ ledger[i] = Foreign
                                    /\ ledger' = [ledger EXCEPT ![i] = c]
    /\ UNCHANGED answer

ServeErr(c) == /\ call[c] = "requested"
               /\ call' = [call EXCEPT ![c] = "err"]
               /\ UNCHANGED <<answer, ledger>>

Return(c) == /\ call[c] \in Outcomes
             /\ answer' = [answer EXCEPT ![c] = call[c]]
             /\ call' = [call EXCEPT ![c] = "idle"]
             /\ UNCHANGED ledger

ForeignSend == /\ ledger' = Append(ledger, Foreign)
               /\ UNCHANGED <<call, answer>>

ANext == \/ \E c \in Callers : Request(c) \/ ServeOk(c) \/ ServeErr(c) \/ Return(c)
         \/ ForeignSend

ASpec == AInit /\ [][ANext]_absVars
=============================================================================
