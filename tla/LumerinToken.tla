---------------------------- MODULE LumerinToken -----------------------------
(***************************************************************************)
(* lumerinlib/abigen/contracts/{ERC20,ERC20Burnable,Pausable,LumerinToken} *)
(* .sol: the token contracts are paid in.  A transaction that reverts      *)
(* leaves no trace, so what a require demands is the guard of the action.  *)
(* Amounts never reach 2^256.                                              *)
(***************************************************************************)
EXTENDS Integers, FiniteSets

CONSTANTS Users,      \* accounts of people
          Clones,  \* addresses of hashrate contracts; they sign nothing
          Factory,    \* address of the clone factory, spender of its customers
          Owner,      \* deployed the token: owns all of it at first, may pause it
          Supply,     \* the tokens minted
          Amounts,    \* bound: the amounts that are moved or approved
          Grants      \* bound: the pairs of an owner and a spender that occur

ASSUME TokenAssumption == /\ Owner \in Users /\ Factory \notin Users \cup Clones
                          /\ Users \cap Clones = {}
                          /\ Supply \in Nat /\ Amounts \subseteq Nat
                          /\ Grants \subseteq Users \X (Users \cup {Factory})

VARIABLES balances, allowances, paused

tokenVars == <<balances, allowances, paused>>

Addresses == Users \cup Clones
Spenders == Users \cup {Factory}

TokenInit == /\ balances = [a \in Addresses |-> IF a = Owner THEN Supply ELSE 0]
             /\ allowances = [o \in Users |-> [s \in Spenders |-> 0]]
             /\ paused = FALSE

\* _transfer and its hook, as a guard and as the balances it leaves.
CanMove(b, from, x) == ~paused /\ b[from] >= x
Moved(b, from, to, x) == [[b EXCEPT ![from] = @ - x] EXCEPT ![to] = @ + x]

transfer(from, to, x) ==
    /\ CanMove(balances, from, x)
    /\ balances' = Moved(balances, from, to, x)
    /\ UNCHANGED <<allowances, paused>>

\* _approve: what the owner's allowance to the spender becomes.
Approved(o, s, x) == allowances' = [allowances EXCEPT ![o][s] = x]

approve(o, s, x) == Approved(o, s, x) /\ UNCHANGED <<balances, paused>>

increaseAllowance(o, s, x) ==
    /\ allowances[o][s] + x <= Supply          \* bound
    /\ approve(o, s, allowances[o][s] + x)

decreaseAllowance(o, s, x) ==
    /\ allowances[o][s] >= x
    /\ approve(o, s, allowances[o][s] - x)

transferFrom(s, from, to, x) ==
    /\ CanMove(balances, from, x) /\ allowances[from][s] >= x
    /\ balances' = Moved(balances, from, to, x)
    /\ Approved(from, s, allowances[from][s] - x)
    /\ UNCHANGED paused

\* _burn; burnFrom spends an allowance as well.
burn(a, x) == /\ CanMove(balances, a, x)
              /\ balances' = [balances EXCEPT ![a] = @ - x]
              /\ UNCHANGED <<allowances, paused>>

burnFrom(s, a, x) == /\ CanMove(balances, a, x) /\ allowances[a][s] >= x
                     /\ balances' = [balances EXCEPT ![a] = @ - x]
                     /\ Approved(a, s, allowances[a][s] - x)
                     /\ UNCHANGED paused

\* pause and unpause, each refused when there is nothing to change.
setPaused(u, on) == /\ u = Owner /\ paused # on
                    /\ paused' = on
                    /\ UNCHANGED <<balances, allowances>>

TokenNext ==
    \/ \E u \in Users, to \in Addresses, x \in Amounts : transfer(u, to, x)
    \/ \E u \in Users, x \in Amounts : burn(u, x)
    \/ \E g \in Grants, x \in Amounts :
          \/ approve(g[1], g[2], x) \/ burnFrom(g[2], g[1], x)
          \/ increaseAllowance(g[1], g[2], x) \/ decreaseAllowance(g[1], g[2], x)
          \/ \E to \in Addresses : transferFrom(g[2], g[1], to, x)
    \/ \E u \in Users, on \in BOOLEAN : setPaused(u, on)
=============================================================================
