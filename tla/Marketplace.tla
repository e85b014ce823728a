---------------------------- MODULE Marketplace ------------------------------
(***************************************************************************)
(* lumerinlib/abigen/contracts/{CloneFactory,Implementation,Escrow}.sol:   *)
(* hashrate contracts are created and bought through the factory, hold the *)
(* price in escrow, and are closed early (the buyer is paid back what is   *)
(* left of the term) or at term.  One action per transaction: it runs as a *)
(* whole or, when a require fails, not at all.  A contract's limit and     *)
(* speed change with its price and length and are left out.                *)
(***************************************************************************)
EXTENDS LumerinToken

CONSTANTS Terms,     \* records of price and length a seller may ask
          Destinations,     \* encrypted destinations
          None,      \* address 0; also no destination
          TitanFund, \* receives the cut
          CutNum, CutDen,
          Genesis,   \* the clock starts far from 0: every term counted from 0 is over
          MaxTime    \* bound: the last second

ASSUME MarketAssumption ==
    /\ Terms \subseteq [price : Nat, length : Nat]
    /\ None \notin Addresses \cup {Factory} \cup Destinations /\ TitanFund \in Users
    /\ CutNum \in Nat /\ CutDen \in Nat \ {0} /\ CutNum <= CutDen
    /\ Genesis \in Nat /\ MaxTime \in Nat
    /\ \A t \in Terms : t.length < Genesis

VARIABLES now,      \* block.timestamp
          titanCut, \* is a part of the price sent to TitanFund?
          rentals,  \* the contracts created, each with its storage
          fee       \* history: the cut taken of the rental a contract is in

marketVars == <<tokenVars, now, titanCut, rentals, fee>>

Storage == [running : BOOLEAN, price : Nat, length : Nat, start : Nat,
            buyer : Users \cup {None}, seller : Users, validator : Users \cup {None},
            payee : Users \cup {None}, payer : Users \cup {None}, pool : Destinations \cup {None}]

Created == DOMAIN rentals

MarketTypeOK == /\ balances \in [Addresses -> Nat]
                /\ allowances \in [Users -> [Spenders -> Nat]]
                /\ paused \in BOOLEAN /\ titanCut \in BOOLEAN
                /\ now \in Nat /\ now >= Genesis
                /\ Created \subseteq Clones /\ rentals \in [Created -> Storage]
                /\ \A c \in Created : rentals[c].length < Genesis
                /\ fee \in [Clones -> Nat]

MarketInit == /\ TokenInit
              /\ now = Genesis
              /\ titanCut = FALSE
              /\ rentals = [c \in {} |-> None]
              /\ fee = [c \in Clones |-> 0]

Tick == /\ now < MaxTime
        /\ now' = now + 1
        /\ UNCHANGED <<tokenVars, titanCut, rentals, fee>>

\* Anybody may call it.
setTitanCut(on) == /\ titanCut # on
                   /\ titanCut' = on
                   /\ UNCHANGED <<tokenVars, now, rentals, fee>>

\* setCreateNewRentalContract: a clone is made, initialized and listed.
setCreateNewRentalContract(c, s, t, v) ==
    /\ c \notin Created
    /\ rentals' = [d \in Created \cup {c} |->
                     IF d # c THEN rentals[d]
                     ELSE [running |-> FALSE, price |-> t.price, length |-> t.length,
                           start |-> 0, buyer |-> None, seller |-> s, validator |-> v,
                           payee |-> None, payer |-> None, pool |-> None]]
    /\ UNCHANGED <<tokenVars, now, titanCut, fee>>

Cut(price) == IF titanCut THEN (price * CutNum) \div CutDen ELSE 0

\* setPurchaseRentalContract: the factory moves the price (a transfer to TitanFund
\* and one to the contract, or one alone) and calls setPurchaseContract, which
\* starts the term and the escrow.
setPurchaseRentalContract(c, u, p) ==
    LET price == rentals[c].price
        toFund == Moved(balances, u, TitanFund, Cut(price))
    IN /\ c \in Created /\ ~rentals[c].running
       /\ allowances[u][Factory] >= price
       /\ CanMove(balances, u, Cut(price)) /\ CanMove(toFund, u, price - Cut(price))
       /\ balances' = Moved(toFund, u, c, price - Cut(price))
       /\ Approved(u, Factory, allowances[u][Factory] - price)
       /\ rentals' = [rentals EXCEPT ![c] =
             [@ EXCEPT !.running = TRUE, !.start = now, !.buyer = u, !.pool = p,
                       !.payee = rentals[c].seller, !.payer = u]]
       /\ fee' = [fee EXCEPT ![c] = Cut(price)]
       /\ UNCHANGED <<paused, now, titanCut>>

setUpdateMiningInformation(c, u, p) ==
    /\ c \in Created /\ rentals[c].running /\ u = rentals[c].buyer
    /\ rentals' = [rentals EXCEPT ![c].pool = p]
    /\ UNCHANGED <<tokenVars, now, titanCut, fee>>

\* setContractVariableUpdate
Reset(r) == [r EXCEPT !.running = FALSE, !.start = 0, !.buyer = r.seller, !.pool = None]

Elapsed(r) == now - r.start

\* buyerPayoutCalc, which divides by a length of 0 in the second of the purchase.
PayoutDefined(r) == r.length > 0 \/ Elapsed(r) > r.length
buyerPayoutCalc(r) == IF Elapsed(r) < r.length
                      THEN (r.price * (r.length - Elapsed(r))) \div r.length ELSE 0

\* How a contract is closed; EarlyCloseOut is Cancel, MidTermWithdrawal OnlyWithdraw, and
\* CloseOutAtTerm either of the rest.
CloseoutType == [Cancel |-> 0, OnlyWithdraw |-> 1, WithoutClaim |-> 2, WithClaim |-> 3]
AtTerm == {CloseoutType.WithoutClaim, CloseoutType.WithClaim}

\* setContractCloseOut, type 0: the buyer or the validator closes the contract.  The
\* buyer is paid back, the seller gets the rest; when nothing is to be paid back,
\* nothing is paid at all.
Settle(c, u, balancesAfter(_, _)) ==
    LET r == rentals[c]
        payout == buyerPayoutCalc(r)
    IN /\ c \in Created /\ u \in {r.buyer, r.validator} /\ PayoutDefined(r)
       /\ IF payout = 0 THEN UNCHANGED balances
          ELSE /\ CanMove(balances, c, payout)
               /\ balances' = balancesAfter(r, payout)
       /\ rentals' = [rentals EXCEPT ![c] = Reset(r)]
       /\ UNCHANGED <<allowances, paused, now, titanCut, fee>>

\* Mutant: the two shares are exchanged.
EarlyCloseOutExchanged(c, u) ==
    Settle(c, u, LAMBDA r, x : Moved(Moved(balances, c, r.payer, balances[c] - x), c, r.payee, x))

EarlyCloseOut(c, u) ==
    Settle(c, u, LAMBDA r, x : Moved(Moved(balances, c, r.payee, balances[c] - x), c, r.payer, x))

\* Mutant: the seller takes all there is.
WithdrawAll(c, u) ==
    /\ c \in Created /\ u = rentals[c].seller /\ rentals[c].payee # None /\ ~paused
    /\ balances' = Moved(balances, c, rentals[c].payee, balances[c])
    /\ UNCHANGED <<allowances, paused, now, titanCut, rentals, fee>>

\* Type 1: the seller takes what is earned; the contract goes on.
MidTermWithdrawal(c, u) ==
    LET r == rentals[c]
        payout == buyerPayoutCalc(r)
    IN /\ c \in Created /\ u = r.seller /\ PayoutDefined(r) /\ r.payee # None
       /\ CanMove(balances, c, payout)
       /\ balances' = Moved(balances, c, r.payee, balances[c] - payout)
       /\ UNCHANGED <<allowances, paused, now, titanCut, rentals, fee>>

\* Types 2 and 3, open to everyone: the funds stay (2) or go to the seller (3).
TermOver(r) == Elapsed(r) >= r.length
Released(c, type) ==
    IF type = CloseoutType.WithoutClaim THEN UNCHANGED balances
    ELSE /\ ~paused /\ rentals[c].payee # None
         /\ balances' = Moved(balances, c, rentals[c].payee, balances[c])

CloseOutAtTerm(c, type) ==
    /\ c \in Created /\ TermOver(rentals[c])
    /\ Released(c, type)
    /\ rentals' = [rentals EXCEPT ![c] = Reset(@)]
    /\ UNCHANGED <<allowances, paused, now, titanCut, fee>>

\* The seller's new terms: the contract is closed first.
setUpdatePurchaseInformation(c, u, t, type) ==
    /\ c \in Created /\ u = rentals[c].seller /\ rentals[c].running /\ TermOver(rentals[c])
    /\ Released(c, type)
    /\ rentals' = [rentals EXCEPT ![c] = [Reset(@) EXCEPT !.price = t.price, !.length = t.length]]
    /\ UNCHANGED <<allowances, paused, now, titanCut, fee>>
MarketNext ==
    \/ TokenNext /\ UNCHANGED <<now, titanCut, rentals, fee>>
    \/ Tick \/ \E on \in BOOLEAN : setTitanCut(on)
    \/ \E c \in Clones, type \in AtTerm : CloseOutAtTerm(c, type)
    \/ \E c \in Clones, u \in Users :
          \/ \E t \in Terms, v \in Users : setCreateNewRentalContract(c, u, t, v)
          \/ \E d \in Destinations : \/ setPurchaseRentalContract(c, u, d)
                                     \/ setUpdateMiningInformation(c, u, d)
          \/ EarlyCloseOut(c, u) \/ MidTermWithdrawal(c, u)
          \/ \E t \in Terms, type \in AtTerm : setUpdatePurchaseInformation(c, u, t, type)

MarketSpec == MarketInit /\ [][MarketNext]_marketVars
-----------------------------------------------------------------------------
\* Whatever the seller has withdrawn, a running contract still holds what its buyer
\* would be paid back now, short only of the cut that never reached it; and the
\* parties of the escrow are those of the contract (Implementation.sol:181, :192).
EscrowCovers ==
    \A c \in Created :
        LET r == rentals[c]
        IN r.running => /\ balances[c] + fee[c] >= buyerPayoutCalc(r)
                        /\ r.payer = r.buyer /\ r.payee = r.seller /\ r.buyer # None

\* The abstract state.  The terms and the start of a contract that does not exist yet
\* do not matter.
Asked == [c \in Clones |-> IF c \in Created THEN rentals[c]
                           ELSE [price |-> 0, length |-> 0, start |-> 0]]
Lessee == [c \in Clones |-> IF c \in Created /\ rentals[c].running
                            THEN rentals[c].buyer ELSE None]
Seller == [c \in Clones |-> IF c \in Created THEN rentals[c].seller ELSE None]
AskedTerms == [c \in Clones |-> [price |-> Asked[c].price, length |-> Asked[c].length]]
Since == [c \in Clones |-> Asked[c].start]
Pot == [c \in Clones |-> balances[c]]
Wallet == [u \in Users |-> balances[u]]

R == INSTANCE Rental WITH Contracts <- Clones, Nobody <- None, lessee <- Lessee,
        owner <- Seller, terms <- AskedTerms, since <- Since, pot <- Pot, wallet <- Wallet

\* Factory, escrow and token implement the rental their users are promised: a rental
\* that ends early pays back exactly the unused part of the price, and money leaves a
\* contract only to its seller and its buyer (Implementation.sol:171-204).
ImplementsRental == R!RSpec
=============================================================================
