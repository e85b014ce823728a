------------------------------- MODULE Rental --------------------------------
(***************************************************************************)
(* What the marketplace promises its users, without factory, token and     *)
(* storage: who has rented what, on which terms, and where the money is.   *)
(***************************************************************************)
EXTENDS Integers

CONSTANTS Users, Contracts, Nobody, Amounts

VARIABLES now,
          lessee,  \* who rents the contract now, or Nobody
          owner,   \* the contract's seller; Nobody until it is offered
          terms,   \* price and length asked of the next or the present lessee
          since,   \* when the present rental began
          pot,     \* the money in the contract
          wallet   \* the money of the users

rentalVars == <<now, lessee, owner, terms, since, pot, wallet>>

RInit == /\ lessee = [c \in Contracts |-> Nobody]
         /\ owner = lessee
         /\ pot = [c \in Contracts |-> 0]

\* The part of the price for the time that is left.
Unused(c) == LET left == since[c] + terms[c].length - now
             IN IF left > 0 THEN (terms[c].price * left) \div terms[c].length ELSE 0

Others(f, x) == \A y \in DOMAIN f : y # x => f'[y] = f[y]
Pay(u, x) == wallet' = [wallet EXCEPT ![u] = @ + x]

Offer(c) == /\ owner[c] = Nobody /\ owner'[c] \in Users /\ Others(owner, c)
            /\ Others(terms, c)
            /\ UNCHANGED <<now, lessee, since, pot, wallet>>

\* The lessee pays the price, all of it or all but a fee into the pot; it has to have
\* the money (one who receives the fee needs that much less).
Rent(c, u) ==
    /\ owner[c] # Nobody /\ lessee[c] = Nobody
    /\ lessee' = [lessee EXCEPT ![c] = u]
    /\ since'[c] = now /\ Others(since, c)
    /\ \E fee \in 0..terms[c].price, to \in Users :
          /\ pot' = [pot EXCEPT ![c] = @ + terms[c].price - fee]
          /\ wallet' = [[wallet EXCEPT ![u] = @ - terms[c].price] EXCEPT ![to] = @ + fee]
    /\ wallet' \in [Users -> Nat]
    /\ UNCHANGED <<now, owner, terms>>

End(c) == /\ lessee[c] # Nobody
          /\ lessee' = [lessee EXCEPT ![c] = Nobody]
          /\ Others(since, c) /\ UNCHANGED <<now, owner>>

\* Before its end a rental ends only with the lessee paid back for the unused time;
\* the owner has the rest.
EndEarly(c) ==
    /\ End(c) /\ Unused(c) > 0 /\ pot[c] >= Unused(c)
    /\ pot' = [pot EXCEPT ![c] = 0]
    /\ wallet' = [[wallet EXCEPT ![lessee[c]] = @ + Unused(c)]
                     EXCEPT ![owner[c]] = @ + pot[c] - Unused(c)]
    /\ UNCHANGED terms

\* Later the money stays or goes to the owner, who may name new terms.
EndOver(c) ==
    /\ End(c) /\ Unused(c) = 0
    /\ \/ UNCHANGED <<pot, wallet>>
       \/ Pay(owner[c], pot[c]) /\ pot' = [pot EXCEPT ![c] = 0]
    /\ Others(terms, c)

\* At any time the owner may take all but what the lessee would be paid back.
Collect(c) ==
    LET keep == IF lessee[c] = Nobody THEN 0 ELSE Unused(c)
    IN /\ owner[c] # Nobody /\ pot[c] >= keep
       /\ Pay(owner[c], pot[c] - keep)
       /\ pot' = [pot EXCEPT ![c] = keep]
       /\ Others(since, c)  \* of no meaning while nobody rents c
       /\ lessee[c] # Nobody => UNCHANGED since
       /\ UNCHANGED <<now, lessee, owner, terms>>

\* Users' money is theirs to move and to destroy, in wallets and into pots.
Trade == /\ \A c \in Contracts : pot'[c] >= pot[c]
         /\ \E u \in Users, x \in Amounts :
               /\ wallet[u] >= x
               /\ \/ wallet' = [wallet EXCEPT ![u] = @ - x]
                  \/ \E v \in Users : wallet' = [[wallet EXCEPT ![u] = @ - x] EXCEPT ![v] = @ + x]
         /\ UNCHANGED <<now, lessee, owner, terms, since>>

Pass == /\ now' = now + 1
        /\ UNCHANGED <<lessee, owner, terms, since, pot, wallet>>

RNext == \/ Trade \/ Pass
         \/ \E c \in Contracts : \/ Offer(c) \/ EndEarly(c) \/ EndOver(c) \/ Collect(c)
                                 \/ \E u \in Users : Rent(c, u)

RSpec == RInit /\ [][RNext]_rentalVars
=============================================================================
