------------------------------ MODULE NodeProofs ------------------------------
(***************************************************************************)
(* The parts of the node that MCNode runs side by side: what each of them  *)
(* keeps true, for every value of the constants, and that their            *)
(* composition keeps all of it true.                                       *)
(***************************************************************************)
EXTENDS MCNode, DiscoveryProofs, AllocProofs

-----------------------------------------------------------------------------
(* The marketplace: what a contract holds, and that factory, escrow and     *)
(* token implement the rental of module Rental, step by step.               *)

\* A rental that runs has begun, has its parties, and holds what its buyer would be paid
\* back; one that does not run has no start, so its term is over; and what is withdrawn for
\* the seller goes to the seller.
Sound(c) ==
    LET r == rentals[c]
    IN /\ r.running => /\ r.start <= now
                       /\ balances[c] + fee[c] >= buyerPayoutCalc(r)
                       /\ r.payer = r.buyer /\ r.payee = r.seller /\ r.buyer # None
       /\ ~r.running => r.start = 0
       /\ r.payee \in {None, r.seller}

MarketInv == MarketTypeOK /\ \A c \in Created : Sound(c)
-----------------------------------------------------------------------------
(* Arithmetic.                                                              *)

LEMMA MulMono ==
  ASSUME NEW amt \in Int, NEW y \in Int, NEW b \in Nat, amt <= y
  PROVE  amt * b <= y * b
OBVIOUS

LEMMA DivBounds ==
  ASSUME NEW a \in Int, NEW b \in Nat \ {0}
  PROVE  a \div b \in Int /\ b * (a \div b) <= a /\ a < b * (a \div b) + b
OBVIOUS

LEMMA DivMono ==
  ASSUME NEW a \in Int, NEW c \in Int, NEW b \in Nat \ {0}, a <= c
  PROVE  a \div b <= c \div b
<1> DEFINE p == a \div b
           q == c \div b
<1>1. p \in Int /\ q \in Int /\ b * p <= a /\ c < b * q + b
  BY DivBounds
<1> HIDE DEF p, q
<1> SUFFICES ASSUME q + 1 <= p PROVE FALSE
  BY <1>1 DEF p, q
<1>2. (q + 1) * b <= p * b
  BY <1>1, MulMono
<1>3. (q + 1) * b = b * q + b /\ p * b = b * p /\ b * p \in Int /\ b * q \in Int
  BY <1>1
<1> QED
  BY <1>1, <1>2, <1>3

LEMMA DivExact ==
  ASSUME NEW p \in Int, NEW b \in Nat \ {0}
  PROVE  (p * b) \div b = p
<1> DEFINE q == (p * b) \div b
<1>1. p * b \in Int
  OBVIOUS
<1>2. q \in Int /\ b * q <= p * b /\ p * b < b * q + b
  BY <1>1, DivBounds
<1> HIDE DEF q
<1>3. b * q = q * b /\ b * q + b = (q + 1) * b /\ q * b \in Int /\ (q + 1) * b \in Int
  BY <1>2
<1>4. ~(p + 1 <= q)
  <2> SUFFICES ASSUME p + 1 <= q PROVE FALSE
    OBVIOUS
  <2>1. (p + 1) * b <= q * b /\ (p + 1) * b = p * b + b
    BY <1>2, MulMono
  <2> QED BY <1>1, <1>2, <1>3, <2>1
<1>5. ~(q + 1 <= p)
  BY <1>1, <1>2, <1>3, MulMono
<1> QED
  BY <1>2, <1>4, <1>5 DEF q

\* The part of a price for n of b seconds: nothing for none, all of it for all, and no
\* less for more.
LEMMA Parts ==
  ASSUME NEW p \in Nat, NEW b \in Nat \ {0}, NEW n \in 0..b
  PROVE  /\ (p * n) \div b \in 0..p
         /\ \A m \in 0..n : (p * m) \div b <= (p * n) \div b
<1>1. ASSUME NEW m \in 0..b, NEW k \in 0..m PROVE (p * k) \div b <= (p * m) \div b
  <2>1. k * p <= m * p /\ k * p = p * k /\ m * p = p * m /\ p * k \in Int /\ p * m \in Int
    BY MulMono
  <2> QED BY <2>1, DivMono
<1>2. (p * b) \div b = p /\ (p * 0) \div b = 0
  <2>1. p * 0 = 0 * b
    OBVIOUS
  <2> QED BY <2>1, DivExact
<1>3. (p * n) \div b \in Int
  BY DivBounds
<1>4. (p * 0) \div b <= (p * n) \div b /\ (p * n) \div b <= (p * b) \div b
  BY <1>1
<1> QED
  BY <1>1, <1>2, <1>3, <1>4
-----------------------------------------------------------------------------
(* The operators.                                                           *)

\* A transfer an account can afford leaves balances that are naturals, and touches the
\* two accounts only.
LEMMA MovedBalances ==
  ASSUME NEW b \in [Addresses -> Nat], NEW from \in Addresses, NEW to \in Addresses,
         NEW amt \in Nat, b[from] >= amt
  PROVE  /\ Moved(b, from, to, amt) \in [Addresses -> Nat]
         /\ \A a \in Addresses \ {from, to} : Moved(b, from, to, amt)[a] = b[a]
         /\ Moved(b, from, to, amt)[from] = IF from = to THEN b[from] ELSE b[from] - amt
         /\ Moved(b, from, to, amt)[to] = IF from = to THEN b[from] ELSE b[to] + amt
BY DEF Moved

\* What a buyer is paid back is a part of the price, nothing of it after the term, and
\* no more as time goes by.
LEMMA Payout ==
  ASSUME NEW r \in Storage, now \in Nat, r.start <= now
  PROVE  /\ buyerPayoutCalc(r) \in 0..r.price
         /\ Elapsed(r) \in Nat
         /\ TermOver(r) => buyerPayoutCalc(r) = 0
<1>1. Elapsed(r) \in Nat /\ r.length \in Nat /\ r.price \in Nat
  BY DEF Elapsed, Storage
<1>2. CASE Elapsed(r) < r.length
  <2>1. r.length \in Nat \ {0} /\ r.length - Elapsed(r) \in 0..r.length
    BY <1>1, <1>2
  <2> QED BY <1>1, <1>2, <2>1, Parts DEF buyerPayoutCalc, TermOver
<1>3. CASE ~(Elapsed(r) < r.length)
  BY <1>1, <1>3 DEF buyerPayoutCalc
<1> QED
  BY <1>1, <1>2, <1>3

\* A contract nobody rents has nothing to pay back.
LEMMA IdlePayout ==
  ASSUME MarketInv, NEW c \in Created, ~rentals[c].running
  PROVE  buyerPayoutCalc(rentals[c]) = 0 /\ TermOver(rentals[c])
<1>1. rentals[c] \in Storage /\ rentals[c].start = 0 /\ rentals[c].length < Genesis
  BY DEF MarketInv, MarketTypeOK, Sound
<1>2. now >= Genesis /\ Genesis \in Nat /\ now \in Nat /\ rentals[c].length \in Nat
  BY <1>1, MarketAssumption DEF MarketInv, MarketTypeOK, Storage
<1>3. TermOver(rentals[c])
  BY <1>1, <1>2 DEF TermOver, Elapsed
<1> QED
  BY <1>1, <1>2, <1>3, Payout

LEMMA ResetStorage ==
  ASSUME NEW r \in Storage
  PROVE  /\ Reset(r) \in Storage /\ ~Reset(r).running /\ Reset(r).start = 0
         /\ Reset(r).payee = r.payee /\ Reset(r).seller = r.seller
         /\ Reset(r).price = r.price /\ Reset(r).length = r.length
BY DEF Reset, Storage

\* Transactions with the token leave balances that are naturals, and take nothing from a
\* contract.
LEMMA TokenSafe ==
  ASSUME MarketTypeOK, TokenNext
  PROVE  /\ balances' \in [Addresses -> Nat]
         /\ allowances' \in [Users -> [Spenders -> Nat]]
         /\ paused' \in BOOLEAN
         /\ \A c \in Clones : balances'[c] >= balances[c]
<1> DEFINE Kept == /\ balances' \in [Addresses -> Nat]
                   /\ allowances' \in [Users -> [Spenders -> Nat]]
                   /\ paused' \in BOOLEAN
                   /\ \A c \in Clones : balances'[c] >= balances[c]
<1>0. /\ balances \in [Addresses -> Nat] /\ allowances \in [Users -> [Spenders -> Nat]]
      /\ paused \in BOOLEAN
      /\ Users \subseteq Addresses /\ Clones \subseteq Addresses /\ Users \cap Clones = {}
      /\ Amounts \subseteq Nat /\ Grants \subseteq Users \X Spenders
  BY TokenAssumption DEF MarketTypeOK, Addresses, Spenders
<1>1. ASSUME NEW u \in Users, NEW to \in Addresses, NEW amt \in Nat,
             CanMove(balances, u, amt), balances' = Moved(balances, u, to, amt)
      PROVE  balances' \in [Addresses -> Nat] /\ \A c \in Clones : balances'[c] >= balances[c]
  <2>1. balances[u] >= amt /\ u \in Addresses /\ u \notin Clones
    BY <1>0, <1>1 DEF CanMove
  <2>2. /\ balances' \in [Addresses -> Nat]
        /\ \A a \in Addresses \ {u, to} : balances'[a] = balances[a]
        /\ u # to => balances'[to] = balances[to] + amt
    BY <1>0, <1>1, <2>1, MovedBalances
  <2>3. ASSUME NEW c \in Clones PROVE balances'[c] >= balances[c]
    <3>1. c \in Addresses /\ c # u /\ balances[c] \in Nat
      BY <1>0, <2>1
    <3>2. CASE c = to
      BY <2>2, <3>1, <3>2
    <3>3. CASE c # to
      BY <2>2, <3>1, <3>3
    <3> QED BY <3>2, <3>3
  <2> QED BY <2>2, <2>3
<1>2. ASSUME NEW u \in Users, NEW amt \in Nat, CanMove(balances, u, amt),
             balances' = [balances EXCEPT ![u] = @ - amt]
      PROVE  balances' \in [Addresses -> Nat] /\ \A c \in Clones : balances'[c] >= balances[c]
  <2>1. u \in Addresses /\ u \notin Clones /\ balances[u] - amt \in Nat
    BY <1>0, <1>2 DEF CanMove
  <2> QED BY <1>0, <1>2, <2>1
<1>3. ASSUME NEW o \in Users, NEW s \in Spenders, NEW amt \in Nat, Approved(o, s, amt)
      PROVE  allowances' \in [Users -> [Spenders -> Nat]]
  BY <1>0, <1>3 DEF Approved
<1>4. ASSUME NEW u \in Users, NEW to \in Addresses, NEW amt \in Amounts, transfer(u, to, amt)
      PROVE  Kept
  <2>1. amt \in Nat
    BY <1>0
  <2> QED BY <1>0, <1>1, <1>4, <2>1 DEF transfer
<1>5. ASSUME NEW u \in Users, NEW amt \in Amounts, burn(u, amt)
      PROVE  Kept
  <2>1. amt \in Nat
    BY <1>0
  <2> QED BY <1>0, <1>2, <1>5, <2>1 DEF burn
<1>6. ASSUME NEW g \in Grants, NEW amt \in Amounts,
             \/ approve(g[1], g[2], amt) \/ burnFrom(g[2], g[1], amt)
             \/ increaseAllowance(g[1], g[2], amt) \/ decreaseAllowance(g[1], g[2], amt)
             \/ \E to \in Addresses : transferFrom(g[2], g[1], to, amt)
      PROVE  Kept
  <2>1. g[1] \in Users /\ g[2] \in Spenders /\ amt \in Nat /\ allowances[g[1]][g[2]] \in Nat
    BY <1>0
  <2> DEFINE o == g[1]
             s == g[2]
  <2> HIDE DEF o, s
  <2>2. CASE approve(o, s, amt)
    BY <1>0, <1>3, <2>1, <2>2 DEF approve, o, s
  <2>3. CASE burnFrom(s, o, amt)
    <3>1. allowances[o][s] - amt \in Nat
      BY <2>1, <2>3 DEF burnFrom, o, s
    <3>2. allowances' \in [Users -> [Spenders -> Nat]]
      BY <1>3, <2>1, <2>3, <3>1 DEF burnFrom, o, s
    <3> QED BY <1>0, <1>2, <2>1, <2>3, <3>2 DEF burnFrom, o, s
  <2>4. CASE increaseAllowance(o, s, amt)
    BY <1>0, <1>3, <2>1, <2>4 DEF increaseAllowance, approve, o, s
  <2>5. CASE decreaseAllowance(o, s, amt)
    BY <1>0, <1>3, <2>1, <2>5 DEF decreaseAllowance, approve, o, s
  <2>6. ASSUME NEW to \in Addresses, transferFrom(s, o, to, amt) PROVE Kept
    <3>1. allowances[o][s] - amt \in Nat
      BY <2>1, <2>6 DEF transferFrom, o, s
    <3>2. allowances' \in [Users -> [Spenders -> Nat]]
      BY <1>3, <2>1, <2>6, <3>1 DEF transferFrom, o, s
    <3> QED BY <1>0, <1>1, <2>1, <2>6, <3>2 DEF transferFrom, o, s
  <2> QED BY <1>6, <2>2, <2>3, <2>4, <2>5, <2>6 DEF o, s
<1>7. ASSUME NEW u \in Users, NEW on \in BOOLEAN, setPaused(u, on) PROVE Kept
  BY <1>0, <1>7 DEF setPaused
<1> QED
  BY <1>4, <1>5, <1>6, <1>7 DEF TokenNext
-----------------------------------------------------------------------------
(* What the transactions do to the balances.                                *)

LEMMA Shape ==
  ASSUME MarketInv
  PROVE  /\ balances \in [Addresses -> Nat] /\ allowances \in [Users -> [Spenders -> Nat]]
         /\ fee \in [Clones -> Nat] /\ now \in Nat /\ paused \in BOOLEAN /\ titanCut \in BOOLEAN
         /\ Users \subseteq Addresses /\ Clones \subseteq Addresses /\ Users \cap Clones = {}
         /\ None \notin Addresses /\ TitanFund \in Users /\ Created \subseteq Clones
         /\ \A c \in Created : rentals[c] \in Storage /\ rentals[c].price \in Nat
                               /\ rentals[c].seller \in Users
BY TokenAssumption, MarketAssumption DEF MarketInv, MarketTypeOK, Addresses, Storage

LEMMA CutIsPart ==
  ASSUME NEW price \in Nat
  PROVE  Cut(price) \in 0..price
<1>1. CutNum \in 0..CutDen /\ CutDen \in Nat \ {0}
  BY MarketAssumption
<1> QED
  BY <1>1, Parts DEF Cut

\* A purchase takes the price from the buyer; the cut of it goes to the fund, the rest to
\* the contract.
LEMMA PurchasePays ==
  ASSUME MarketInv, NEW c \in Clones, NEW u \in Users, NEW d \in Destinations,
         setPurchaseRentalContract(c, u, d)
  PROVE  LET price == rentals[c].price
         IN /\ balances' \in [Addresses -> Nat]
            /\ balances'[c] = balances[c] + price - Cut(price)
            /\ \A a \in Clones \ {c} : balances'[a] = balances[a]
            /\ \A w \in Users :
                 balances'[w] = balances[w] - (IF w = u THEN price ELSE 0)
                                            + (IF w = TitanFund THEN Cut(price) ELSE 0)
<1> DEFINE price == rentals[c].price
           cut == Cut(price)
           toFund == Moved(balances, u, TitanFund, cut)
<1>1. price \in Nat /\ cut \in 0..price
  BY Shape, CutIsPart DEF setPurchaseRentalContract
<1>2. /\ balances[u] >= cut /\ toFund[u] >= price - cut
      /\ balances' = Moved(toFund, u, c, price - cut)
  BY DEF setPurchaseRentalContract, CanMove
<1> HIDE DEF cut, price
<1>3. u \in Addresses /\ c \in Addresses /\ TitanFund \in Addresses /\ u # c /\ TitanFund # c
  BY Shape
<1>4. /\ toFund \in [Addresses -> Nat]
      /\ \A a \in Addresses \ {u, TitanFund} : toFund[a] = balances[a]
      /\ u # TitanFund => /\ toFund[u] = balances[u] - cut
                          /\ toFund[TitanFund] = balances[TitanFund] + cut
      /\ u = TitanFund => toFund[u] = balances[u]
  BY <1>1, <1>2, <1>3, Shape, MovedBalances
<1> HIDE DEF toFund
<1>5. price - cut \in Nat
  BY <1>1
<1>6. /\ balances' \in [Addresses -> Nat]
      /\ \A a \in Addresses \ {u, c} : balances'[a] = toFund[a]
      /\ balances'[u] = toFund[u] - (price - cut)
      /\ balances'[c] = toFund[c] + (price - cut)
  BY <1>2, <1>3, <1>4, <1>5, MovedBalances
<1>7. /\ balances'[c] = balances[c] + price - cut
      /\ \A a \in Clones \ {c} : balances'[a] = balances[a]
  BY <1>1, <1>3, <1>4, <1>6, Shape
<1>8. ASSUME NEW w \in Users
      PROVE  balances'[w] = balances[w] - (IF w = u THEN price ELSE 0)
                                        + (IF w = TitanFund THEN cut ELSE 0)
  <2>1. w \in Addresses /\ w # c /\ balances[w] \in Nat /\ toFund[w] \in Nat
    BY <1>4, Shape
  <2>2. CASE w = u
    BY <1>1, <1>4, <1>6, <2>1, <2>2
  <2>3. CASE w # u
    BY <1>1, <1>4, <1>6, <2>1, <2>3
  <2> QED BY <2>2, <2>3
<1> QED
  BY <1>6, <1>7, <1>8 DEF cut, price

\* Money leaves a contract through the seller's account.
LEMMA SellerPaid ==
  ASSUME MarketInv, NEW c \in Created, rentals[c].payee # None, NEW amt \in 0..balances[c],
         balances' = Moved(balances, c, rentals[c].payee, amt)
  PROVE  /\ balances' \in [Addresses -> Nat]
         /\ balances'[c] = balances[c] - amt
         /\ \A a \in Clones \ {c} : balances'[a] = balances[a]
         /\ \A w \in Users :
              balances'[w] = balances[w] + (IF w = rentals[c].seller THEN amt ELSE 0)
<1> DEFINE p == rentals[c].payee
<1>1. p = rentals[c].seller /\ p \in Users
  BY Shape DEF MarketInv, Sound
<1> HIDE DEF p
<1>2. c \in Clones /\ c \in Addresses /\ p \in Addresses /\ c # p /\ amt \in Nat /\ balances[c] >= amt
  BY <1>1, Shape
<1>3. /\ balances' \in [Addresses -> Nat]
      /\ \A a \in Addresses \ {c, p} : balances'[a] = balances[a]
      /\ balances'[c] = balances[c] - amt /\ balances'[p] = balances[p] + amt
  BY <1>2, Shape, MovedBalances DEF p
<1>4. \A a \in Clones \ {c} : balances'[a] = balances[a]
  BY <1>1, <1>3, Shape
<1>5. ASSUME NEW w \in Users
      PROVE  balances'[w] = balances[w] + (IF w = rentals[c].seller THEN amt ELSE 0)
  <2>1. w \in Addresses /\ w # c /\ balances[w] \in Nat
    BY <1>2, Shape
  <2> QED BY <1>1, <1>3, <2>1
<1> QED
  BY <1>3, <1>4, <1>5

\* A close before the end empties the contract: its buyer has the unused part of the price,
\* the seller the rest.
LEMMA EarlyPays ==
  ASSUME MarketInv, NEW c \in Clones, NEW u \in Users, EarlyCloseOut(c, u),
         buyerPayoutCalc(rentals[c]) # 0
  PROVE  LET r == rentals[c]
             amt == buyerPayoutCalc(r)
         IN /\ c \in Created /\ r.running /\ amt \in 1..balances[c]
            /\ balances' \in [Addresses -> Nat]
            /\ balances'[c] = 0
            /\ \A a \in Clones \ {c} : balances'[a] = balances[a]
            /\ \A w \in Users :
                 balances'[w] = balances[w] + (IF w = r.seller THEN balances[c] - amt ELSE 0)
                                            + (IF w = r.buyer THEN amt ELSE 0)
<1> DEFINE r == rentals[c]
           amt == buyerPayoutCalc(r)
           b == Moved(balances, c, r.payee, balances[c] - amt)
<1>1. c \in Created /\ balances[c] >= amt /\ balances' = Moved(b, c, r.payer, amt)
  BY DEF EarlyCloseOut, Settle, CanMove
<1>2. r.running
  BY <1>1, IdlePayout
<1>3. r.payee = r.seller /\ r.payer = r.buyer /\ r.seller \in Users /\ r.buyer \in Users
  BY <1>1, <1>2, Shape DEF MarketInv, Sound, Storage
<1>4. amt \in 1..balances[c]
  <2>1. amt \in 0..r.price /\ amt # 0
    BY <1>1, <1>2, Shape, Payout DEF MarketInv, Sound
  <2>2. r.price \in Nat /\ balances[c] \in Nat
    BY <1>1, Shape
  <2> QED BY <1>1, <2>1, <2>2
<1> HIDE DEF amt, r
<1>5. /\ c \in Addresses /\ r.seller \in Addresses /\ r.buyer \in Addresses
      /\ c # r.seller /\ c # r.buyer
  BY <1>3, Shape
<1>6. balances[c] - amt \in Nat /\ amt \in Nat /\ balances[c] \in Nat
  BY <1>4, <1>5, Shape
<1>7. /\ b \in [Addresses -> Nat]
      /\ \A a \in Addresses \ {c, r.seller} : b[a] = balances[a]
      /\ b[c] = amt /\ b[r.seller] = balances[r.seller] + (balances[c] - amt)
  <2> DEFINE y == balances[c] - amt
  <2>1. y \in Nat /\ balances[c] >= y /\ balances[c] - y = amt /\ balances \in [Addresses -> Nat]
    BY <1>4, <1>6, Shape
  <2>2. b = Moved(balances, c, r.seller, y)
    BY <1>3
  <2> DEFINE p == r.seller
  <2>3. c \in Addresses /\ p \in Addresses /\ c # p
    BY <1>5
  <2> HIDE DEF y, b, p
  <2>4. /\ b \in [Addresses -> Nat]
        /\ \A a \in Addresses \ {c, p} : b[a] = balances[a]
        /\ b[c] = balances[c] - y /\ b[p] = balances[p] + y
    BY <2>1, <2>2, <2>3, MovedBalances DEF p
  <2> QED BY <2>1, <2>4 DEF y, p
<1> HIDE DEF b
<1>8. /\ balances' \in [Addresses -> Nat]
      /\ \A a \in Addresses \ {c, r.buyer} : balances'[a] = b[a]
      /\ balances'[c] = 0 /\ balances'[r.buyer] = b[r.buyer] + amt
  BY <1>1, <1>3, <1>5, <1>6, <1>7, MovedBalances
<1>9. \A a \in Clones \ {c} : balances'[a] = balances[a]
  BY <1>3, <1>7, <1>8, Shape
<1>10. ASSUME NEW w \in Users
       PROVE  balances'[w] = balances[w] + (IF w = r.seller THEN balances[c] - amt ELSE 0)
                                         + (IF w = r.buyer THEN amt ELSE 0)
  <2>1. w \in Addresses /\ w # c /\ balances[w] \in Nat /\ b[w] \in Nat
    BY <1>1, <1>7, Shape
  <2>2. b[w] = balances[w] + (IF w = r.seller THEN balances[c] - amt ELSE 0)
    BY <1>6, <1>7, <2>1
  <2> QED BY <1>6, <1>8, <2>1, <2>2
<1> QED
  BY <1>1, <1>2, <1>4, <1>8, <1>9, <1>10 DEF amt, r

\* A close at term moves nothing, or all there is to the seller.
LEMMA ReleasePays ==
  ASSUME MarketInv, NEW c \in Created, NEW type \in AtTerm, Released(c, type)
  PROVE  \E amt \in {0, balances[c]} :
            /\ balances' \in [Addresses -> Nat]
            /\ balances'[c] = balances[c] - amt
            /\ \A a \in Clones \ {c} : balances'[a] = balances[a]
            /\ \A w \in Users :
                 balances'[w] = balances[w] + (IF w = rentals[c].seller THEN amt ELSE 0)
<1>1. balances[c] \in Nat /\ \A a \in Addresses : balances[a] \in Nat
  BY Shape
<1>2. CASE type = CloseoutType.WithoutClaim
  BY <1>1, <1>2, Shape DEF Released
<1>3. CASE type # CloseoutType.WithoutClaim
  <2>1. balances[c] \in 0..balances[c]
    BY <1>1
  <2>2. rentals[c].payee # None /\ balances' = Moved(balances, c, rentals[c].payee, balances[c])
    BY <1>3 DEF Released
  <2> QED BY <2>1, <2>2, SellerPaid
<1> QED
  BY <1>2, <1>3

\* A withdrawal during the term leaves what the buyer would be paid back.
LEMMA WithdrawalPays ==
  ASSUME MarketInv, NEW c \in Clones, NEW u \in Users, MidTermWithdrawal(c, u)
  PROVE  LET amt == balances[c] - buyerPayoutCalc(rentals[c])
         IN /\ c \in Created /\ amt \in 0..balances[c]
            /\ balances' \in [Addresses -> Nat]
            /\ balances'[c] = buyerPayoutCalc(rentals[c])
            /\ \A a \in Clones \ {c} : balances'[a] = balances[a]
            /\ \A w \in Users :
                 balances'[w] = balances[w] + (IF w = rentals[c].seller THEN amt ELSE 0)
<1> DEFINE q == buyerPayoutCalc(rentals[c])
           amt == balances[c] - q
<1>1. /\ c \in Created /\ balances[c] >= q /\ rentals[c].payee # None
      /\ balances' = Moved(balances, c, rentals[c].payee, amt)
  BY DEF MidTermWithdrawal, CanMove
<1>2. q \in Nat
  <2>1. CASE rentals[c].running
    BY <1>1, <2>1, Shape, Payout DEF MarketInv, Sound
  <2>2. CASE ~rentals[c].running
    BY <1>1, <2>2, IdlePayout
  <2> QED BY <2>1, <2>2
<1> HIDE DEF q
<1>3. balances[c] \in Nat
  BY Shape
<1>4. amt \in 0..balances[c] /\ balances[c] - amt = q
  BY <1>1, <1>2, <1>3
<1> HIDE DEF amt
<1> QED
  BY <1>1, <1>4, SellerPaid DEF amt, q
-----------------------------------------------------------------------------
(* The invariant.                                                           *)

\* A contract that a transaction leaves alone, or pays into, stays sound.
LEMMA Untouched ==
  ASSUME NEW c, Sound(c), now' = now, rentals'[c] = rentals[c], fee'[c] = fee[c],
         balances[c] \in Nat, balances'[c] \in Nat, fee[c] \in Nat, balances'[c] >= balances[c],
         rentals[c] \in Storage, now \in Nat
  PROVE  Sound(c)'
<1> DEFINE r == rentals[c]
<1>1. buyerPayoutCalc(r)' = buyerPayoutCalc(r)
  BY DEF buyerPayoutCalc, Elapsed
<1>2. r.running => balances'[c] + fee'[c] >= buyerPayoutCalc(r)
  <2> SUFFICES ASSUME r.running PROVE balances'[c] + fee'[c] >= buyerPayoutCalc(r)
    OBVIOUS
  <2>1. buyerPayoutCalc(r) \in 0..r.price /\ r.price \in Nat
    BY Payout DEF Sound, Storage
  <2> QED BY <2>1 DEF Sound
<1> QED
  BY <1>1, <1>2 DEF Sound

\* A contract that has been closed is sound, whatever it holds.
LEMMA ClosedSound ==
  ASSUME NEW c, Sound(c), rentals[c] \in Storage, rentals'[c] = Reset(rentals[c])
  PROVE  Sound(c)'
BY ResetStorage DEF Sound

LEMMA InitSound == MarketInit => MarketInv
<1> SUFFICES ASSUME MarketInit PROVE MarketInv
  OBVIOUS
<1>1. Created = {} /\ rentals \in [Created -> Storage] /\ Created \subseteq Clones
  BY DEF MarketInit, Created
<1>2. balances \in [Addresses -> Nat] /\ allowances \in [Users -> [Spenders -> Nat]]
      /\ paused \in BOOLEAN
  BY TokenAssumption DEF MarketInit, TokenInit
<1>3. now \in Nat /\ now >= Genesis
  <2>1. Genesis \in Nat
    BY MarketAssumption
  <2>2. now = Genesis
    BY DEF MarketInit
  <2> QED BY <2>1, <2>2
<1>4. titanCut \in BOOLEAN /\ fee \in [Clones -> Nat]
  BY DEF MarketInit
<1> QED
  BY <1>1, <1>2, <1>3, <1>4 DEF MarketInv, MarketTypeOK

LEMMA TickSound ==
  ASSUME MarketInv, Tick
  PROVE  MarketInv'
<1>1. MarketTypeOK'
  BY MarketAssumption DEF MarketInv, MarketTypeOK, Tick, tokenVars, Created
<1>2. ASSUME NEW c \in Created PROVE Sound(c)'
  <2> DEFINE r == rentals[c]
  <2>1. /\ now' = now + 1 /\ now \in Nat /\ r \in Storage /\ rentals' = rentals
        /\ balances' = balances /\ fee' = fee
    BY Shape DEF Tick, tokenVars
  <2>2. CASE ~r.running
    BY <1>2, <2>1, <2>2 DEF MarketInv, Sound
  <2>3. CASE r.running
    <3>1. r.start <= now /\ r.start \in Nat /\ r.length \in Nat /\ r.price \in Nat
      BY <2>1, <2>3 DEF MarketInv, Sound, Storage
    <3> DEFINE e == Elapsed(r)
    <3>2. e \in Nat /\ Elapsed(r)' = e + 1
      BY <2>1, <3>1 DEF Elapsed
    <3> HIDE DEF e
    <3>3. buyerPayoutCalc(r)' <= buyerPayoutCalc(r) /\ buyerPayoutCalc(r)' \in Int
      <4>1. CASE e + 1 < r.length
        <5>1. r.length \in Nat \ {0} /\ r.length - e \in 0..r.length
              /\ r.length - (e + 1) \in 0..(r.length - e) /\ r.length - (e + 1) \in 0..r.length
          BY <3>1, <3>2, <4>1
        <5>2. (r.price * (r.length - (e + 1))) \div r.length
                <= (r.price * (r.length - e)) \div r.length
          BY <3>1, <5>1, Parts
        <5>3. (r.price * (r.length - (e + 1))) \div r.length \in 0..r.price
          BY <3>1, <5>1, Parts
        <5>4. /\ buyerPayoutCalc(r) = (r.price * (r.length - e)) \div r.length
              /\ buyerPayoutCalc(r)' = (r.price * (r.length - (e + 1))) \div r.length
          BY <2>1, <3>1, <3>2, <4>1 DEF buyerPayoutCalc, e
        <5> QED BY <3>1, <5>2, <5>3, <5>4
      <4>2. CASE ~(e + 1 < r.length)
        <5>1. buyerPayoutCalc(r)' = 0
          BY <2>1, <3>2, <4>2 DEF buyerPayoutCalc
        <5>2. buyerPayoutCalc(r) \in 0..r.price
          BY <2>1, <3>1, Payout
        <5> QED BY <3>1, <5>1, <5>2
      <4> QED BY <4>1, <4>2
    <3>4. balances[c] + fee[c] >= buyerPayoutCalc(r) /\ balances[c] \in Nat /\ fee[c] \in Nat
          /\ buyerPayoutCalc(r) \in Nat
      <4>1. buyerPayoutCalc(r) \in 0..r.price
        BY <2>1, <3>1, Payout
      <4> QED BY <2>3, <3>1, <4>1, Shape DEF MarketInv, Sound
    <3>5. (balances[c] + fee[c] >= buyerPayoutCalc(r))'
      BY <2>1, <3>3, <3>4
    <3> QED BY <2>1, <2>3, <3>1, <3>5 DEF MarketInv, Sound
  <2> QED BY <2>2, <2>3
<1>3. Created' = Created
  BY DEF Tick, Created
<1> QED
  BY <1>1, <1>2, <1>3 DEF MarketInv

\* An action on one contract: it has to leave that one sound.
LEMMA OneContract ==
  ASSUME MarketInv, NEW c \in Created, Sound(c)',
         balances' \in [Addresses -> Nat], allowances' \in [Users -> [Spenders -> Nat]],
         UNCHANGED <<paused, titanCut, now>>,
         \A a \in Clones \ {c} : balances'[a] >= balances[a],
         NEW q \in Storage, q.length < Genesis, rentals' = [rentals EXCEPT ![c] = q],
         fee' \in [Clones -> Nat], \A a \in Clones \ {c} : fee'[a] = fee[a]
  PROVE  MarketInv'
<1>1. Created' = Created /\ rentals' \in [Created -> Storage]
  BY DEF MarketInv, MarketTypeOK, Created
<1>2. \A a \in Created : rentals'[a].length < Genesis
  BY DEF MarketInv, MarketTypeOK, Created
<1>3. MarketTypeOK'
  BY <1>1, <1>2 DEF MarketInv, MarketTypeOK
<1>4. ASSUME NEW a \in Created PROVE Sound(a)'
  <2>1. CASE a = c
    BY <2>1
  <2>2. CASE a # c
    <3>1. a \in Clones \ {c} /\ a \in Addresses
      BY <2>2, Shape
    <3>2. rentals'[a] = rentals[a] /\ rentals[a] \in Storage
      BY <2>2, Shape DEF Created
    <3> QED BY <3>1, <3>2, Shape, Untouched DEF MarketInv
  <2> QED BY <2>1, <2>2
<1> QED
  BY <1>1, <1>3, <1>4 DEF MarketInv

\* A transaction with the token, or one that leaves the contracts and their money alone.
LEMMA NoContract ==
  ASSUME MarketInv, UNCHANGED <<now, rentals, fee>>, titanCut' \in BOOLEAN,
         balances' \in [Addresses -> Nat], allowances' \in [Users -> [Spenders -> Nat]],
         paused' \in BOOLEAN, \A a \in Clones : balances'[a] >= balances[a]
  PROVE  MarketInv'
<1>1. Created' = Created /\ MarketTypeOK'
  BY DEF MarketInv, MarketTypeOK, Created
<1>2. ASSUME NEW a \in Created PROVE Sound(a)'
  <2>1. a \in Clones /\ a \in Addresses
    BY Shape
  <2> QED BY <2>1, Shape, Untouched DEF MarketInv
<1> QED
  BY <1>1, <1>2 DEF MarketInv

LEMMA CreateSound ==
  ASSUME MarketInv, NEW c \in Clones, NEW u \in Users, NEW t \in Terms, NEW v \in Users,
         setCreateNewRentalContract(c, u, t, v)
  PROVE  MarketInv'
<1> DEFINE new == [running |-> FALSE, price |-> t.price, length |-> t.length,
                   start |-> 0, buyer |-> None, seller |-> u, validator |-> v,
                   payee |-> None, payer |-> None, pool |-> None]
<1>1. new \in Storage /\ new.length < Genesis
  BY MarketAssumption DEF Storage
<1>2. /\ ~new.running /\ new.start = 0 /\ new.payee = None
  OBVIOUS
<1>3. c \notin Created /\ Created' = Created \cup {c} /\ rentals'[c] = new
      /\ \A a \in Created : rentals'[a] = rentals[a]
  BY DEF setCreateNewRentalContract, Created
<1>4. rentals' \in [Created' -> Storage]
  <2> HIDE DEF new
  <2>1. rentals' = [d \in Created \cup {c} |-> IF d # c THEN rentals[d] ELSE new]
    BY DEF setCreateNewRentalContract, new
  <2> QED BY <1>1, <1>3, <2>1, Shape
<1> HIDE DEF new
<1>5. UNCHANGED <<balances, allowances, paused, now, titanCut, fee>>
  BY DEF setCreateNewRentalContract, tokenVars
<1>6. MarketTypeOK'
  BY <1>1, <1>3, <1>4, <1>5 DEF MarketInv, MarketTypeOK
<1>7. ASSUME NEW a \in Created' PROVE Sound(a)'
  <2>1. CASE a = c
    BY <1>2, <1>3, <2>1 DEF Sound
  <2>2. CASE a # c
    <3>1. a \in Created /\ a \in Clones /\ a \in Addresses
      BY <1>3, <2>2, Shape
    <3> QED BY <1>3, <1>5, <3>1, Shape, Untouched DEF MarketInv
  <2> QED BY <2>1, <2>2
<1> QED
  BY <1>6, <1>7 DEF MarketInv

LEMMA PurchaseSound ==
  ASSUME MarketInv, NEW c \in Clones, NEW u \in Users, NEW d \in Destinations,
         setPurchaseRentalContract(c, u, d)
  PROVE  MarketInv'
<1> DEFINE r == rentals[c]
<1> PICK q : q = [r EXCEPT !.running = TRUE, !.start = now, !.buyer = u, !.pool = d,
                           !.payee = r.seller, !.payer = u]
  OBVIOUS
<1>1. c \in Created /\ r \in Storage /\ r.price \in Nat /\ r.length < Genesis /\ now \in Nat
  BY Shape DEF setPurchaseRentalContract, MarketInv, MarketTypeOK
<1>2. rentals' = [rentals EXCEPT ![c] = q] /\ rentals'[c] = q
  BY <1>1 DEF setPurchaseRentalContract, Created
<1>3. /\ q \in Storage /\ q.length = r.length /\ q.price = r.price /\ q.running /\ q.start = now
      /\ q.buyer = u /\ q.payer = u /\ q.payee = q.seller
  BY <1>1 DEF Storage
<1>4. Cut(r.price) \in 0..r.price
  BY <1>1, CutIsPart
<1>5. /\ balances' \in [Addresses -> Nat] /\ balances'[c] = balances[c] + r.price - Cut(r.price)
      /\ \A a \in Clones \ {c} : balances'[a] = balances[a]
  BY PurchasePays
<1>6. /\ fee' \in [Clones -> Nat] /\ fee'[c] = Cut(r.price) /\ \A a \in Clones \ {c} : fee'[a] = fee[a]
      /\ UNCHANGED <<paused, now, titanCut>>
  BY <1>1, <1>4, Shape DEF setPurchaseRentalContract
<1>7. allowances' \in [Users -> [Spenders -> Nat]]
  <2>1. Factory \in Spenders /\ allowances[u][Factory] - r.price \in Nat
    BY <1>1, Shape DEF setPurchaseRentalContract, Spenders
  <2> QED BY <2>1, Shape DEF setPurchaseRentalContract, Approved
<1>8. Sound(c)'
  <2>1. q.start <= now' /\ q.buyer # None
    BY <1>1, <1>3, <1>6, Shape
  <2>2. buyerPayoutCalc(q)' \in 0..r.price
    <3>1. q \in Storage /\ now \in Nat /\ q.start <= now
      BY <1>1, <1>3
    <3>2. buyerPayoutCalc(q) \in 0..q.price
      BY <3>1, Payout
    <3>3. buyerPayoutCalc(q)' = buyerPayoutCalc(q)
      BY <1>6 DEF buyerPayoutCalc, Elapsed
    <3> QED BY <1>3, <3>2, <3>3
  <2>3. balances'[c] + fee'[c] >= r.price
    <3>1. balances[c] \in Nat
      BY <1>1, Shape
    <3> QED BY <1>1, <1>4, <1>5, <1>6, <3>1
  <2>4. balances'[c] \in Nat /\ fee'[c] \in Nat
    BY <1>5, <1>6, Shape
  <2>5. balances'[c] + fee'[c] >= buyerPayoutCalc(q)'
    BY <1>1, <2>2, <2>3, <2>4
  <2>6. rentals'[c] = q
    BY <1>2
  <2>7. buyerPayoutCalc(rentals[c])' = buyerPayoutCalc(q)'
    BY <2>6 DEF buyerPayoutCalc, Elapsed
  <2> QED BY <1>3, <2>1, <2>5, <2>6, <2>7 DEF Sound
<1>9. \A a \in Clones \ {c} : balances'[a] >= balances[a]
  BY <1>5, Shape
<1> QED
  BY <1>1, <1>2, <1>3, <1>5, <1>6, <1>7, <1>8, <1>9, OneContract

LEMMA MiningInformationSound ==
  ASSUME MarketInv, NEW c \in Clones, NEW u \in Users, NEW d \in Destinations,
         setUpdateMiningInformation(c, u, d)
  PROVE  MarketInv'
<1> DEFINE r == rentals[c]
           q == [r EXCEPT !.pool = d]
<1>1. c \in Created /\ r \in Storage /\ r.length < Genesis
      /\ UNCHANGED <<balances, allowances, paused, now, titanCut, fee>>
  BY Shape DEF setUpdateMiningInformation, MarketInv, MarketTypeOK, tokenVars
<1>2. rentals' = [rentals EXCEPT ![c] = q] /\ rentals'[c] = q
  BY <1>1 DEF setUpdateMiningInformation, Created
<1>3. /\ q \in Storage /\ q.length = r.length /\ q.price = r.price /\ q.running = r.running
      /\ q.start = r.start /\ q.buyer = r.buyer /\ q.payer = r.payer /\ q.payee = r.payee
      /\ q.seller = r.seller
  BY <1>1 DEF Storage
<1> HIDE DEF q
<1>4. Sound(c)'
  <2>1. buyerPayoutCalc(rentals[c])' = buyerPayoutCalc(r)
    BY <1>1, <1>2, <1>3 DEF buyerPayoutCalc, Elapsed
  <2> QED BY <1>1, <1>2, <1>3, <2>1 DEF MarketInv, Sound
<1>5. \A a \in Clones \ {c} : balances'[a] >= balances[a]
  BY <1>1, Shape
<1> QED
  BY <1>1, <1>2, <1>3, <1>4, <1>5, Shape, OneContract

\* Closing a contract, whatever it pays and whatever new terms it gets.
LEMMA CloseSound ==
  ASSUME MarketInv, NEW c \in Created, NEW q \in Storage, q.length < Genesis,
         ~q.running, q.start = 0, q.seller = rentals[c].seller, q.payee = rentals[c].payee,
         rentals' = [rentals EXCEPT ![c] = q],
         balances' \in [Addresses -> Nat], \A a \in Clones \ {c} : balances'[a] = balances[a],
         UNCHANGED <<allowances, paused, now, titanCut, fee>>
  PROVE  MarketInv'
<1>1. rentals'[c] = q
  BY DEF Created, MarketInv, MarketTypeOK
<1>2. Sound(c)'
  BY <1>1 DEF MarketInv, Sound
<1>3. \A a \in Clones \ {c} : balances'[a] >= balances[a]
  BY Shape
<1> QED
  BY <1>2, <1>3, Shape, OneContract

LEMMA EarlyCloseOutSound ==
  ASSUME MarketInv, NEW c \in Clones, NEW u \in Users, EarlyCloseOut(c, u)
  PROVE  MarketInv'
<1>1. c \in Created /\ rentals' = [rentals EXCEPT ![c] = Reset(rentals[c])]
      /\ UNCHANGED <<allowances, paused, now, titanCut, fee>>
  BY DEF EarlyCloseOut, Settle
<1>2. balances' \in [Addresses -> Nat] /\ \A a \in Clones \ {c} : balances'[a] = balances[a]
  <2>1. CASE buyerPayoutCalc(rentals[c]) = 0
    BY <2>1, Shape DEF EarlyCloseOut, Settle
  <2>2. CASE buyerPayoutCalc(rentals[c]) # 0
    BY <2>2, EarlyPays
  <2> QED BY <2>1, <2>2
<1>3. rentals[c] \in Storage /\ rentals[c].length < Genesis
  BY <1>1, Shape DEF MarketInv, MarketTypeOK
<1> QED
  BY <1>1, <1>2, <1>3, ResetStorage, CloseSound

LEMMA MidTermWithdrawalSound ==
  ASSUME MarketInv, NEW c \in Clones, NEW u \in Users, MidTermWithdrawal(c, u)
  PROVE  MarketInv'
<1> DEFINE r == rentals[c]
<1>1. /\ c \in Created /\ balances' \in [Addresses -> Nat]
      /\ balances'[c] = buyerPayoutCalc(r) /\ \A a \in Clones \ {c} : balances'[a] = balances[a]
  BY WithdrawalPays
<1>2. UNCHANGED <<allowances, paused, now, titanCut, rentals, fee>>
  BY DEF MidTermWithdrawal
<1>3. r \in Storage /\ r.length < Genesis /\ rentals' = [rentals EXCEPT ![c] = r]
  BY <1>1, <1>2, Shape DEF MarketInv, MarketTypeOK
<1>4. Sound(c)'
  <2>1. buyerPayoutCalc(r)' = buyerPayoutCalc(r)
    BY <1>2 DEF buyerPayoutCalc, Elapsed
  <2>2. balances'[c] + fee'[c] >= buyerPayoutCalc(r)
    <3>1. balances'[c] \in Nat /\ fee[c] \in Nat
      BY <1>1, Shape
    <3> QED BY <1>1, <1>2, <3>1
  <2> QED BY <1>1, <1>2, <2>1, <2>2 DEF MarketInv, Sound
<1>5. \A a \in Clones \ {c} : balances'[a] >= balances[a]
  BY <1>1, Shape
<1> QED
  BY <1>1, <1>2, <1>3, <1>4, <1>5, Shape, OneContract

LEMMA CloseOutAtTermSound ==
  ASSUME MarketInv, NEW c \in Clones, NEW type \in AtTerm, CloseOutAtTerm(c, type)
  PROVE  MarketInv'
<1>1. c \in Created /\ Released(c, type) /\ rentals' = [rentals EXCEPT ![c] = Reset(rentals[c])]
      /\ UNCHANGED <<allowances, paused, now, titanCut, fee>>
  BY DEF CloseOutAtTerm
<1>2. balances' \in [Addresses -> Nat] /\ \A a \in Clones \ {c} : balances'[a] = balances[a]
  BY <1>1, ReleasePays
<1>3. rentals[c] \in Storage /\ rentals[c].length < Genesis
  BY <1>1, Shape DEF MarketInv, MarketTypeOK
<1> QED
  BY <1>1, <1>2, <1>3, ResetStorage, CloseSound

LEMMA PurchaseInformationSound ==
  ASSUME MarketInv, NEW c \in Clones, NEW u \in Users, NEW t \in Terms, NEW type \in AtTerm,
         setUpdatePurchaseInformation(c, u, t, type)
  PROVE  MarketInv'
<1> DEFINE r == rentals[c]
           q == [Reset(r) EXCEPT !.price = t.price, !.length = t.length]
<1>1. c \in Created /\ Released(c, type) /\ rentals' = [rentals EXCEPT ![c] = q]
      /\ UNCHANGED <<allowances, paused, now, titanCut, fee>>
  BY DEF setUpdatePurchaseInformation
<1>2. balances' \in [Addresses -> Nat] /\ \A a \in Clones \ {c} : balances'[a] = balances[a]
  BY <1>1, ReleasePays
<1>3. /\ Reset(r) \in Storage /\ ~Reset(r).running /\ Reset(r).start = 0
      /\ Reset(r).payee = r.payee /\ Reset(r).seller = r.seller
  BY <1>1, Shape, ResetStorage
<1>4. t.price \in Nat /\ t.length \in Nat /\ t.length < Genesis
  BY MarketAssumption
<1>5. /\ q \in Storage /\ q.length = t.length /\ ~q.running /\ q.start = 0
      /\ q.payee = r.payee /\ q.seller = r.seller
  BY <1>3, <1>4 DEF Storage
<1> HIDE DEF q
<1> QED
  BY <1>1, <1>2, <1>4, <1>5, CloseSound

\* Every transaction preserves the invariant.
LEMMA StepSound == MarketInv /\ [MarketNext]_marketVars => MarketInv'
<1> SUFFICES ASSUME MarketInv, [MarketNext]_marketVars PROVE MarketInv'
  OBVIOUS
<1>1. ASSUME TokenNext, UNCHANGED <<now, titanCut, rentals, fee>> PROVE MarketInv'
  BY <1>1, TokenSafe, NoContract DEF MarketInv, MarketTypeOK
<1>2. ASSUME NEW on \in BOOLEAN, setTitanCut(on) PROVE MarketInv'
  <2>1. \A c \in Clones : balances'[c] >= balances[c]
    BY <1>2, Shape DEF setTitanCut, tokenVars
  <2> QED BY <1>2, <2>1, Shape, NoContract DEF setTitanCut, tokenVars
<1>3. CASE UNCHANGED marketVars
  <2>1. \A c \in Clones : balances'[c] >= balances[c]
    BY <1>3, Shape DEF marketVars, tokenVars
  <2> QED BY <1>3, <2>1, Shape, NoContract DEF marketVars, tokenVars
<1>4. ASSUME NEW c \in Clones, NEW u \in Users,
             \/ \E t \in Terms, v \in Users : setCreateNewRentalContract(c, u, t, v)
             \/ \E d \in Destinations : \/ setPurchaseRentalContract(c, u, d)
                                        \/ setUpdateMiningInformation(c, u, d)
             \/ EarlyCloseOut(c, u) \/ MidTermWithdrawal(c, u)
             \/ \E t \in Terms, type \in AtTerm : setUpdatePurchaseInformation(c, u, t, type)
      PROVE  MarketInv'
  BY <1>4, CreateSound, PurchaseSound, MiningInformationSound, EarlyCloseOutSound,
     MidTermWithdrawalSound, PurchaseInformationSound
<1> QED
  BY <1>1, <1>2, <1>3, <1>4, TickSound, CloseOutAtTermSound DEF MarketNext

\* The market's invariant holds in every state.
LEMMA MarketInvariant == MarketSpec => []MarketInv
BY InitSound, StepSound, PTL DEF MarketSpec

\* The types of the market's state: no balance and no allowance is ever overdrawn.
THEOREM MarketTypeCorrect == MarketSpec => []MarketTypeOK
<1>1. MarketInv => MarketTypeOK
  BY DEF MarketInv
<1> QED
  BY <1>1, MarketInvariant, PTL

\* Whatever anybody does, a running contract holds what its buyer would be paid back now,
\* short of the cut that never reached it (Implementation.sol:161-204).
THEOREM Covered == MarketSpec => []EscrowCovers
<1>1. MarketInv => EscrowCovers
  BY DEF MarketInv, Sound, EscrowCovers
<1> QED
  BY <1>1, MarketInvariant, PTL
-----------------------------------------------------------------------------
(* The refinement.                                                          *)

\* Each step is an action of the rental, or changes nothing of it.

LEMMA RentalInit == MarketInit => R!RInit
<1> SUFFICES ASSUME MarketInit PROVE R!RInit
  OBVIOUS
<1>1. Created = {} /\ Owner \notin Clones /\ Clones \subseteq Addresses
  BY TokenAssumption DEF MarketInit, Created, Addresses
<1>2. \A c \in Clones : balances[c] = 0
  BY <1>1 DEF MarketInit, TokenInit
<1> QED
  BY <1>1, <1>2 DEF R!RInit, Lessee, Seller, Pot

\* What the abstract state is of a contract that exists.
LEMMA Abstract ==
  ASSUME MarketInv, NEW c \in Created
  PROVE  /\ c \in Clones
         /\ Lessee[c] = IF rentals[c].running THEN rentals[c].buyer ELSE None
         /\ Seller[c] = rentals[c].seller
         /\ AskedTerms[c] = [price |-> rentals[c].price, length |-> rentals[c].length]
         /\ Since[c] = rentals[c].start
         /\ Pot[c] = balances[c]
BY Shape DEF Lessee, Seller, AskedTerms, Since, Asked, Pot

\* The part of the price the rental speaks of is what the contract computes.
LEMMA UnusedIsPayout ==
  ASSUME MarketInv, NEW c \in Created, rentals[c].running
  PROVE  R!Unused(c) = buyerPayoutCalc(rentals[c])
<1> DEFINE r == rentals[c]
<1>1. /\ Since[c] = r.start /\ AskedTerms[c].price = r.price /\ AskedTerms[c].length = r.length
      /\ r.start <= now /\ r.start \in Nat /\ r.length \in Nat /\ now \in Nat
  <2>1. Since[c] = r.start /\ AskedTerms[c] = [price |-> r.price, length |-> r.length]
    BY Abstract
  <2>2. r \in Storage /\ now \in Nat /\ r.start <= now
    BY Shape DEF MarketInv, Sound
  <2> QED BY <2>1, <2>2 DEF Storage
<1>2. (r.start + r.length - now > 0) <=> (Elapsed(r) < r.length)
  BY <1>1 DEF Elapsed
<1>3. r.start + r.length - now = r.length - Elapsed(r)
  BY <1>1 DEF Elapsed
<1> QED
  BY <1>1, <1>2, <1>3 DEF R!Unused, buyerPayoutCalc

\* What does not change of the abstract state when contracts, or their money, do not.
LEMMA SameContracts ==
  ASSUME rentals' = rentals
  PROVE  UNCHANGED <<Lessee, Seller, AskedTerms, Since>>
<1>1. Created' = Created /\ Asked' = Asked
  BY DEF Created, Asked
<1> QED
  BY <1>1 DEF Lessee, Seller, AskedTerms, Since

LEMMA SameMoney ==
  ASSUME \A c \in Clones : balances'[c] = balances[c], \A u \in Users : balances'[u] = balances[u]
  PROVE  UNCHANGED <<Pot, Wallet>>
BY DEF Pot, Wallet

\* A contract that is closed: nobody rents it, the others are as they were.
LEMMA ClosedRental ==
  ASSUME MarketInv, NEW c \in Created, NEW q, ~q.running, q.start = 0,
         q.seller = rentals[c].seller, rentals' = [rentals EXCEPT ![c] = q]
  PROVE  /\ Lessee' = [Lessee EXCEPT ![c] = None]
         /\ Seller' = Seller
         /\ \A d \in Clones \ {c} : Since'[d] = Since[d] /\ AskedTerms'[d] = AskedTerms[d]
         /\ q.price = rentals[c].price /\ q.length = rentals[c].length => AskedTerms' = AskedTerms
         /\ ~rentals[c].running => Since' = Since
<1>1. Created' = Created /\ rentals'[c] = q /\ \A d \in Created \ {c} : rentals'[d] = rentals[d]
  BY DEF Created
<1>2. \A d \in Clones \ {c} : Asked'[d] = Asked[d]
  BY <1>1 DEF Asked
<1>3. \A d \in Clones \ {c} : Since'[d] = Since[d] /\ AskedTerms'[d] = AskedTerms[d]
  BY <1>2 DEF Since, AskedTerms
<1>4. Lessee' = [Lessee EXCEPT ![c] = None]
  <2>1. \A d \in Clones : Lessee'[d] = IF d = c THEN None ELSE Lessee[d]
    BY <1>1 DEF Lessee
  <2> QED BY <2>1 DEF Lessee
<1>5. Seller' = Seller
  BY <1>1 DEF Seller
<1>6. c \in Clones /\ Asked'[c] = q /\ Asked[c] = rentals[c]
  BY <1>1, Shape DEF Asked
<1>7. q.price = rentals[c].price /\ q.length = rentals[c].length => AskedTerms' = AskedTerms
  BY <1>2, <1>6 DEF AskedTerms
<1>8. ~rentals[c].running => Since' = Since
  BY <1>2, <1>6 DEF Since, MarketInv, Sound
<1> QED
  BY <1>3, <1>4, <1>5, <1>7, <1>8

\* Money that goes to the seller of a contract.
LEMMA PaidToSeller ==
  ASSUME MarketInv, NEW c \in Created, NEW amt \in Int,
         balances'[c] = balances[c] - amt,
         \A a \in Clones \ {c} : balances'[a] = balances[a],
         \A w \in Users : balances'[w] = balances[w] + (IF w = rentals[c].seller THEN amt ELSE 0)
  PROVE  /\ Pot' = [Pot EXCEPT ![c] = balances[c] - amt]
         /\ Wallet' = [Wallet EXCEPT ![rentals[c].seller] = @ + amt]
<1>1. Pot' = [Pot EXCEPT ![c] = balances[c] - amt]
  BY Shape DEF Pot
<1>2. \A w \in Users : balances[w] \in Int /\ balances[w] + 0 = balances[w]
  BY Shape
<1>3. Wallet' = [Wallet EXCEPT ![rentals[c].seller] = @ + amt]
  BY <1>2, Shape DEF Wallet
<1> QED
  BY <1>1, <1>3

\* A transfer between accounts, or into a contract, and the burning of tokens are trades.
LEMMA TradeStep ==
  ASSUME MarketInv, TokenNext, UNCHANGED <<now, titanCut, rentals, fee>>
  PROVE  [R!RNext]_R!rentalVars
<1>1. UNCHANGED <<now, Lessee, Seller, AskedTerms, Since>>
  BY SameContracts
<1>2. \A c \in Clones : Pot'[c] >= Pot[c]
  BY TokenSafe DEF Pot, MarketInv
<1>3. CASE balances' = balances
  <2>1. UNCHANGED <<Pot, Wallet>>
    BY <1>3 DEF Pot, Wallet
  <2> QED BY <1>1, <2>1 DEF R!rentalVars
<1>4. ASSUME NEW u \in Users, NEW amt \in Amounts, balances[u] >= amt,
             balances' = [balances EXCEPT ![u] = @ - amt]
      PROVE  R!Trade
  <2>1. Wallet' = [Wallet EXCEPT ![u] = @ - amt] /\ Wallet[u] >= amt
    BY <1>4, Shape DEF Wallet
  <2> QED BY <1>1, <1>2, <2>1 DEF R!Trade
<1>5. ASSUME NEW u \in Users, NEW to \in Addresses, NEW amt \in Amounts, balances[u] >= amt,
             balances' = Moved(balances, u, to, amt)
      PROVE  R!Trade
  <2>1. Wallet[u] >= amt
    BY <1>5 DEF Wallet
  <2>2. CASE to \in Users
    <3>1. Wallet' = [[Wallet EXCEPT ![u] = @ - amt] EXCEPT ![to] = @ + amt]
      BY <1>5, <2>2, Shape DEF Wallet, Moved
    <3> QED BY <1>1, <1>2, <2>1, <2>2, <3>1 DEF R!Trade
  <2>3. CASE to \notin Users
    <3>1. Wallet' = [Wallet EXCEPT ![u] = @ - amt]
      BY <1>5, <2>3, Shape DEF Wallet, Moved
    <3> QED BY <1>1, <1>2, <2>1, <3>1 DEF R!Trade
  <2> QED BY <2>2, <2>3
<1>6. \/ balances' = balances
      \/ \E u \in Users, amt \in Amounts : /\ balances[u] >= amt
                                         /\ balances' = [balances EXCEPT ![u] = @ - amt]
      \/ \E u \in Users, to \in Addresses, amt \in Amounts :
            balances[u] >= amt /\ balances' = Moved(balances, u, to, amt)
  <2>1. \A g \in Grants : g[1] \in Users
    BY TokenAssumption
  <2> QED
    BY <2>1 DEF TokenNext, transfer, burn, approve, burnFrom, increaseAllowance,
                decreaseAllowance, transferFrom, setPaused, CanMove
<1> QED
  BY <1>3, <1>4, <1>5, <1>6 DEF R!RNext

LEMMA PassStep ==
  ASSUME Tick
  PROVE  R!Pass
<1>1. UNCHANGED <<Lessee, Seller, AskedTerms, Since>>
  BY SameContracts DEF Tick
<1>2. UNCHANGED <<Pot, Wallet>>
  BY DEF Tick, tokenVars, Pot, Wallet
<1> QED
  BY <1>1, <1>2 DEF R!Pass, Tick

LEMMA OfferStep ==
  ASSUME MarketInv, NEW c \in Clones, NEW u \in Users, NEW t \in Terms, NEW v \in Users,
         setCreateNewRentalContract(c, u, t, v)
  PROVE  R!Offer(c)
<1>1. /\ c \notin Created /\ Created' = Created \cup {c}
      /\ ~rentals'[c].running /\ rentals'[c].start = 0 /\ rentals'[c].seller = u
      /\ \A a \in Created : rentals'[a] = rentals[a]
  BY DEF setCreateNewRentalContract, Created
<1>2. \A a \in Clones \ {c} : Asked'[a] = Asked[a]
  BY <1>1 DEF Asked
<1>3. Asked'[c].start = 0 /\ Asked[c].start = 0
  BY <1>1 DEF Asked
<1>4. Since' = Since
  BY <1>2, <1>3 DEF Since
<1>5. R!Others(AskedTerms, c)
  BY <1>2 DEF R!Others, AskedTerms
<1>6. Lessee' = Lessee
  BY <1>1 DEF Lessee
<1>7. Seller[c] = None /\ Seller'[c] = u /\ R!Others(Seller, c)
  BY <1>1 DEF R!Others, Seller
<1>8. UNCHANGED <<now, Pot, Wallet>>
  BY DEF setCreateNewRentalContract, tokenVars, Pot, Wallet
<1> QED
  BY <1>4, <1>5, <1>6, <1>7, <1>8 DEF R!Offer

LEMMA RentStep ==
  ASSUME MarketInv, NEW c \in Clones, NEW u \in Users, NEW d \in Destinations,
         setPurchaseRentalContract(c, u, d)
  PROVE  R!Rent(c, u)
<1> DEFINE r == rentals[c]
           cut == Cut(r.price)
<1>1. c \in Created /\ ~r.running /\ now' = now
  BY DEF setPurchaseRentalContract
<1>2. r.price \in Nat /\ cut \in 0..r.price
  BY <1>1, Shape, CutIsPart
<1>3. /\ balances' \in [Addresses -> Nat]
      /\ balances'[c] = balances[c] + r.price - cut
      /\ \A a \in Clones \ {c} : balances'[a] = balances[a]
      /\ \A w \in Users :
           balances'[w] = balances[w] - (IF w = u THEN r.price ELSE 0)
                                      + (IF w = TitanFund THEN cut ELSE 0)
  BY PurchasePays
<1> HIDE DEF cut
<1>4. /\ Created' = Created /\ \A a \in Created \ {c} : rentals'[a] = rentals[a]
      /\ rentals'[c].running /\ rentals'[c].start = now /\ rentals'[c].buyer = u
      /\ rentals'[c].seller = r.seller
      /\ rentals'[c].price = r.price /\ rentals'[c].length = r.length
  <2>1. r \in Storage
    BY <1>1, Shape
  <2> QED BY <1>1, <2>1 DEF setPurchaseRentalContract, Created, Storage
<1>5. \A a \in Clones \ {c} : Asked'[a] = Asked[a]
  BY <1>4 DEF Asked
<1>6. Asked'[c].start = now /\ Asked'[c].price = Asked[c].price /\ Asked'[c].length = Asked[c].length
      /\ Asked[c].price = r.price
  BY <1>1, <1>4 DEF Asked
<1>7. AskedTerms' = AskedTerms /\ AskedTerms[c].price = r.price
  BY <1>5, <1>6 DEF AskedTerms
<1>8. Since'[c] = now /\ R!Others(Since, c)
  BY <1>5, <1>6 DEF R!Others, Since
<1>9. Seller' = Seller /\ Seller[c] # None
  <2>1. r.seller # None
    BY <1>1, Shape
  <2> QED BY <1>1, <1>4, <2>1 DEF Seller
<1>10. Lessee[c] = None /\ Lessee' = [Lessee EXCEPT ![c] = u]
  BY <1>1, <1>4 DEF Lessee
<1>11. Pot' = [Pot EXCEPT ![c] = @ + r.price - cut]
  BY <1>3 DEF Pot
<1>12. Wallet' = [[Wallet EXCEPT ![u] = @ - r.price] EXCEPT ![TitanFund] = @ + cut]
  <2>1. \A w \in Users : balances[w] \in Nat
    BY Shape
  <2> QED BY <1>2, <1>3, <2>1, Shape DEF Wallet
<1>13. Wallet' \in [Users -> Nat]
  BY <1>3, Shape DEF Wallet
<1>14. \E f \in 0..AskedTerms[c].price, to \in Users :
          /\ Pot' = [Pot EXCEPT ![c] = @ + AskedTerms[c].price - f]
          /\ Wallet' = [[Wallet EXCEPT ![u] = @ - AskedTerms[c].price] EXCEPT ![to] = @ + f]
  BY <1>2, <1>7, <1>11, <1>12, Shape
<1> QED
  BY <1>1, <1>7, <1>8, <1>9, <1>10, <1>13, <1>14 DEF R!Rent

\* A running rental that ends when nothing is left of the term, with all the contract holds
\* going to the seller or none of it, and perhaps with new terms.
LEMMA EndOverStep ==
  ASSUME MarketInv, NEW c \in Created, rentals[c].running, buyerPayoutCalc(rentals[c]) = 0,
         NEW q, ~q.running, q.start = 0, q.seller = rentals[c].seller,
         rentals' = [rentals EXCEPT ![c] = q], now' = now,
         NEW amt \in {0, balances[c]}, balances'[c] = balances[c] - amt,
         \A a \in Clones \ {c} : balances'[a] = balances[a],
         \A w \in Users : balances'[w] = balances[w] + (IF w = rentals[c].seller THEN amt ELSE 0)
  PROVE  R!EndOver(c)
<1>1. /\ Lessee' = [Lessee EXCEPT ![c] = None] /\ Seller' = Seller
      /\ \A d \in Clones \ {c} : Since'[d] = Since[d] /\ AskedTerms'[d] = AskedTerms[d]
  BY ClosedRental
<1>2. R!Others(Since, c) /\ R!Others(AskedTerms, c)
  BY <1>1 DEF R!Others, Since, AskedTerms
<1>3. c \in Clones /\ balances[c] \in Nat /\ amt \in Int
  BY Shape
<1>4. Lessee[c] # None /\ Seller[c] = rentals[c].seller /\ Pot[c] = balances[c]
  BY Abstract DEF MarketInv, Sound
<1>5. R!End(c)
  BY <1>1, <1>2, <1>4 DEF R!End
<1>6. R!Unused(c) = 0
  BY UnusedIsPayout
<1>7. /\ Pot' = [Pot EXCEPT ![c] = balances[c] - amt]
      /\ Wallet' = [Wallet EXCEPT ![rentals[c].seller] = @ + amt]
  BY <1>3, PaidToSeller
<1>8. CASE amt = 0
  <2>1. UNCHANGED <<Pot, Wallet>>
    <3>1. \A w \in Users : balances'[w] = balances[w]
      BY <1>8, Shape
    <3>2. \A a \in Clones : balances'[a] = balances[a]
      BY <1>3, <1>8
    <3> QED BY <3>1, <3>2, SameMoney
  <2> QED BY <1>2, <1>5, <1>6, <2>1 DEF R!EndOver
<1>9. CASE amt = balances[c]
  <2>1. balances[c] - amt = 0
    BY <1>3, <1>9
  <2>2. R!Pay(Seller[c], Pot[c]) /\ Pot' = [Pot EXCEPT ![c] = 0]
    BY <1>4, <1>7, <1>9, <2>1 DEF R!Pay
  <2> QED BY <1>2, <1>5, <1>6, <2>2 DEF R!EndOver
<1> QED
  BY <1>8, <1>9

\* Money that goes to the seller while nobody rents the contract, or short of what its
\* buyer would be paid back.
LEMMA CollectStep ==
  ASSUME MarketInv, NEW c \in Created, now' = now,
         UNCHANGED <<Lessee, Seller, AskedTerms, Since>>,
         NEW amt \in 0..balances[c],
         balances[c] - amt = IF rentals[c].running THEN buyerPayoutCalc(rentals[c]) ELSE 0,
         balances'[c] = balances[c] - amt,
         \A a \in Clones \ {c} : balances'[a] = balances[a],
         \A w \in Users : balances'[w] = balances[w] + (IF w = rentals[c].seller THEN amt ELSE 0)
  PROVE  R!Collect(c)
<1> DEFINE keep == IF Lessee[c] = None THEN 0 ELSE R!Unused(c)
<1>1. /\ Seller[c] = rentals[c].seller /\ Pot[c] = balances[c] /\ Seller[c] # None
      /\ balances[c] \in Nat
  BY Abstract, Shape
<1>2. keep = balances[c] - amt
  <2>1. CASE rentals[c].running
    BY <2>1, Abstract, UnusedIsPayout DEF MarketInv, Sound
  <2>2. CASE ~rentals[c].running
    BY <2>2, Abstract
  <2> QED BY <2>1, <2>2
<1> HIDE DEF keep
<1>3. Pot[c] >= keep /\ Pot[c] - keep = amt
  BY <1>1, <1>2
<1>4. /\ Pot' = [Pot EXCEPT ![c] = keep]
      /\ Wallet' = [Wallet EXCEPT ![Seller[c]] = @ + amt]
  BY <1>1, <1>2, PaidToSeller
<1>5. R!Others(Since, c)
  BY DEF R!Others
<1>6. R!Pay(Seller[c], Pot[c] - keep)
  BY <1>3, <1>4 DEF R!Pay
<1> QED
  BY <1>1, <1>3, <1>4, <1>5, <1>6 DEF R!Collect, keep

LEMMA EarlyCloseOutStep ==
  ASSUME MarketInv, NEW c \in Clones, NEW u \in Users, EarlyCloseOut(c, u)
  PROVE  R!EndEarly(c) \/ R!EndOver(c) \/ UNCHANGED R!rentalVars
<1> DEFINE r == rentals[c]
           amt == buyerPayoutCalc(r)
<1>1. c \in Created /\ now' = now /\ r \in Storage
  BY Shape DEF EarlyCloseOut, Settle
<1> PICK q : q = Reset(r)
  OBVIOUS
<1>2. /\ ~q.running /\ q.start = 0 /\ q.seller = r.seller
      /\ q.price = r.price /\ q.length = r.length
  BY <1>1, ResetStorage
<1>3. rentals' = [rentals EXCEPT ![c] = q]
  BY DEF EarlyCloseOut, Settle
<1>4. /\ Lessee' = [Lessee EXCEPT ![c] = None] /\ Seller' = Seller /\ AskedTerms' = AskedTerms
      /\ \A d \in Clones \ {c} : Since'[d] = Since[d]
      /\ ~r.running => Since' = Since
  BY <1>1, <1>2, <1>3, ClosedRental
<1>5. CASE amt # 0
  <2>1. /\ r.running /\ amt \in 1..balances[c]
        /\ balances'[c] = 0 /\ \A a \in Clones \ {c} : balances'[a] = balances[a]
        /\ \A w \in Users :
             balances'[w] = balances[w] + (IF w = r.seller THEN balances[c] - amt ELSE 0)
                                        + (IF w = r.buyer THEN amt ELSE 0)
    BY <1>5, EarlyPays
  <2>2. R!Unused(c) = amt
    BY <1>1, <2>1, UnusedIsPayout
  <2> HIDE DEF amt
  <2>3. /\ Lessee[c] = r.buyer /\ Lessee[c] # None /\ Seller[c] = r.seller
        /\ Pot[c] = balances[c] /\ balances[c] \in Nat
    BY <1>1, <2>1, Abstract, Shape, ZenonT(30) DEF MarketInv, Sound
  <2>4. R!End(c)
    <3>1. R!Others(Since, c)
      BY <1>4 DEF R!Others, Since
    <3> QED BY <1>1, <1>4, <2>3, <3>1 DEF R!End
  <2>5. Pot' = [Pot EXCEPT ![c] = 0]
    BY <2>1 DEF Pot
  <2>6. Wallet' = [[Wallet EXCEPT ![r.buyer] = @ + amt] EXCEPT ![r.seller] = @ + balances[c] - amt]
    <3>1. \A w \in Users : balances[w] \in Nat
      BY Shape
    <3> QED BY <2>1, <2>3, <3>1 DEF Wallet
  <2>7. R!Unused(c) > 0 /\ Pot[c] >= R!Unused(c)
    BY <2>1, <2>2, <2>3
  <2> QED BY <1>4, <2>2, <2>3, <2>4, <2>5, <2>6, <2>7 DEF R!EndEarly
<1>6. CASE amt = 0
  <2>1. balances' = balances
    BY <1>6 DEF EarlyCloseOut, Settle
  <2>2. CASE r.running
    <3>1. \A a \in Addresses : balances[a] \in Nat
      BY Shape
    <3>2. /\ balances'[c] = balances[c] - 0
          /\ \A w \in Users : balances'[w] = balances[w] + (IF w = r.seller THEN 0 ELSE 0)
      BY <2>1, <3>1, Shape
    <3> QED BY <1>1, <1>2, <1>3, <1>6, <2>1, <2>2, <3>2, EndOverStep
  <2>3. CASE ~r.running
    <3>1. Lessee' = Lessee
      BY <1>1, <1>4, <2>3, Abstract DEF Lessee
    <3>2. UNCHANGED <<Pot, Wallet>>
      BY <2>1 DEF Pot, Wallet
    <3> QED BY <1>1, <1>4, <2>3, <3>1, <3>2 DEF R!rentalVars
  <2> QED BY <2>2, <2>3
<1> QED
  BY <1>5, <1>6

LEMMA MidTermWithdrawalStep ==
  ASSUME MarketInv, NEW c \in Clones, NEW u \in Users, MidTermWithdrawal(c, u)
  PROVE  R!Collect(c)
<1> DEFINE amt == balances[c] - buyerPayoutCalc(rentals[c])
<1>1. /\ c \in Created /\ amt \in 0..balances[c]
      /\ balances'[c] = buyerPayoutCalc(rentals[c])
      /\ \A a \in Clones \ {c} : balances'[a] = balances[a]
      /\ \A w \in Users :
           balances'[w] = balances[w] + (IF w = rentals[c].seller THEN amt ELSE 0)
  BY WithdrawalPays
<1>2. balances[c] \in Nat /\ buyerPayoutCalc(rentals[c]) \in Int
  <2>1. CASE rentals[c].running
    BY <1>1, <2>1, Shape, Payout DEF MarketInv, Sound
  <2>2. CASE ~rentals[c].running
    BY <1>1, <2>2, Shape, IdlePayout
  <2> QED BY <2>1, <2>2, Shape
<1>3. balances[c] - amt = buyerPayoutCalc(rentals[c])
  BY <1>2
<1>4. balances[c] - amt = IF rentals[c].running THEN buyerPayoutCalc(rentals[c]) ELSE 0
  BY <1>1, <1>3, IdlePayout
<1>5. now' = now /\ UNCHANGED <<Lessee, Seller, AskedTerms, Since>>
  BY SameContracts DEF MidTermWithdrawal
<1> HIDE DEF amt
<1> QED
  BY <1>1, <1>3, <1>4, <1>5, CollectStep DEF amt

LEMMA CloseOutAtTermStep ==
  ASSUME MarketInv, NEW c \in Clones, NEW type \in AtTerm, CloseOutAtTerm(c, type)
  PROVE  R!EndOver(c) \/ R!Collect(c) \/ UNCHANGED R!rentalVars
<1> DEFINE r == rentals[c]
<1>1. /\ c \in Created /\ now' = now /\ r \in Storage /\ TermOver(r) /\ Released(c, type)
      /\ rentals' = [rentals EXCEPT ![c] = Reset(r)]
  BY Shape DEF CloseOutAtTerm
<1> PICK q : q = Reset(r)
  OBVIOUS
<1>2. /\ ~q.running /\ q.start = 0 /\ q.seller = r.seller
      /\ q.price = r.price /\ q.length = r.length
      /\ rentals' = [rentals EXCEPT ![c] = q]
  BY <1>1, ResetStorage
<1>3. PICK amt \in {0, balances[c]} :
            /\ balances'[c] = balances[c] - amt
            /\ \A a \in Clones \ {c} : balances'[a] = balances[a]
            /\ \A w \in Users :
                 balances'[w] = balances[w] + (IF w = r.seller THEN amt ELSE 0)
  BY <1>1, ReleasePays
<1>4. buyerPayoutCalc(r) = 0
  <2>1. CASE r.running
    BY <1>1, <2>1, Shape, Payout DEF MarketInv, Sound
  <2>2. CASE ~r.running
    BY <1>1, <2>2, IdlePayout
  <2> QED BY <2>1, <2>2
<1>5. CASE r.running
  BY <1>1, <1>2, <1>3, <1>4, <1>5, EndOverStep
<1>6. CASE ~r.running
  <2>1. UNCHANGED <<Lessee, Seller, AskedTerms, Since>>
    <3>1. /\ Lessee' = [Lessee EXCEPT ![c] = None] /\ Seller' = Seller
          /\ AskedTerms' = AskedTerms /\ Since' = Since
      BY <1>1, <1>2, <1>6, ClosedRental
    <3>2. Lessee[c] = None
      BY <1>1, <1>6, Abstract
    <3> QED BY <3>1, <3>2 DEF Lessee
  <2>2. balances[c] \in Nat /\ \A a \in Addresses : balances[a] \in Nat
    BY <1>1, Shape
  <2>3. CASE amt = 0
    <3>1. \A w \in Users : balances'[w] = balances[w]
      BY <1>3, <2>2, <2>3, Shape
    <3>2. \A a \in Clones : balances'[a] = balances[a]
      BY <1>3, <2>2, <2>3, Shape
    <3> QED BY <1>1, <2>1, <3>1, <3>2, SameMoney DEF R!rentalVars
  <2>4. CASE amt = balances[c]
    <3>1. amt \in 0..balances[c] /\ balances[c] - amt = 0
      BY <2>2, <2>4
    <3>2. balances[c] - amt = IF r.running THEN buyerPayoutCalc(r) ELSE 0
      BY <1>6, <3>1
    <3> QED BY <1>1, <1>3, <2>1, <3>1, <3>2, CollectStep
  <2> QED BY <2>3, <2>4
<1> QED
  BY <1>5, <1>6

LEMMA PurchaseInformationStep ==
  ASSUME MarketInv, NEW c \in Clones, NEW u \in Users, NEW t \in Terms, NEW type \in AtTerm,
         setUpdatePurchaseInformation(c, u, t, type)
  PROVE  R!EndOver(c)
<1> DEFINE r == rentals[c]
<1> PICK q : q = [Reset(r) EXCEPT !.price = t.price, !.length = t.length]
  OBVIOUS
<1>1. /\ c \in Created /\ now' = now /\ r \in Storage /\ r.running /\ TermOver(r)
      /\ Released(c, type) /\ rentals' = [rentals EXCEPT ![c] = q]
  BY Shape DEF setUpdatePurchaseInformation
<1>2. ~q.running /\ q.start = 0 /\ q.seller = r.seller
  BY <1>1 DEF Reset, Storage
<1>3. PICK amt \in {0, balances[c]} :
            /\ balances'[c] = balances[c] - amt
            /\ \A a \in Clones \ {c} : balances'[a] = balances[a]
            /\ \A w \in Users :
                 balances'[w] = balances[w] + (IF w = r.seller THEN amt ELSE 0)
  BY <1>1, ReleasePays
<1>4. buyerPayoutCalc(r) = 0
  BY <1>1, Shape, Payout DEF MarketInv, Sound
<1> QED
  BY <1>1, <1>2, <1>3, <1>4, EndOverStep

LEMMA MiningInformationStep ==
  ASSUME MarketInv, NEW c \in Clones, NEW u \in Users, NEW d \in Destinations,
         setUpdateMiningInformation(c, u, d)
  PROVE  UNCHANGED R!rentalVars
<1> DEFINE r == rentals[c]
<1>1. c \in Created /\ r \in Storage
  BY Shape DEF setUpdateMiningInformation
<1>2. /\ Created' = Created /\ \A a \in Created \ {c} : rentals'[a] = rentals[a]
      /\ rentals'[c].running = r.running /\ rentals'[c].start = r.start
      /\ rentals'[c].buyer = r.buyer /\ rentals'[c].seller = r.seller
      /\ rentals'[c].price = r.price /\ rentals'[c].length = r.length
  BY <1>1 DEF setUpdateMiningInformation, Created, Storage
<1>3. \A a \in Clones : /\ Asked'[a].price = Asked[a].price
                        /\ Asked'[a].length = Asked[a].length
                        /\ Asked'[a].start = Asked[a].start
  BY <1>2 DEF Asked
<1>4. AskedTerms' = AskedTerms /\ Since' = Since
  BY <1>3 DEF AskedTerms, Since
<1>5. Lessee' = Lessee /\ Seller' = Seller
  BY <1>2 DEF Lessee, Seller
<1>6. UNCHANGED <<now, Pot, Wallet>>
  BY DEF setUpdateMiningInformation, tokenVars, Pot, Wallet
<1> QED
  BY <1>4, <1>5, <1>6 DEF R!rentalVars

LEMMA TitanCutStep ==
  ASSUME NEW on \in BOOLEAN, setTitanCut(on)
  PROVE  UNCHANGED R!rentalVars
<1>1. UNCHANGED <<Lessee, Seller, AskedTerms, Since>>
  BY SameContracts DEF setTitanCut
<1>2. UNCHANGED <<now, Pot, Wallet>>
  BY DEF setTitanCut, tokenVars, Pot, Wallet
<1> QED
  BY <1>1, <1>2 DEF R!rentalVars

LEMMA RentalStep == MarketInv /\ [MarketNext]_marketVars => [R!RNext]_R!rentalVars
<1> SUFFICES ASSUME MarketInv, [MarketNext]_marketVars PROVE [R!RNext]_R!rentalVars
  OBVIOUS
<1>1. CASE UNCHANGED marketVars
  <2>1. UNCHANGED <<now, Pot, Wallet, Lessee, Seller, AskedTerms, Since>>
    BY <1>1, SameContracts DEF marketVars, tokenVars, Pot, Wallet
  <2> QED BY <2>1 DEF R!rentalVars
<1>2. CASE TokenNext /\ UNCHANGED <<now, titanCut, rentals, fee>>
  BY <1>2, TradeStep
<1>3. CASE Tick
  BY <1>3, PassStep DEF R!RNext
<1>4. CASE \E on \in BOOLEAN : setTitanCut(on)
  BY <1>4, TitanCutStep
<1>5. ASSUME NEW c \in Clones, NEW type \in AtTerm, CloseOutAtTerm(c, type)
      PROVE  [R!RNext]_R!rentalVars
  BY <1>5, CloseOutAtTermStep DEF R!RNext
<1>6. ASSUME NEW c \in Clones, NEW u \in Users
      PROVE  /\ (\E t \in Terms, v \in Users : setCreateNewRentalContract(c, u, t, v))
                  => [R!RNext]_R!rentalVars
             /\ (\E d \in Destinations : setPurchaseRentalContract(c, u, d))
                  => [R!RNext]_R!rentalVars
             /\ (\E d \in Destinations : setUpdateMiningInformation(c, u, d))
                  => [R!RNext]_R!rentalVars
             /\ EarlyCloseOut(c, u) => [R!RNext]_R!rentalVars
             /\ MidTermWithdrawal(c, u) => [R!RNext]_R!rentalVars
             /\ (\E t \in Terms, type \in AtTerm : setUpdatePurchaseInformation(c, u, t, type))
                  => [R!RNext]_R!rentalVars
  <2>1. ASSUME NEW t \in Terms, NEW v \in Users, setCreateNewRentalContract(c, u, t, v)
        PROVE  R!RNext
    BY <2>1, OfferStep DEF R!RNext
  <2>2. ASSUME NEW d \in Destinations, setPurchaseRentalContract(c, u, d) PROVE R!RNext
    BY <2>2, RentStep DEF R!RNext
  <2>3. ASSUME NEW d \in Destinations, setUpdateMiningInformation(c, u, d)
        PROVE  UNCHANGED R!rentalVars
    BY <2>3, MiningInformationStep
  <2>4. ASSUME EarlyCloseOut(c, u) PROVE R!RNext \/ UNCHANGED R!rentalVars
    BY <2>4, EarlyCloseOutStep DEF R!RNext
  <2>5. ASSUME MidTermWithdrawal(c, u) PROVE R!RNext
    BY <2>5, MidTermWithdrawalStep DEF R!RNext
  <2>6. ASSUME NEW t \in Terms, NEW type \in AtTerm, setUpdatePurchaseInformation(c, u, t, type)
        PROVE  R!RNext
    BY <2>6, PurchaseInformationStep DEF R!RNext
  <2> QED BY <2>1, <2>2, <2>3, <2>4, <2>5, <2>6
<1> QED
  BY <1>1, <1>2, <1>3, <1>4, <1>5, <1>6 DEF MarketNext

\* Factory, escrow and token implement the rental their users are promised: money leaves
\* a contract only to its seller and its buyer, and a rental that ends early pays back
\* exactly the unused part of the price (Implementation.sol:171-204).
THEOREM RentalImplemented == MarketSpec => ImplementsRental
<1>1. MarketInv /\ [MarketNext]_marketVars => [R!RNext]_R!rentalVars
  BY RentalStep
<1> QED
  BY <1>1, RentalInit, MarketInvariant, PTL DEF MarketSpec, ImplementsRental, R!RSpec
-----------------------------------------------------------------------------
(* The repository.                                                          *)

\* The repository: what its goroutine works on is a transaction of one client, and what it
\* has not stored yet is all that store and written differ in.
Working == worker = "busy" => /\ job = <<job[1], job[2]>>
                              /\ job[1] \in Clients /\ job[2] \in Transactions
Requested == \A c \in Clients : client[c] = "calls" => request[c] \in Transactions
Unsaved ==
    \A i \in Ids : written[i] = IF worker = "busy" /\ job[2][1] = "put" /\ job[2][2] = i
                                THEN job[2][3] ELSE store[i]
Blocked ==
    /\ \A f \in found : f[2] = f[3]
    /\ worker # "blocked" => \A f \in found : f[2] = Absent
    /\ worker = "blocked" => \E f \in found : f[2] # Absent
    /\ \A f, g \in found : f[2] # Absent /\ g[2] # Absent => f = g

RepositoryInv == RepositoryTypeOK /\ Working /\ Requested /\ Unsaved /\ Blocked
LEMMA TransactionShape ==
  ASSUME NEW t \in Transactions
  PROVE  /\ t[1] \in {"get", "put"} /\ t[2] \in Ids
         /\ t[1] = "put" => t[3] \in Items
BY DEF Transactions

LEMMA InitRepository == RepositoryInit => RepositoryInv
<1> SUFFICES ASSUME RepositoryInit PROVE RepositoryInv
  OBVIOUS
<1>1. RepositoryTypeOK
  BY RepositoryAssumption DEF RepositoryInit, RepositoryTypeOK
<1>2. Working /\ Requested /\ Unsaved /\ Blocked
  BY DEF RepositoryInit, Working, Requested, Unsaved, Blocked
<1> QED
  BY <1>1, <1>2 DEF RepositoryInv

LEMMA CallRepositorySafe ==
  ASSUME RepositoryInv, NEW c \in Clients, NEW t \in Transactions, CallRepository(c, t)
  PROVE  RepositoryInv'
<1>1. RepositoryTypeOK'
  <2>1. ops' \in 0..MaxOps
    BY RepositoryAssumption DEF CallRepository, RepositoryInv, RepositoryTypeOK
  <2> QED BY <2>1 DEF CallRepository, RepositoryInv, RepositoryTypeOK
<1>2. Requested'
  BY DEF CallRepository, RepositoryInv, RepositoryTypeOK, Requested
<1>3. Working' /\ Unsaved' /\ Blocked'
  BY DEF CallRepository, RepositoryInv, Working, Unsaved, Blocked
<1> QED
  BY <1>1, <1>2, <1>3 DEF RepositoryInv

LEMMA TakeTransactionSafe ==
  ASSUME RepositoryInv, NEW c \in Clients, TakeTransaction(c)
  PROVE  RepositoryInv'
<1>1. request[c] \in Transactions
  BY DEF TakeTransaction, RepositoryInv, Requested
<1> DEFINE t == request[c]
<1>2. /\ t[1] \in {"get", "put"} /\ t[2] \in Ids
      /\ t[1] = "put" => t[3] \in Items
  BY <1>1, TransactionShape
<1>3. /\ worker = "idle" /\ worker' = "busy" /\ job' = <<c, t>>
      /\ UNCHANGED <<store, ops, found>>
      /\ written' = IF t[1] = "put" THEN [written EXCEPT ![t[2]] = t[3]] ELSE written
      /\ request' = [request EXCEPT ![c] = NoTransaction]
      /\ client' = [client EXCEPT ![c] = IF t[1] = "get" THEN "waits" ELSE "idle"]
  BY DEF TakeTransaction
<1> HIDE DEF t
<1>4. RepositoryTypeOK'
  BY <1>2, <1>3 DEF RepositoryInv, RepositoryTypeOK
<1>5. Working'
  BY <1>1, <1>3 DEF Working, t
<1>6. Requested'
  BY <1>3 DEF RepositoryInv, RepositoryTypeOK, Requested
<1>7. Unsaved'
  BY <1>2, <1>3 DEF RepositoryInv, RepositoryTypeOK, Unsaved
<1>8. Blocked'
  BY <1>3 DEF RepositoryInv, Blocked
<1> QED
  BY <1>4, <1>5, <1>6, <1>7, <1>8 DEF RepositoryInv

LEMMA PutSafe ==
  ASSUME RepositoryInv, Put
  PROVE  RepositoryInv'
<1>1. /\ worker = "busy" /\ job[2] \in Transactions /\ job[2][1] = "put"
      /\ job[2][2] \in Ids /\ job[2][3] \in Items
  BY TransactionShape DEF Put, RepositoryInv, Working
<1>2. /\ store' = [store EXCEPT ![job[2][2]] = job[2][3]]
      /\ worker' = "idle" /\ UNCHANGED <<client, request, ops, written, found>>
  BY DEF Put
<1>3. RepositoryTypeOK'
  BY <1>1, <1>2 DEF RepositoryInv, RepositoryTypeOK
<1>4. Unsaved'
  BY <1>1, <1>2 DEF RepositoryInv, RepositoryTypeOK, Unsaved
<1>5. Working' /\ Requested' /\ Blocked'
  BY <1>1, <1>2 DEF RepositoryInv, Working, Requested, Blocked
<1> QED
  BY <1>3, <1>4, <1>5 DEF RepositoryInv

LEMMA GetSafe ==
  ASSUME RepositoryInv, GetAbsent \/ GetFound
  PROVE  RepositoryInv'
<1> DEFINE i == job[2][2]
           f == <<job[1], store[i], written[i]>>
<1>1. worker = "busy" /\ job[2] \in Transactions /\ job[2][1] = "get" /\ i \in Ids /\ job[1] \in Clients
  BY TransactionShape DEF GetAbsent, GetFound, RepositoryInv, Working
<1>2. /\ client' = [client EXCEPT ![job[1]] = "idle"]
      /\ worker' = IF store[i] = Absent THEN "idle" ELSE "blocked"
      /\ found' = found \cup {f}
      /\ UNCHANGED <<store, request, ops, written>>
  BY DEF GetAbsent, GetFound
<1>3. written[i] = store[i]
  BY <1>1 DEF RepositoryInv, Unsaved
<1>4. f[2] = store[i] /\ f[3] = written[i]
  OBVIOUS
<1> HIDE DEF f, i
<1>5. RepositoryTypeOK'
  BY <1>1, <1>2 DEF RepositoryInv, RepositoryTypeOK
<1>6. Working' /\ Requested'
  BY <1>1, <1>2 DEF RepositoryInv, RepositoryTypeOK, Working, Requested
<1>7. Unsaved'
  BY <1>1, <1>2 DEF RepositoryInv, Unsaved
<1>8. Blocked'
  BY <1>1, <1>2, <1>3, <1>4 DEF RepositoryInv, Blocked
<1> QED
  BY <1>5, <1>6, <1>7, <1>8 DEF RepositoryInv

LEMMA RepositoryStep ==
  ASSUME RepositoryInv, [RepositoryNext]_repositoryVars
  PROVE  RepositoryInv'
<1>1. CASE UNCHANGED repositoryVars
  BY <1>1 DEF repositoryVars, RepositoryInv, RepositoryTypeOK, Working, Requested, Unsaved, Blocked
<1> QED
  BY <1>1, CallRepositorySafe, TakeTransactionSafe, PutSafe, GetSafe DEF RepositoryNext

LEMMA OneFound ==
  ASSUME RepositoryInv
  PROVE  LastSaved
<1> DEFINE saved == {f \in found : f[2] # Absent}
<1>1. Cardinality(saved) <= 1
  <2>1. CASE saved = {}
    BY <2>1, FS_EmptySet
  <2>2. CASE saved # {}
    <3>1. PICK f \in saved : TRUE
      BY <2>2
    <3>2. saved = {f}
      BY <3>1 DEF RepositoryInv, Blocked
    <3>3. Cardinality({f}) = 1
      BY FS_Singleton
    <3> QED BY <3>2, <3>3
  <2> QED BY <2>1, <2>2
<1> QED
  BY <1>1 DEF RepositoryInv, Blocked, LastSaved
-----------------------------------------------------------------------------
(* The event bus.                                                           *)

\* The events of a publisher are numbered; the one it holds is the last of them.
Held ==
    \A p \in Publishers : /\ offer[p].to \subseteq Subscribers
                          /\ sent[p] = 0 => offer[p].to = {}
                          /\ sent[p] > 0 => \E n \in Names : offer[p].event = <<p, sent[p], n>>
                          /\ \A s \in offer[p].to : offer[p].event[3] \in name[s]

\* A subscriber has at most one name, and none before it subscribes.
Named == \A s \in Subscribers : /\ name[s] = {} \/ \E n \in Names : name[s] = {n}
                                /\ loop[s] = "off" => name[s] = {}

Queued == /\ channel \in [Subscribers -> Seq(Events)] /\ onMessage \in [Subscribers -> Seq(Events)]
          /\ \A s \in Subscribers : Len(channel[s]) <= BufferSize

\* An event is delivered under its name, after its publisher's former ones, and not before
\* it is offered.
InOrder(s, d) ==
    \A i \in DOMAIN d :
       /\ d[i][3] \in name[s]
       /\ d[i][2] <= sent[d[i][1]] /\ (s \in offer[d[i][1]].to => d[i][2] < sent[d[i][1]])
       /\ \A j \in DOMAIN d : i < j /\ d[i][1] = d[j][1] => d[i][2] < d[j][2]

\* The event a publisher holds has been delivered or missed, if it is not still offered.
Accounted(s, d) ==
    \A p \in Publishers :
       sent[p] > since[s][p] /\ offer[p].event[3] \in name[s] /\ s \notin offer[p].to
          => <<s, offer[p].event>> \in full \/ \E i \in DOMAIN d : d[i] = offer[p].event

BusCounters ==
    /\ sent \in [Publishers -> 0..MaxEvents] /\ since \in [Subscribers -> [Publishers -> Nat]]
    /\ loop \in [Subscribers -> {"off", "on", "ended"}] /\ full \subseteq Subscribers \X Events
    /\ DOMAIN name = Subscribers /\ offer \in [Publishers -> [event : {<<>>} \cup Events, to : SUBSET Subscribers]]

BusInv == /\ BusCounters /\ Held /\ Named /\ Queued
          /\ \A s \in Subscribers : InOrder(s, Delivered(s)) /\ Accounted(s, Delivered(s))

LEMMA EventShape ==
  ASSUME NEW e \in Events
  PROVE  e[1] \in Publishers /\ e[2] \in Nat /\ e[3] \in Names
BY BusAssumption DEF Events

LEMMA DeliveredShape ==
  ASSUME Queued, NEW s \in Subscribers
  PROVE  /\ Delivered(s) \in Seq(Events) /\ Len(Delivered(s)) \in Nat
         /\ DOMAIN Delivered(s) = 1..Len(Delivered(s))
BY DEF Queued, Delivered

LEMMA AppendToLast ==
  ASSUME NEW S, NEW a \in Seq(S), NEW b \in Seq(S), NEW e \in S
  PROVE  a \o Append(b, e) = Append(a \o b, e)
<1>1. <<e>> \in Seq(S)
  OBVIOUS
<1>2. Append(b, e) = b \o <<e>> /\ Append(a \o b, e) = (a \o b) \o <<e>>
  BY AppendIsConcat, ConcatProperties
<1> QED
  BY <1>1, <1>2, ConcatAssociative

LEMMA HeadMoved ==
  ASSUME NEW S, NEW a \in Seq(S), NEW b \in Seq(S), b # <<>>
  PROVE  Append(a, Head(b)) \o Tail(b) = a \o b
<1>1. Head(b) \in S /\ Tail(b) \in Seq(S) /\ <<Head(b)>> \in Seq(S)
  BY HeadTailProperties
<1>2. Append(a, Head(b)) = a \o <<Head(b)>>
  BY <1>1, AppendIsConcat
<1>3. <<Head(b)>> \o Tail(b) = b
  <2>1. Len(b) \in Nat /\ Len(Tail(b)) = Len(b) - 1 /\ Len(b) >= 1
    BY HeadTailProperties, EmptySeq
  <2>2. \A i \in 1..Len(b) : (<<Head(b)>> \o Tail(b))[i] = b[i]
    BY <1>1, <2>1
  <2>3. <<Head(b)>> \o Tail(b) \in Seq(S) /\ Len(<<Head(b)>> \o Tail(b)) = Len(b)
    BY <1>1, <2>1
  <2> QED BY <2>2, <2>3, SeqEqual
<1> QED
  BY <1>1, <1>2, <1>3, ConcatAssociative

LEMMA InitBus == BusInit => BusInv
<1> SUFFICES ASSUME BusInit PROVE BusInv
  OBVIOUS
<1>1. BusCounters
  BY BusAssumption DEF BusInit, BusCounters
<1>2. Held /\ Named
  BY DEF BusInit, Held, Named
<1>3. Queued
  BY BusAssumption DEF BusInit, Queued
<1>4. ASSUME NEW s \in Subscribers PROVE InOrder(s, Delivered(s)) /\ Accounted(s, Delivered(s))
  <2>1. Delivered(s) = <<>>
    BY DEF BusInit, Delivered
  <2> QED BY <2>1 DEF InOrder, Accounted, BusInit
<1> QED
  BY <1>1, <1>2, <1>3, <1>4 DEF BusInv

LEMMA SubscribeSafe ==
  ASSUME BusInv, NEW s \in Subscribers, NEW n \in Names, Subscribe(s, n)
  PROVE  BusInv'
<1>1. /\ UNCHANGED <<channel, onMessage, offer, sent, full>>
      /\ loop[s] = "off" /\ name' = [name EXCEPT ![s] = {n}]
      /\ loop' = [loop EXCEPT ![s] = "on"] /\ since' = [since EXCEPT ![s] = sent]
  BY DEF Subscribe
<1>2. BusCounters'
  BY <1>1, BusAssumption DEF BusInv, BusCounters
<1>3. Held'
  BY <1>1 DEF BusInv, Held, Named, BusCounters
<1>4. Named' /\ Queued'
  BY <1>1 DEF BusInv, Named, BusCounters, Queued
<1>5. \A r \in Subscribers : Delivered(r)' = Delivered(r)
  BY <1>1 DEF Delivered
<1>6. ASSUME NEW r \in Subscribers
      PROVE  InOrder(r, Delivered(r))' /\ Accounted(r, Delivered(r))'
  <2>1. CASE r # s
    BY <1>1, <1>5, <2>1 DEF BusInv, InOrder, Accounted
  <2>2. CASE r = s
    <3>1. name[s] = {}
      BY <1>1 DEF BusInv, Named
    <3>2. DOMAIN Delivered(s) = {}
      BY <3>1 DEF BusInv, InOrder
    <3>3. \A p \in Publishers : ~(sent[p] > since'[s][p])
      BY <1>1 DEF BusInv, BusCounters
    <3> QED BY <1>1, <1>5, <2>2, <3>2, <3>3 DEF InOrder, Accounted
  <2> QED BY <2>1, <2>2
<1> QED
  BY <1>2, <1>3, <1>4, <1>6 DEF BusInv

LEMMA PublishSafe ==
  ASSUME BusInv, NEW p \in Publishers, NEW n \in Names, Publish(p, n)
  PROVE  BusInv'
<1> DEFINE to == {s \in Subscribers : n \in name[s]}
           e == <<p, sent[p] + 1, n>>
<1>1. /\ UNCHANGED <<name, loop, channel, onMessage, since, full>>
      /\ offer[p].to = {} /\ sent[p] < MaxEvents /\ sent' = [sent EXCEPT ![p] = @ + 1]
      /\ offer' = [offer EXCEPT ![p] = [event |-> e, to |-> to]]
  BY DEF Publish, Publishes
<1>2. sent[p] \in Nat /\ sent[p] + 1 \in 1..MaxEvents /\ e \in Events
  BY <1>1, BusAssumption DEF BusInv, BusCounters, Events
<1>3. /\ sent'[p] = sent[p] + 1 /\ offer'[p].to = to /\ offer'[p].event = e
      /\ \A q \in Publishers \ {p} : sent'[q] = sent[q] /\ offer'[q] = offer[q]
  BY <1>1 DEF BusInv, BusCounters
<1>4. to \subseteq Subscribers /\ e[1] = p /\ e[2] = sent[p] + 1 /\ e[3] = n
  OBVIOUS
<1>5. \A s \in Subscribers : s \in to <=> n \in name[s]
  OBVIOUS
<1> HIDE DEF e, to
<1>6. BusCounters'
  <2>1. sent' \in [Publishers -> 0..MaxEvents]
    BY <1>1, <1>2 DEF BusInv, BusCounters
  <2>2. offer' \in [Publishers -> [event : {<<>>} \cup Events, to : SUBSET Subscribers]]
    BY <1>1, <1>2, <1>4 DEF BusInv, BusCounters
  <2> QED BY <1>1, <2>1, <2>2 DEF BusInv, BusCounters
<1>7. Held'
  <2>1. ASSUME NEW q \in Publishers
        PROVE  /\ offer'[q].to \subseteq Subscribers
               /\ sent'[q] = 0 => offer'[q].to = {}
               /\ sent'[q] > 0 => \E m \in Names : offer'[q].event = <<q, sent'[q], m>>
               /\ \A s \in offer'[q].to : offer'[q].event[3] \in name[s]
    <3>1. CASE q = p
      BY <1>2, <1>3, <1>4, <1>5, <3>1 DEF e
    <3>2. CASE q # p
      BY <1>3, <3>2 DEF BusInv, Held
    <3> QED BY <3>1, <3>2
  <2> QED BY <1>1, <2>1 DEF Held
<1>8. Named' /\ Queued'
  BY <1>1 DEF BusInv, Named, Queued
<1>9. \A s \in Subscribers : Delivered(s)' = Delivered(s)
  BY <1>1 DEF Delivered
<1>10. ASSUME NEW s \in Subscribers
       PROVE  InOrder(s, Delivered(s))' /\ Accounted(s, Delivered(s))'
  <2> DEFINE d == Delivered(s)
  <2>1. \A i \in DOMAIN d : d[i][1] \in Publishers /\ d[i][2] \in Nat
    BY DeliveredShape, EventShape DEF BusInv
  <2>2. InOrder(s, d) /\ Accounted(s, d)
    BY DEF BusInv
  <2> HIDE DEF d
  <2>3. \A i \in DOMAIN d : d[i][2] <= sent'[d[i][1]]
                            /\ (s \in offer'[d[i][1]].to => d[i][2] < sent'[d[i][1]])
    <3>1. ASSUME NEW i \in DOMAIN d, d[i][1] = p PROVE d[i][2] < sent'[p]
      BY <1>2, <1>3, <2>1, <2>2, <3>1 DEF InOrder
    <3>2. ASSUME NEW i \in DOMAIN d, d[i][1] # p
          PROVE  /\ d[i][2] <= sent'[d[i][1]]
                 /\ s \in offer'[d[i][1]].to => d[i][2] < sent'[d[i][1]]
      BY <1>3, <2>1, <2>2, <3>2 DEF InOrder
    <3> QED BY <1>2, <1>3, <2>1, <3>1, <3>2
  <2>4. InOrder(s, d)'
    BY <1>1, <1>9, <2>2, <2>3 DEF InOrder, d
  <2>5. Accounted(s, d)'
    BY <1>1, <1>3, <1>4, <1>5, <1>9, <2>2 DEF Accounted, d
  <2> QED BY <1>9, <2>4, <2>5 DEF d
<1> QED
  BY <1>6, <1>7, <1>8, <1>10 DEF BusInv

LEMMA DeliversSafe ==
  ASSUME BusInv, NEW p \in Publishers, NEW s \in Subscribers, Delivers(p, s)
  PROVE  BusInv'
<1> DEFINE e == offer[p].event
<1>1. /\ UNCHANGED <<name, loop, onMessage, sent, since, full>>
      /\ s \in offer[p].to /\ Len(channel[s]) < BufferSize
      /\ offer' = [offer EXCEPT ![p].to = @ \ {s}]
      /\ channel' = [channel EXCEPT ![s] = Append(@, e)]
  BY DEF Delivers, busUnchanged
<1>2. /\ sent[p] \in 1..MaxEvents /\ e \in Events /\ e[1] = p /\ e[2] = sent[p]
      /\ e[3] \in name[s]
  <2>1. sent[p] > 0 /\ sent[p] \in 0..MaxEvents
    BY <1>1 DEF BusInv, BusCounters, Held
  <2>2. PICK n \in Names : e = <<p, sent[p], n>>
    BY <2>1 DEF BusInv, Held
  <2> QED BY <1>1, <2>1, <2>2, BusAssumption DEF BusInv, Held, Events
<1>3. /\ offer'[p].to = offer[p].to \ {s} /\ offer'[p].event = e
      /\ \A q \in Publishers \ {p} : offer'[q] = offer[q]
      /\ channel'[s] = Append(channel[s], e)
      /\ \A r \in Subscribers \ {s} : channel'[r] = channel[r]
  BY <1>1 DEF BusInv, BusCounters, Queued
<1> HIDE DEF e
<1>4. BusCounters'
  <2>1. offer' \in [Publishers -> [event : {<<>>} \cup Events, to : SUBSET Subscribers]]
    BY <1>1 DEF BusInv, BusCounters
  <2> QED BY <1>1, <2>1 DEF BusInv, BusCounters
<1>5. Held' /\ Named'
  <2>1. \A q \in Publishers : offer'[q].to \subseteq offer[q].to /\ offer'[q].event = offer[q].event
    BY <1>3 DEF e
  <2> QED BY <1>1, <2>1 DEF BusInv, Held, Named
<1>6. Queued'
  <2>1. channel' \in [Subscribers -> Seq(Events)]
    BY <1>1, <1>2 DEF BusInv, Queued
  <2>2. Len(channel'[s]) = Len(channel[s]) + 1 /\ Len(channel[s]) \in Nat
    BY <1>2, <1>3 DEF BusInv, Queued
  <2> QED BY <1>1, <1>3, <2>1, <2>2, BusAssumption DEF BusInv, Queued
<1>7. /\ Delivered(s)' = Append(Delivered(s), e)
      /\ \A r \in Subscribers \ {s} : Delivered(r)' = Delivered(r)
  <2>1. onMessage[s] \in Seq(Events) /\ channel[s] \in Seq(Events)
    BY DEF BusInv, Queued
  <2>2. onMessage[s] \o Append(channel[s], e) = Append(onMessage[s] \o channel[s], e)
    <3>1. e \in Events
      BY <1>2
    <3>2. \A a, b \in Seq(Events), v \in Events : a \o Append(b, v) = Append(a \o b, v)
      BY AppendToLast
    <3> QED BY <2>1, <3>1, <3>2
  <2> QED BY <1>1, <1>3, <2>2 DEF Delivered
<1>8. ASSUME NEW r \in Subscribers, r # s
      PROVE  InOrder(r, Delivered(r))' /\ Accounted(r, Delivered(r))'
  <2>1. \A q \in Publishers : /\ offer'[q].event = offer[q].event
                              /\ r \in offer'[q].to <=> r \in offer[q].to
    BY <1>3, <1>8 DEF e
  <2> DEFINE d == Delivered(r)
  <2>2. \A i \in DOMAIN d : d[i][1] \in Publishers
    BY DeliveredShape, EventShape DEF BusInv
  <2>3. InOrder(r, d) /\ Accounted(r, d) /\ d' = d
    BY <1>7, <1>8 DEF BusInv
  <2> HIDE DEF d
  <2>4. InOrder(r, d)' /\ Accounted(r, d)'
    BY <1>1, <2>1, <2>2, <2>3 DEF InOrder, Accounted
  <2> QED BY <2>4 DEF d
<1>9. InOrder(s, Delivered(s))' /\ Accounted(s, Delivered(s))'
  <2> DEFINE d == Delivered(s)
             n == Len(d)
  <2>1. /\ d \in Seq(Events) /\ n \in Nat /\ DOMAIN d = 1..n
        /\ \A i \in DOMAIN d : d[i][1] \in Publishers /\ d[i][2] \in Nat
    BY DeliveredShape, EventShape DEF BusInv
  <2>2. InOrder(s, d) /\ Accounted(s, d) /\ d' = Append(d, e)
    BY <1>7 DEF BusInv
  <2>3. /\ DOMAIN d' = 1..(n + 1) /\ d'[n + 1] = e
        /\ \A i \in 1..n : d'[i] = d[i]
    BY <1>2, <2>1, <2>2
  <2> HIDE DEF d, n
  <2>4. \A i \in 1..n : d[i][1] = p => d[i][2] < sent[p]
    BY <1>1, <2>1, <2>2 DEF InOrder
  <2>5. InOrder(s, d)'
    <3>1. ASSUME NEW i \in DOMAIN d'
          PROVE  /\ d'[i][3] \in name[s]
                 /\ d'[i][2] <= sent[d'[i][1]]
                 /\ s \in offer'[d'[i][1]].to => d'[i][2] < sent[d'[i][1]]
      <4>1. CASE i = n + 1
        BY <1>2, <1>3, <2>3, <4>1
      <4>2. CASE i # n + 1
        <5>1. i \in 1..n /\ d'[i] = d[i] /\ i \in DOMAIN d
          BY <2>1, <2>3, <3>1, <4>2
        <5>2. s \in offer'[d[i][1]].to => s \in offer[d[i][1]].to
          BY <1>3, <2>1, <5>1
        <5> QED BY <2>2, <5>1, <5>2 DEF InOrder
      <4> QED BY <4>1, <4>2
    <3>2. ASSUME NEW i \in DOMAIN d', NEW j \in DOMAIN d', i < j, d'[i][1] = d'[j][1]
          PROVE  d'[i][2] < d'[j][2]
      <4>1. i \in 1..n /\ d'[i] = d[i]
        BY <2>1, <2>3, <3>2
      <4>2. CASE j = n + 1
        BY <1>2, <2>3, <2>4, <3>2, <4>1, <4>2
      <4>3. CASE j # n + 1
        BY <2>1, <2>2, <2>3, <3>2, <4>1, <4>3 DEF InOrder
      <4> QED BY <4>2, <4>3
    <3> QED BY <1>1, <3>1, <3>2 DEF InOrder
  <2>6. Accounted(s, d)'
    <3>1. ASSUME NEW q \in Publishers, sent[q] > since[s][q], offer'[q].event[3] \in name[s],
                 s \notin offer'[q].to
          PROVE  \/ <<s, offer'[q].event>> \in full
                 \/ \E i \in DOMAIN d' : d'[i] = offer'[q].event
      <4>1. CASE q = p
        <5>1. n + 1 \in DOMAIN d' /\ d'[n + 1] = offer'[q].event
          BY <1>3, <2>1, <2>3, <4>1
        <5> QED BY <5>1
      <4>2. CASE q # p
        <5>1. offer'[q] = offer[q]
          BY <1>3, <4>2
        <5>2. <<s, offer[q].event>> \in full \/ \E i \in DOMAIN d : d[i] = offer[q].event
          BY <2>2, <3>1, <5>1 DEF Accounted
        <5>3. \A i \in DOMAIN d : i \in DOMAIN d' /\ d'[i] = d[i]
          BY <2>1, <2>3
        <5> QED BY <5>1, <5>2, <5>3
      <4> QED BY <4>1, <4>2
    <3> QED BY <1>1, <3>1 DEF Accounted
  <2> QED BY <2>5, <2>6 DEF d
<1> QED
  BY <1>4, <1>5, <1>6, <1>8, <1>9 DEF BusInv

LEMMA MissesSafe ==
  ASSUME BusInv, NEW p \in Publishers, NEW s \in Subscribers, Misses(p, s, offer[p].to \ {s})
  PROVE  BusInv'
<1> DEFINE e == offer[p].event
<1>1. /\ UNCHANGED <<name, loop, channel, onMessage, sent, since>>
      /\ s \in offer[p].to /\ full' = full \cup {<<s, e>>}
      /\ offer' = [offer EXCEPT ![p].to = offer[p].to \ {s}]
  BY DEF Misses, busUnchanged
<1>2. e \in Events
  BY <1>1, BusAssumption DEF BusInv, BusCounters, Held, Events
<1>3. /\ \A q \in Publishers : offer'[q].to \subseteq offer[q].to /\ offer'[q].event = offer[q].event
      /\ \A q \in Publishers, r \in Subscribers :
            r \in offer[q].to => r \in offer'[q].to \/ <<r, offer[q].event>> \in full'
  BY <1>1 DEF BusInv, BusCounters
<1> HIDE DEF e
<1>4. BusCounters'
  <2>1. offer' \in [Publishers -> [event : {<<>>} \cup Events, to : SUBSET Subscribers]]
    BY <1>1 DEF BusInv, BusCounters
  <2> QED BY <1>1, <1>2, <2>1 DEF BusInv, BusCounters
<1>5. Held' /\ Named' /\ Queued'
  BY <1>1, <1>3 DEF BusInv, Held, Named, Queued
<1>6. ASSUME NEW r \in Subscribers
      PROVE  InOrder(r, Delivered(r))' /\ Accounted(r, Delivered(r))'
  <2> DEFINE d == Delivered(r)
  <2>1. \A i \in DOMAIN d : d[i][1] \in Publishers
    BY DeliveredShape, EventShape DEF BusInv
  <2>2. InOrder(r, d) /\ Accounted(r, d) /\ d' = d
    BY <1>1 DEF BusInv, Delivered
  <2> HIDE DEF d
  <2>3. InOrder(r, d)'
    BY <1>1, <1>3, <2>1, <2>2 DEF InOrder
  <2>4. Accounted(r, d)'
    BY <1>1, <1>3, <2>2 DEF Accounted
  <2> QED BY <2>3, <2>4 DEF d
<1> QED
  BY <1>4, <1>5, <1>6 DEF BusInv

\* The goroutine of a subscriber moves the events, and keeps their order.
LEMMA ReceiveSafe ==
  ASSUME BusInv, NEW s \in Subscribers, Receive(s)
  PROVE  BusInv'
<1>1. /\ UNCHANGED <<name, loop, offer, sent, since, full>> /\ channel[s] # <<>>
      /\ onMessage' = [onMessage EXCEPT ![s] = Append(@, Head(channel[s]))]
      /\ channel' = [channel EXCEPT ![s] = Tail(@)]
  BY DEF Receive
<1>2. /\ onMessage[s] \in Seq(Events) /\ channel[s] \in Seq(Events)
      /\ Head(channel[s]) \in Events /\ Tail(channel[s]) \in Seq(Events)
      /\ Len(Tail(channel[s])) <= Len(channel[s])
  BY <1>1 DEF BusInv, Queued
<1>3. Queued'
  <2>1. /\ channel' \in [Subscribers -> Seq(Events)]
        /\ onMessage' \in [Subscribers -> Seq(Events)]
    BY <1>1, <1>2 DEF BusInv, Queued
  <2>2. \A r \in Subscribers : Len(channel'[r]) <= BufferSize
    <3>1. Len(channel'[s]) <= BufferSize
      BY <1>1, <1>2, BusAssumption DEF BusInv, Queued
    <3> QED BY <1>1, <3>1 DEF BusInv, Queued
  <2> QED BY <2>1, <2>2 DEF Queued
<1>4. \A r \in Subscribers : Delivered(r)' = Delivered(r)
  <2>1. Append(onMessage[s], Head(channel[s])) \o Tail(channel[s]) = onMessage[s] \o channel[s]
    BY <1>1, <1>2, HeadMoved
  <2> QED BY <1>1, <1>2, <2>1 DEF Delivered, BusInv, Queued
<1>5. BusCounters' /\ Held' /\ Named'
  BY <1>1 DEF BusInv, BusCounters, Held, Named
<1>6. \A r \in Subscribers : InOrder(r, Delivered(r))' /\ Accounted(r, Delivered(r))'
  BY <1>1, <1>4 DEF BusInv, InOrder, Accounted
<1> QED
  BY <1>3, <1>5, <1>6 DEF BusInv

LEMMA BusStep ==
  ASSUME BusInv, [BusNext]_busVars
  PROVE  BusInv'
<1>1. CASE UNCHANGED busVars
  <2>1. UNCHANGED <<name, loop, channel, onMessage, offer, sent, since, full>>
    BY <1>1 DEF busVars
  <2>2. \A r \in Subscribers : Delivered(r)' = Delivered(r)
    BY <2>1 DEF Delivered
  <2>3. \A r \in Subscribers : InOrder(r, Delivered(r))' /\ Accounted(r, Delivered(r))'
    BY <2>1, <2>2 DEF BusInv, InOrder, Accounted
  <2>4. BusCounters' /\ Held' /\ Named' /\ Queued'
    BY <2>1 DEF BusInv, BusCounters, Held, Named, Queued
  <2> QED BY <2>3, <2>4 DEF BusInv
<1>2. ASSUME NEW s \in Subscribers, SubscriberEnds(s)
      PROVE  BusInv'
  <2>1. /\ UNCHANGED <<name, channel, onMessage, offer, sent, since, full>>
        /\ loop[s] = "on" /\ loop' = [loop EXCEPT ![s] = "ended"]
    BY <1>2 DEF SubscriberEnds
  <2>2. BusCounters' /\ Named'
    BY <2>1 DEF BusInv, BusCounters, Named
  <2>3. Held' /\ Queued'
    BY <2>1 DEF BusInv, Held, Queued
  <2>4. \A r \in Subscribers : Delivered(r)' = Delivered(r)
    BY <2>1 DEF Delivered
  <2>5. \A r \in Subscribers : InOrder(r, Delivered(r))' /\ Accounted(r, Delivered(r))'
    BY <2>1, <2>4 DEF BusInv, InOrder, Accounted
  <2> QED BY <2>2, <2>3, <2>5 DEF BusInv
<1> QED
  BY <1>1, <1>2, SubscribeSafe, PublishSafe, DeliversSafe, MissesSafe, ReceiveSafe DEF BusNext, Offer

LEMMA BusTypes ==
  ASSUME BusInv
  PROVE  BusTypeOK
<1>1. ASSUME NEW s \in Subscribers PROVE name[s] \in SUBSET Names /\ Cardinality(name[s]) <= 1
  <2>1. \A n : Cardinality({n}) = 1
    BY FS_Singleton
  <2>2. Cardinality({}) = 0
    BY FS_EmptySet
  <2>3. name[s] = {} \/ \E n \in Names : name[s] = {n}
    BY DEF BusInv, Named
  <2> QED BY <2>1, <2>2, <2>3
<1> QED
  BY <1>1 DEF BusInv, BusCounters, Queued, BusTypeOK

LEMMA BusDelivered ==
  ASSUME BusInv
  PROVE  BusDelivers
<1> SUFFICES ASSUME NEW s \in Subscribers
             PROVE  /\ \A i, j \in DOMAIN Delivered(s) :
                          i < j => LET d == Delivered(s)[i]
                                       e == Delivered(s)[j]
                                   IN d[1] = e[1] => d[2] < e[2]
                    /\ \A i \in DOMAIN Delivered(s) : Delivered(s)[i][3] \in name[s]
                    /\ \A p \in Publishers, k \in 1..MaxEvents :
                          LET e == offer[p].event
                          IN (/\ k = sent[p] /\ k > since[s][p] /\ e[3] \in name[s]
                              /\ s \notin offer[p].to)
                             => \/ <<s, e>> \in full
                                \/ \E i \in DOMAIN Delivered(s) : Delivered(s)[i] = e
  BY DEF BusDelivers
<1> QED
  BY DEF BusInv, InOrder, Accounted
-----------------------------------------------------------------------------
(* The search for the miners of an allocation.                              *)

SearchNext == Select \/ Selected \/ Improve \/ EndTrial

\* What a trial and the best mask so far have reached.
Offered == DOMAIN arr
Reached(mask) == delta(mask, arr, sum) <= 0 \/ mask = Offered
SearchArgs == /\ \E n \in Sizes : arr \in [1..n -> Rates]
              /\ sum \in Targets
Trial == /\ phase = "select" => Reached(x) \/ x = Offered \ todo
         /\ phase = "improve" => Reached(x) /\ todo \subseteq x
         /\ IF phase = "done" THEN trials > 0 ELSE trials < Trials
         /\ trials > 0 => Reached(best)
SearchInv == SearchTypeOK /\ SearchArgs /\ Trial

LEMMA OfferedShape ==
  ASSUME SearchArgs
  PROVE  /\ IsFiniteSet(Offered) /\ \A i \in Offered : arr[i] \in Nat
         /\ \E n \in Sizes : Offered = 1..n
         /\ sum \in Int
<1>1. PICK n \in Sizes : arr \in [1..n -> Rates]
  BY DEF SearchArgs
<1>2. Offered = 1..n /\ n \in Nat
  BY <1>1, RatesAssumption DEF Offered
<1>3. IsFiniteSet(1..n)
  BY <1>2, FS_Interval
<1> QED
  BY <1>1, <1>2, <1>3, RatesAssumption DEF SearchArgs

LEMMA DeltaType ==
  ASSUME SearchArgs, NEW S \in SUBSET Offered
  PROVE  delta(S, arr, sum) \in Int /\ IsFiniteSet(S)
<1>1. IsFiniteSet(S) /\ (\A i \in S : arr[i] \in Int) /\ sum \in Int
  BY OfferedShape, FS_Subset
<1>2. SumFunctionOnSet(arr, S) \in Int
  BY <1>1, SumType
<1> QED
  BY <1>1, <1>2 DEF delta

\* The arithmetic of the second phase: one miner leaves, another comes.
LEMMA DeltaMoves ==
  ASSUME SearchArgs, NEW S \in SUBSET Offered, NEW i \in S, NEW j \in Offered \ S
  PROVE  delta((S \ {i}) \cup {j}, arr, sum) = delta(S, arr, sum) + arr[i] - arr[j]
<1> DEFINE T == S \ {i}
<1>1. IsFiniteSet(Offered) /\ (\A k \in Offered : arr[k] \in Int) /\ sum \in Int
  BY OfferedShape
<1>2. T \in SUBSET Offered /\ i \in Offered \ T /\ j \in Offered \ T /\ T \cup {i} = S
  OBVIOUS
<1>3. SumFunctionOnSet(arr, T) \in Int
  BY <1>1, <1>2, SumType, FS_Subset
<1> HIDE DEF T
<1>4. /\ SumFunctionOnSet(arr, S) = arr[i] + SumFunctionOnSet(arr, T)
      /\ SumFunctionOnSet(arr, T \cup {j}) = arr[j] + SumFunctionOnSet(arr, T)
  BY <1>1, <1>2, SumAdd
<1>5. arr[i] \in Int /\ arr[j] \in Int
  BY <1>1, <1>2
<1>6. delta(T \cup {j}, arr, sum) = delta(S, arr, sum) + arr[i] - arr[j]
  BY <1>1, <1>3, <1>4, <1>5 DEF delta
<1> QED
  BY <1>6 DEF T

\* A replacement keeps the target reached, for it is taken only if it adds hashrate then;
\* and there is none when all miners are selected.
LEMMA ReplaceKeeps ==
  ASSUME SearchArgs, NEW S \in SUBSET Offered, NEW i \in S
  PROVE  /\ Replace(S, i, arr, sum) \in SUBSET Offered
         /\ S \ {i} \subseteq Replace(S, i, arr, sum)
         /\ delta(S, arr, sum) <= 0 => delta(Replace(S, i, arr, sum), arr, sum) <= 0
         /\ S = Offered => Replace(S, i, arr, sum) = Offered
<1> DEFINE C == Candidates(S, i, arr, sum)
           j == Max(C)
           D == delta(S, arr, sum)
<1>1. C \subseteq Offered \ S /\ D \in Int
  BY DeltaType DEF Candidates, Offered
<1>2. CASE C = {}
  <2>1. Replace(S, i, arr, sum) = S
    BY <1>2 DEF Replace
  <2> QED BY <2>1
<1>3. CASE C # {}
  <2>1. j \in C
    <3>1. PICK n \in Sizes : Offered = 1..n
      BY OfferedShape
    <3>2. n \in Nat /\ C \in SUBSET (1..n)
      BY <1>1, <3>1, RatesAssumption
    <3> HIDE DEF C
    <3> QED BY <1>3, <3>2, MaxOfSome
  <2>2. Replace(S, i, arr, sum) = (S \ {i}) \cup {j}
    BY <1>3 DEF Replace
  <2>3. j \in Offered \ S /\ absInt(arr[j] - arr[i] + D) < absInt(D)
    BY <2>1, <1>1 DEF Candidates
  <2> HIDE DEF C, j, D
  <2>4. arr[i] \in Int /\ arr[j] \in Int
    BY <2>3, OfferedShape
  <2>5. delta((S \ {i}) \cup {j}, arr, sum) = D + arr[i] - arr[j]
    BY <2>3, DeltaMoves DEF D
  <2>6. D <= 0 => D + arr[i] - arr[j] <= 0
    BY <1>1, <2>3, <2>4 DEF absInt
  <2>7. S # Offered
    BY <2>3
  <2> QED BY <2>2, <2>3, <2>5, <2>6, <2>7 DEF D
<1> QED
  BY <1>2, <1>3

\* A miner picked while the target is not reached.
LEMMA PickKeeps ==
  ASSUME SearchArgs, NEW S \in SUBSET Offered, NEW v \in Offered, Reached(S)
  PROVE  Reached(Pick(S, v, arr, sum))
<1>1. CASE S = Offered
  BY <1>1 DEF Pick, Reached
<1>2. CASE delta(S, arr, sum) <= 0
  <2>1. ~(delta(S, arr, sum) > 0)
    BY <1>2, DeltaType
  <2> QED BY <1>2, <2>1 DEF Pick, Reached
<1> QED
  BY <1>1, <1>2 DEF Reached

LEMMA InitSearch == SearchInit => SearchInv
<1> SUFFICES ASSUME SearchInit PROVE SearchInv
  OBVIOUS
<1>1. PICK n \in Sizes : arr \in [1..n -> Rates]
  BY DEF SearchInit
<1>2. SearchTypeOK
  BY <1>1, TrialsAssumption DEF SearchInit, SearchTypeOK
<1>3. Trial
  BY TrialsAssumption DEF SearchInit, Trial, Offered
<1> QED
  BY <1>1, <1>2, <1>3 DEF SearchInit, SearchInv, SearchArgs

LEMMA SelectSafe ==
  ASSUME SearchInv, Select
  PROVE  SearchInv'
<1>1. /\ UNCHANGED <<arr, sum, phase, trials, best>> /\ phase = "select"
      /\ x \in SUBSET Offered /\ todo \in SUBSET Offered
  BY DEF Select, args, SearchInv, SearchTypeOK, Offered
<1>2. PICK v \in todo : x' = Pick(x, v, arr, sum) /\ todo' = todo \ {v}
  BY DEF Select
<1>3. SearchArgs /\ Trial /\ v \in Offered
  BY <1>1, <1>2 DEF SearchInv
<1>4. x' \in SUBSET Offered /\ SearchTypeOK'
  BY <1>1, <1>2, <1>3 DEF SearchInv, SearchTypeOK, Pick, Offered
<1>5. Reached(x') \/ x' = Offered \ todo'
  <2>1. CASE Reached(x)
    BY <1>1, <1>2, <1>3, <2>1, PickKeeps
  <2>2. CASE ~Reached(x)
    <3>1. x = Offered \ todo
      BY <1>1, <1>3, <2>2 DEF Trial
    <3>2. x' = x \cup {v}
      BY <1>1, <1>2, <1>3, <2>2, DeltaType DEF Reached, Pick
    <3> QED BY <1>1, <1>2, <1>3, <3>1, <3>2
  <2> QED BY <2>1, <2>2
<1>6. Reached(x)' <=> Reached(x')
  BY <1>1 DEF Reached, Offered
<1>7. Trial'
  BY <1>1, <1>3, <1>5, <1>6 DEF Trial, Reached, Offered
<1> QED
  BY <1>1, <1>3, <1>4, <1>7 DEF SearchInv, SearchArgs

LEMMA SelectedSafe ==
  ASSUME SearchInv, Selected
  PROVE  SearchInv'
<1>1. UNCHANGED <<arr, sum, x, trials, best>> /\ phase = "select" /\ phase' = "improve"
      /\ todo = {} /\ todo' = x
  BY DEF Selected, args
<1>2. SearchTypeOK' /\ SearchArgs'
  BY <1>1 DEF SearchInv, SearchTypeOK, SearchArgs
<1>3. Reached(x) /\ (trials > 0 => Reached(best)) /\ trials < Trials
  BY <1>1 DEF SearchInv, Trial, Reached
<1>4. Trial'
  BY <1>1, <1>3 DEF Trial, Reached, Offered
<1> QED
  BY <1>2, <1>4 DEF SearchInv

LEMMA ImproveSafe ==
  ASSUME SearchInv, Improve
  PROVE  SearchInv'
<1>1. /\ UNCHANGED <<arr, sum, phase, trials, best>> /\ phase = "improve"
      /\ x \in SUBSET Offered /\ todo \in SUBSET Offered /\ todo \subseteq x
  BY DEF Improve, args, SearchInv, SearchTypeOK, Trial, Offered
<1>2. PICK i \in todo : x' = Replace(x, i, arr, sum) /\ todo' = todo \ {i}
  BY DEF Improve
<1>3. SearchArgs /\ Trial /\ i \in x
  BY <1>1, <1>2 DEF SearchInv
<1>4. /\ x' \in SUBSET Offered /\ x \ {i} \subseteq x'
      /\ delta(x, arr, sum) <= 0 => delta(x', arr, sum) <= 0
      /\ x = Offered => x' = Offered
  BY <1>1, <1>2, <1>3, ReplaceKeeps
<1>5. SearchTypeOK'
  BY <1>1, <1>2, <1>4 DEF SearchInv, SearchTypeOK, Offered
<1>6. Reached(x) /\ (trials > 0 => Reached(best)) /\ trials < Trials
  BY <1>1, <1>3 DEF Trial
<1>7. Trial'
  BY <1>1, <1>2, <1>4, <1>6 DEF Trial, Reached, Offered
<1> QED
  BY <1>1, <1>3, <1>5, <1>7 DEF SearchInv, SearchArgs

LEMMA EndTrialSafe ==
  ASSUME SearchInv, EndTrial
  PROVE  SearchInv'
<1>1. /\ UNCHANGED <<arr, sum>> /\ phase = "improve" /\ trials' = trials + 1
      /\ best' = IF Better(x) THEN x ELSE best
      /\ x' = {} /\ phase' \in {"select", "done"}
      /\ phase' = "done" => todo' = {}
      /\ phase' = "select" => todo' = Offered /\ trials' # Trials
  BY DEF EndTrial, args, Over, Offered
<1>2. /\ trials \in Nat /\ trials < Trials /\ trials' \in 0..Trials /\ trials' > 0
      /\ phase' = "select" => trials' < Trials
  <2>1. trials \in 0..Trials /\ trials < Trials
    BY <1>1 DEF SearchInv, SearchTypeOK, Trial
  <2> QED BY <1>1, <2>1, TrialsAssumption
<1>3. x \in SUBSET Offered /\ best \in SUBSET Offered /\ SearchArgs
  BY DEF SearchInv, SearchTypeOK, Offered
<1>4. Reached(x) /\ (trials > 0 => Reached(best))
  BY <1>1 DEF SearchInv, Trial
<1>5. best' \in SUBSET Offered /\ Reached(best')
  <2>1. CASE Better(x)
    BY <1>1, <1>3, <1>4, <2>1
  <2>2. CASE ~Better(x)
    <3>1. trials # 0
      BY <2>2 DEF Better
    <3> QED BY <1>1, <1>2, <1>3, <1>4, <2>2, <3>1
  <2> QED BY <2>1, <2>2
<1>6. SearchTypeOK' /\ SearchArgs'
  <2>1. UNCHANGED Offered /\ todo' \in SUBSET Offered /\ x' \in SUBSET Offered
    BY <1>1 DEF Offered
  <2>2. SearchTypeOK'
    BY <1>1, <1>2, <1>5, <2>1 DEF SearchInv, SearchTypeOK, Offered
  <2> QED BY <1>1, <1>3, <2>2 DEF SearchArgs
<1>7. Trial'
  <2>1. UNCHANGED Offered /\ (Reached(best)' <=> Reached(best'))
    BY <1>1 DEF Offered, Reached
  <2>2. phase' = "select" => x' = Offered \ todo'
    BY <1>1
  <2> QED BY <1>1, <1>2, <1>5, <2>1, <2>2 DEF Trial
<1> QED
  BY <1>6, <1>7 DEF SearchInv

LEMMA SearchStep ==
  ASSUME SearchInv, [SearchNext]_searchVars
  PROVE  SearchInv'
<1>1. CASE UNCHANGED searchVars
  BY <1>1 DEF searchVars, SearchInv, SearchTypeOK, SearchArgs, Trial, Reached, Offered
<1> QED
  BY <1>1, SelectSafe, SelectedSafe, ImproveSafe, EndTrialSafe DEF SearchNext

LEMMA TargetReached ==
  ASSUME SearchInv
  PROVE  ReachesTarget
<1> SUFFICES ASSUME phase = "done"
             PROVE  IF Enough THEN delta(best, arr, sum) <= 0 ELSE best = Offered
  BY DEF ReachesTarget, Offered
<1>1. Reached(best) /\ best \in SUBSET Offered /\ SearchArgs
  BY DEF SearchInv, SearchTypeOK, Trial, Offered
<1>2. /\ IsFiniteSet(Offered) /\ (\A i \in Offered : arr[i] \in Nat /\ arr[i] \in Int) /\ sum \in Int
  BY <1>1, OfferedShape
<1> DEFINE all == SumFunctionOnSet(arr, Offered)
           taken == SumFunctionOnSet(arr, best)
<1>3. taken <= all /\ taken \in Int /\ all \in Int
  BY <1>1, <1>2, SumMono, SumType, FS_Subset
<1>4. Enough <=> all >= sum
  BY DEF Enough, SumFunction, Offered
<1>5. delta(best, arr, sum) = sum - taken /\ delta(Offered, arr, sum) = sum - all
  BY DEF delta
<1> HIDE DEF all, taken
<1>6. CASE Enough
  BY <1>1, <1>2, <1>3, <1>4, <1>5, <1>6 DEF Reached
<1>7. CASE ~Enough
  BY <1>1, <1>2, <1>3, <1>4, <1>5, <1>7 DEF Reached
<1> QED
  BY <1>6, <1>7

\* The best mask is given up only for a better one.
LEMMA BestKept ==
  ASSUME SearchInv, [SearchNext]_searchVars
  PROVE  trials > 0 => absInt(delta(best', arr, sum)) <= absInt(delta(best, arr, sum))
<1>1. SearchArgs /\ x \in SUBSET Offered /\ best \in SUBSET Offered /\ trials \in Nat
  BY TrialsAssumption DEF SearchInv, SearchTypeOK, Offered
<1> DEFINE D == delta(best, arr, sum)
           E == delta(x, arr, sum)
<1>2. D \in Int /\ E \in Int
  BY <1>1, DeltaType
<1>3. best' = best \/ best' = IF Better(x) THEN x ELSE best
  BY DEF SearchNext, searchVars, Select, Selected, Improve, EndTrial
<1>4. trials > 0 /\ Better(x) => absInt(E) < absInt(D)
  BY <1>1 DEF Better
<1> HIDE DEF D, E
<1>5. absInt(D) <= absInt(D) /\ (absInt(E) < absInt(D) => absInt(E) <= absInt(D))
  BY <1>2 DEF absInt
<1> QED
  BY <1>3, <1>4, <1>5 DEF D, E

LEMMA TargetKept ==
  ASSUME SearchInv, [SearchNext]_searchVars
  PROVE  phase = "improve" /\ phase' = "improve" /\ delta(x, arr, sum) <= 0
            => delta(x', arr, sum) <= 0
<1> SUFFICES ASSUME phase = "improve", phase' = "improve", delta(x, arr, sum) <= 0
             PROVE  delta(x', arr, sum) <= 0
  OBVIOUS
<1>1. SearchArgs /\ x \in SUBSET Offered /\ todo \subseteq x
  BY DEF SearchInv, SearchTypeOK, Trial, Offered
<1>2. x' = x \/ \E i \in todo : x' = Replace(x, i, arr, sum)
  BY DEF SearchNext, searchVars, Select, Selected, Improve, EndTrial
<1> QED
  BY <1>1, <1>2, ReplaceKeeps
-----------------------------------------------------------------------------
(* The search returns what a trial may return.                              *)

\* What a trial has gone over so far: the order, and the masks it went through.
Trace(step, base, ord, tr, n) ==
    /\ n \in Nat /\ ord \in [1..n -> Offered] /\ \A i, j \in 1..n : i # j => ord[i] # ord[j]
    /\ tr \in [0..n -> SUBSET Offered] /\ tr[0] = base
    /\ \A k \in 1..n : tr[k] = step[<<tr[k - 1], ord[k]>>]
Gone(ord, n) == {ord[k] : k \in 1..n}
Picks == [q \in (SUBSET Offered) \X Offered |-> Pick(q[1], q[2], arr, sum)]
Replaces == [q \in (SUBSET Offered) \X Offered |-> Replace(q[1], q[2], arr, sum)]

\* The trial's mask, and the best one, are of those the folds reach.
Traced ==
    /\ phase = "select" =>
         \E n, ord, tr : /\ Trace(Picks, {}, ord, tr, n)
                         /\ todo = Offered \ Gone(ord, n) /\ x = tr[n]
    /\ phase = "improve" =>
         \E x0 \in Selections(arr, sum) :
            /\ x0 \subseteq Offered
            /\ \E n, ord, tr : /\ Trace(Replaces, x0, ord, tr, n) /\ Gone(ord, n) \subseteq x0
                               /\ todo = x0 \ Gone(ord, n) /\ x = tr[n]
    /\ trials > 0 => best \in Outcomes(arr, sum)

LEMMA TraceStarts ==
  ASSUME NEW step, NEW base \in SUBSET Offered
  PROVE  \E n, ord, tr : Trace(step, base, ord, tr, n) /\ Gone(ord, n) = {} /\ tr[n] = base
<1> DEFINE n == 0
           ord == [k \in 1..n |-> base]
           tr == [k \in 0..n |-> base]
<1>1. 1..n = {}
  OBVIOUS
<1>2. Gone(ord, n) = {} /\ ord \in [1..n -> Offered]
  BY <1>1 DEF Gone
<1>3. tr \in [0..n -> SUBSET Offered] /\ tr[n] = base /\ tr[0] = base
  OBVIOUS
<1>4. Trace(step, base, ord, tr, n)
  BY <1>1, <1>2, <1>3 DEF Trace
<1> QED
  BY <1>2, <1>3, <1>4

LEMMA NothingTraced ==
  \E n, ord, tr : Trace(Picks, {}, ord, tr, n) /\ Gone(ord, n) = {} /\ tr[n] = {}
<1> PICK none \in SUBSET Offered : none = {}
  OBVIOUS
<1>1. \E n, ord, tr : Trace(Picks, none, ord, tr, n) /\ Gone(ord, n) = {} /\ tr[n] = none
  BY TraceStarts
<1> QED
  BY <1>1

LEMMA TraceGrows ==
  ASSUME NEW step, NEW base, NEW ord, NEW tr, NEW n, Trace(step, base, ord, tr, n),
         NEW v \in Offered, v \notin Gone(ord, n), step[<<tr[n], v>>] \in SUBSET Offered
  PROVE  \E m, o, t : /\ Trace(step, base, o, t, m) /\ Gone(o, m) = Gone(ord, n) \cup {v}
                      /\ t[m] = step[<<tr[n], v>>]
<1> DEFINE m == n + 1
           w == step[<<tr[n], v>>]
           o == [k \in 1..m |-> IF k = m THEN v ELSE ord[k]]
           t == [k \in 0..m |-> IF k = m THEN w ELSE tr[k]]
<1>1. /\ n \in Nat /\ ord \in [1..n -> Offered] /\ tr \in [0..n -> SUBSET Offered]
      /\ \A i, j \in 1..n : i # j => ord[i] # ord[j]
  BY DEF Trace
<1>2. m \in Nat /\ m \in 1..m /\ m \in 0..m /\ m # 0 /\ \A k \in 1..m : k # m => k \in 1..n
  BY <1>1
<1>3. \A k \in 1..n : k # m /\ k \in 1..m /\ k \in 0..m /\ k - 1 # m /\ k - 1 \in 0..n /\ k - 1 \in 0..m
  BY <1>1
<1>4. /\ o \in [1..m -> Offered] /\ o[m] = v /\ \A k \in 1..n : o[k] = ord[k]
  BY <1>1, <1>2, <1>3
<1>5. /\ t \in [0..m -> SUBSET Offered] /\ t[m] = w /\ t[0] = base /\ t[n] = tr[n]
      /\ \A k \in 1..n : t[k] = tr[k] /\ t[k - 1] = tr[k - 1]
  <2>1. \A k \in 0..m : k # m => k \in 0..n
    BY <1>1
  <2>2. n \in 0..m /\ n # m /\ 0 \in 0..m /\ tr[0] = base
    BY <1>1 DEF Trace
  <2> QED BY <1>1, <1>2, <1>3, <2>1, <2>2
<1>6. Gone(o, m) = Gone(ord, n) \cup {v}
  BY <1>2, <1>3, <1>4 DEF Gone
<1>7. \A i, j \in 1..m : i # j => o[i] # o[j]
  <2>1. \A k \in 1..n : ord[k] # v
    BY DEF Gone
  <2> QED BY <1>1, <1>2, <1>4, <2>1
<1>8. \A k \in 1..m : t[k] = step[<<t[k - 1], o[k]>>]
  <2>1. ASSUME NEW k \in 1..n PROVE t[k] = step[<<t[k - 1], o[k]>>]
    BY <1>4, <1>5 DEF Trace
  <2>2. t[m] = step[<<t[m - 1], o[m]>>]
    <3>1. m - 1 = n
      BY <1>1
    <3> QED BY <1>4, <1>5, <3>1
  <2> HIDE DEF m, o, t
  <2> QED BY <1>2, <2>1, <2>2
<1> HIDE DEF m, o, t, w
<1>9. Trace(step, base, o, t, m)
  BY <1>2, <1>4, <1>5, <1>7, <1>8 DEF Trace
<1> QED
  BY <1>5, <1>6, <1>9 DEF w

\* An order that has gone over all of a set is one of its shuffles.
LEMMA Shuffled ==
  ASSUME NEW step, NEW base, NEW ord, NEW tr, NEW n, Trace(step, base, ord, tr, n),
         NEW T, Gone(ord, n) = T
  PROVE  ord \in shuffle(T)
<1>1. /\ n \in Nat /\ ord \in [1..n -> Offered] /\ \A i, j \in 1..n : i # j => ord[i] # ord[j]
  BY DEF Trace
<1>2. ord \in [1..n -> T] /\ \A y \in T : \E k \in 1..n : ord[k] = y
  BY <1>1 DEF Gone
<1>3. ord \in Bijection(1..n, T)
  BY <1>1, <1>2 DEF Bijection, Injection, Surjection, IsInjective
<1>4. Cardinality(T) = n
  <2>1. IsFiniteSet(1..n) /\ Cardinality(1..n) = n
    BY <1>1, FS_Interval
  <2>2. ExistsBijection(1..n, T)
    BY <1>3 DEF ExistsBijection
  <2> QED BY <2>1, <2>2, FS_Bijection
<1> QED
  BY <1>1, <1>2, <1>4 DEF shuffle, SetToSeqs

LEMMA IsSelection ==
  ASSUME SearchArgs, NEW ord, NEW tr, NEW n, Trace(Picks, {}, ord, tr, n),
         Gone(ord, n) = Offered
  PROVE  tr[n] \in Selections(arr, sum)
<1>1. ord \in shuffle(DOMAIN arr)
  BY Shuffled DEF Offered
<1>2. \A k \in 1..n : tr[k] = Pick(tr[k - 1], ord[k], arr, sum)
  <2>1. ASSUME NEW k \in 1..n PROVE tr[k - 1] \in SUBSET Offered /\ ord[k] \in Offered
    <3>1. k - 1 \in 0..n
      BY DEF Trace
    <3> QED BY <3>1 DEF Trace
  <2>2. \A k \in 1..n : tr[k] = Picks[<<tr[k - 1], ord[k]>>]
    BY DEF Trace
  <2> QED BY <2>1, <2>2 DEF Picks
<1>3. PickFold(arr, sum, ord) = tr[n]
  <2>1. /\ n \in Nat /\ ord \in [1..n -> DOMAIN arr] /\ tr \in [0..n -> SUBSET DOMAIN arr]
        /\ tr[0] = {}
    BY DEF Trace, Offered
  <2> QED BY <1>2, <2>1, FoldPicks
<1> QED
  BY <1>1, <1>3, FoldedPicks

LEMMA IsOutcome ==
  ASSUME SearchArgs, NEW x0 \in Selections(arr, sum), x0 \subseteq Offered,
         NEW ord, NEW tr, NEW n, Trace(Replaces, x0, ord, tr, n), Gone(ord, n) = x0
  PROVE  tr[n] \in Outcomes(arr, sum)
<1>1. ord \in shuffle(x0)
  BY Shuffled
<1>2. \A k \in 1..n : tr[k] = Replace(tr[k - 1], ord[k], arr, sum)
  <2>1. ASSUME NEW k \in 1..n PROVE tr[k - 1] \in SUBSET Offered /\ ord[k] \in Offered
    <3>1. k - 1 \in 0..n
      BY DEF Trace
    <3> QED BY <3>1 DEF Trace
  <2>2. \A k \in 1..n : tr[k] = Replaces[<<tr[k - 1], ord[k]>>]
    BY DEF Trace
  <2> QED BY <2>1, <2>2 DEF Replaces
<1>3. ReplaceFold(arr, sum, x0, ord) = tr[n]
  <2>1. IsFiniteSet(DOMAIN arr) /\ DOMAIN arr \subseteq Nat
    BY OfferedShape, RatesAssumption DEF Offered
  <2> QED BY <1>2, <2>1, FoldReplaces DEF Trace, Offered
<1> QED
  BY <1>1, <1>3, FoldedReplaces

\* What a step does not change of the trace, the arguments being the same.
LEMMA SameArgs ==
  ASSUME UNCHANGED <<arr, sum>>
  PROVE  /\ Offered' = Offered /\ Picks' = Picks /\ Replaces' = Replaces
         /\ Selections(arr, sum)' = Selections(arr, sum)
         /\ Outcomes(arr, sum)' = Outcomes(arr, sum)
         /\ \A s, b, o, t, n : Trace(s, b, o, t, n)' <=> Trace(s, b, o, t, n)
<1>1. Offered' = Offered
  BY DEF Offered
<1> QED
  BY <1>1 DEF Picks, Replaces, Trace

LEMMA InitTraced == SearchInit => Traced
<1> SUFFICES ASSUME SearchInit PROVE Traced
  OBVIOUS
<1>1. /\ phase = "select" /\ trials = 0 /\ x = {} /\ todo = Offered
  BY DEF SearchInit, Offered
<1>2. phase # "improve" /\ ~(trials > 0)
  BY <1>1
<1>3. \E n, ord, tr : Trace(Picks, {}, ord, tr, n) /\ Gone(ord, n) = {} /\ tr[n] = {}
  BY NothingTraced
<1> QED
  BY <1>1, <1>2, <1>3 DEF Traced

LEMMA SelectTraced ==
  ASSUME SearchInv, Traced, Select
  PROVE  Traced'
<1>1. UNCHANGED <<arr, sum, phase, trials, best>> /\ phase = "select" /\ SearchArgs
  BY DEF Select, args, SearchInv
<1>2. PICK v \in todo : x' = Pick(x, v, arr, sum) /\ todo' = todo \ {v}
  BY DEF Select
<1>3. PICK n, ord, tr : Trace(Picks, {}, ord, tr, n) /\ todo = Offered \ Gone(ord, n) /\ x = tr[n]
  BY <1>1 DEF Traced
<1>4. v \in Offered /\ v \notin Gone(ord, n) /\ x \in SUBSET Offered
  BY <1>2, <1>3 DEF SearchInv, SearchTypeOK, Offered
<1>5. Picks[<<tr[n], v>>] = x' /\ x' \in SUBSET Offered
  BY <1>2, <1>3, <1>4 DEF Picks, Pick
<1>6. PICK m, o, t : /\ Trace(Picks, {}, o, t, m) /\ Gone(o, m) = Gone(ord, n) \cup {v}
                     /\ t[m] = Picks[<<tr[n], v>>]
  BY <1>3, <1>4, <1>5, TraceGrows
<1>7. todo' = Offered \ Gone(o, m) /\ x' = t[m]
  BY <1>2, <1>3, <1>5, <1>6
<1>8. Trace(Picks, {}, o, t, m)'
  BY <1>1, <1>6, SameArgs
<1> QED
  BY <1>1, <1>7, <1>8, SameArgs DEF Traced

LEMMA SelectedTraced ==
  ASSUME SearchInv, Traced, Selected
  PROVE  Traced'
<1>1. /\ UNCHANGED <<arr, sum, x, trials, best>> /\ phase = "select" /\ phase' = "improve"
      /\ todo = {} /\ todo' = x /\ SearchArgs
  BY DEF Selected, args, SearchInv
<1>2. PICK n, ord, tr : Trace(Picks, {}, ord, tr, n) /\ todo = Offered \ Gone(ord, n) /\ x = tr[n]
  BY <1>1 DEF Traced
<1>3. Gone(ord, n) = Offered
  BY <1>1, <1>2 DEF Gone, Trace
<1>4. x \in Selections(arr, sum) /\ x \in SUBSET Offered
  BY <1>1, <1>2, <1>3, IsSelection DEF SearchInv, SearchTypeOK, Offered
<1>5. PICK m, o, t : Trace(Replaces, x, o, t, m) /\ Gone(o, m) = {} /\ t[m] = x
  BY <1>4, TraceStarts
<1>6. Trace(Replaces, x, o, t, m)'
  BY <1>1, <1>5, SameArgs
<1>7. /\ x \subseteq Offered /\ Gone(o, m) \subseteq x /\ todo' = x \ Gone(o, m) /\ x' = t[m]
  BY <1>1, <1>4, <1>5
<1> QED
  BY <1>1, <1>4, <1>6, <1>7, SameArgs DEF Traced

LEMMA ImproveTraced ==
  ASSUME SearchInv, Traced, Improve
  PROVE  Traced'
<1>1. UNCHANGED <<arr, sum, phase, trials, best>> /\ phase = "improve" /\ SearchArgs
  BY DEF Improve, args, SearchInv
<1>2. PICK v \in todo : x' = Replace(x, v, arr, sum) /\ todo' = todo \ {v}
  BY DEF Improve
<1>3. PICK x0 \in Selections(arr, sum) :
            /\ x0 \subseteq Offered
            /\ \E n, ord, tr : /\ Trace(Replaces, x0, ord, tr, n) /\ Gone(ord, n) \subseteq x0
                               /\ todo = x0 \ Gone(ord, n) /\ x = tr[n]
  BY <1>1 DEF Traced
<1>4. PICK n, ord, tr : /\ Trace(Replaces, x0, ord, tr, n) /\ Gone(ord, n) \subseteq x0
                        /\ todo = x0 \ Gone(ord, n) /\ x = tr[n]
  BY <1>3
<1>5. v \in Offered /\ v \in x0 /\ v \notin Gone(ord, n) /\ x \in SUBSET Offered
  BY <1>2, <1>4 DEF SearchInv, SearchTypeOK, Offered
<1>6. x' \in SUBSET Offered
  <2>1. IsFiniteSet(DOMAIN arr) /\ DOMAIN arr \subseteq Nat
    BY <1>1, OfferedShape, RatesAssumption DEF Offered
  <2> QED BY <1>2, <1>5, <2>1, ReplaceOffered DEF Offered
<1>7. Replaces[<<tr[n], v>>] = x'
  BY <1>2, <1>4, <1>5 DEF Replaces
<1>8. PICK m, o, t : /\ Trace(Replaces, x0, o, t, m) /\ Gone(o, m) = Gone(ord, n) \cup {v}
                     /\ t[m] = Replaces[<<tr[n], v>>]
  BY <1>4, <1>5, <1>6, <1>7, TraceGrows
<1>9. todo' = x0 \ Gone(o, m) /\ x' = t[m] /\ Gone(o, m) \subseteq x0
  BY <1>2, <1>4, <1>5, <1>7, <1>8
<1>10. Trace(Replaces, x0, o, t, m)'
  BY <1>1, <1>8, SameArgs
<1> QED
  BY <1>1, <1>3, <1>9, <1>10, SameArgs DEF Traced

LEMMA EndTrialTraced ==
  ASSUME SearchInv, Traced, EndTrial
  PROVE  Traced'
<1>1. /\ UNCHANGED <<arr, sum>> /\ phase = "improve" /\ trials' = trials + 1 /\ todo = {}
      /\ best' = IF Better(x) THEN x ELSE best
      /\ x' = {} /\ phase' \in {"select", "done"} /\ (phase' = "select" => todo' = Offered)
      /\ SearchArgs
  BY DEF EndTrial, args, Offered, SearchInv
<1>2. PICK x0 \in Selections(arr, sum) :
            /\ x0 \subseteq Offered
            /\ \E n, ord, tr : /\ Trace(Replaces, x0, ord, tr, n) /\ Gone(ord, n) \subseteq x0
                               /\ todo = x0 \ Gone(ord, n) /\ x = tr[n]
  BY <1>1 DEF Traced
<1>3. PICK n, ord, tr : /\ Trace(Replaces, x0, ord, tr, n) /\ Gone(ord, n) \subseteq x0
                        /\ todo = x0 \ Gone(ord, n) /\ x = tr[n]
  BY <1>2
<1>4. Gone(ord, n) = x0
  BY <1>1, <1>3
<1>5. x \in Outcomes(arr, sum)
  BY <1>1, <1>2, <1>3, <1>4, IsOutcome
<1>6. best' \in Outcomes(arr, sum)
  <2>1. CASE Better(x)
    BY <1>1, <1>5, <2>1
  <2>2. CASE ~Better(x)
    <3>1. trials \in Nat /\ trials # 0
      BY <2>2, TrialsAssumption DEF Better, SearchInv, SearchTypeOK
    <3>2. best \in Outcomes(arr, sum)
      BY <3>1 DEF Traced
    <3> QED BY <1>1, <2>2, <3>2
  <2> QED BY <2>1, <2>2
<1>7. PICK m, o, t : Trace(Picks, {}, o, t, m) /\ Gone(o, m) = {} /\ t[m] = {}
  BY NothingTraced
<1>8. Trace(Picks, {}, o, t, m)'
  BY <1>1, <1>7, SameArgs
<1>9. phase' = "select" => todo' = Offered \ Gone(o, m) /\ x' = t[m]
  BY <1>1, <1>7
<1>10. phase' # "improve"
  BY <1>1
<1> QED
  BY <1>1, <1>6, <1>8, <1>9, <1>10, SameArgs DEF Traced

LEMMA TracedStep ==
  ASSUME SearchInv, Traced, [SearchNext]_searchVars
  PROVE  Traced'
<1>1. CASE UNCHANGED searchVars
  <2>1. UNCHANGED <<arr, sum, x, todo, phase, trials, best>>
    BY <1>1 DEF searchVars
  <2> QED BY <2>1, SameArgs DEF Traced
<1> QED
  BY <1>1, SelectTraced, SelectedTraced, ImproveTraced, EndTrialTraced DEF SearchNext

LEMMA OutcomeReturned ==
  ASSUME SearchInv, Traced
  PROVE  ReturnsAnOutcome
<1>1. phase = "done" => trials > 0
  BY DEF SearchInv, Trial
<1> QED
  BY <1>1 DEF Traced, ReturnsAnOutcome
-----------------------------------------------------------------------------
(* The discovery of contracts: what the invariant of DiscoveryProofs says.  *)

LEMMA DiscoveryTypes == DiscoveryInv => DiscoveryTypeOK
<1> SUFFICES ASSUME DiscoveryInv PROVE DiscoveryTypeOK
  OBVIOUS
<1>1. Shaped /\ ManagerInv
  BY DEF DiscoveryInv
<1>2. ASSUME NEW c \in Contracts
      PROVE  /\ chain[c].term \in {0, chain[c].sold} /\ chain[c].sold \in 0..MaxRentals
             /\ chain[c].ended \in 0..chain[c].sold /\ chain[c].dest \in 0..1
             /\ Len(objs[c]) \in {0} \cup Objects
             /\ \A i \in DOMAIN objs[c] : objs[c][i].pc \in {"listen", "dest", "vars", "ended"}
  <2>1. /\ chain[c] \in OnChain /\ objs[c] \in Seq(ObjectStates) /\ MaxRentals \in Nat
        /\ Rented(c) /\ Counted(c)
    BY <1>1, DiscoveryAssumption DEF Shaped, ManagerInv
  <2>2. /\ chain[c].sold \in 0..MaxRentals /\ chain[c].ended \in 0..MaxRentals
        /\ chain[c].dest \in 0..1
    BY <2>1 DEF OnChain
  <2>3. chain[c].term \in {0, chain[c].sold} /\ chain[c].ended <= chain[c].sold
    BY <2>1 DEF Rented
  <2>4. DOMAIN objs[c] \subseteq Objects /\ DOMAIN objs[c] = 1..Len(objs[c]) /\ Len(objs[c]) \in Nat
    BY <1>1, <2>1, ObjectsKnown
  <2>5. Len(objs[c]) \in {0} \cup Objects
    BY <2>4
  <2>6. \A i \in DOMAIN objs[c] : objs[c][i] \in ObjectStates
    BY <2>1, <2>4, ElementOfSeq
  <2>7. \A i \in DOMAIN objs[c] : objs[c][i].pc \in {"listen", "dest", "vars", "ended"}
    BY <2>6 DEF ObjectStates
  <2>8. chain[c].ended \in 0..chain[c].sold
    BY <2>1, <2>2, <2>3
  <2> QED BY <2>2, <2>3, <2>5, <2>7, <2>8
<1>3. ASSUME NEW s \in Subs
      PROVE  /\ subs[s].st \in {"off", "init", "live"}
             /\ \A k \in DOMAIN subs[s].logs :
                   IF s = FactorySub THEN subs[s].logs[k][1] \in FactoryEvents
                   ELSE subs[s].logs[k] \in ContractEvents
  <2>1. subs[s] \in Subscriptions /\ subs[FactorySub].logs \in Seq(Logs)
    BY <1>1 DEF Shaped
  <2>2. CASE s = FactorySub
    <3>1. \A k \in DOMAIN subs[s].logs : subs[s].logs[k] \in Logs
      BY <2>1, <2>2, LenProperties, ElementOfSeq
    <3> QED BY <2>1, <2>2, <3>1 DEF Subscriptions, Logs
  <2>3. CASE s # FactorySub
    <3>1. subs[s].logs \in Seq(ContractEvents)
      BY <1>1, <2>3, SubsShape DEF Shaped, LogsOf
    <3>2. \A k \in DOMAIN subs[s].logs : subs[s].logs[k] \in ContractEvents
      BY <3>1, LenProperties, ElementOfSeq
    <3> QED BY <2>1, <2>3, <3>2 DEF Subscriptions
  <2> QED BY <2>2, <2>3
<1>4. /\ isBuyer \in BOOLEAN /\ faults \in 0..MaxDrops
      /\ mgr.pc \in {"list", "filter", "next", "dest", "vars", "select", "done"}
      /\ mgr.todo \subseteq Contracts
  BY <1>1 DEF Shaped, Managers
<1> QED
  BY <1>2, <1>3, <1>4 DEF DiscoveryTypeOK

LEMMA HarmAtShutdown == DiscoveryInv => OnlyShutdownHarms
BY DEF DiscoveryInv, Harmless, OnlyShutdownHarms

LEMMA SumOfTwo ==
  ASSUME NEW n \in 0..2, NEW f, \A y \in 1..n : f[y] \in Int
  PROVE  SumFunctionOnSet(f, 1..n) = IF n = 0 THEN 0 ELSE IF n = 1 THEN f[1] ELSE f[1] + f[2]
<1> DEFINE S == 1..n
           one == {1}
           none == {}
<1>1. IsFiniteSet(S) /\ \A y \in S : f[y] \in Int
  BY FS_Interval
<1>2. SumFunctionOnSet(f, none) = 0
  BY SumEmpty
<1>3. ASSUME n # 0 PROVE SumFunctionOnSet(f, one) = f[1] /\ f[1] \in Int
  <2>1. none \in SUBSET S /\ 1 \in S \ none /\ none \cup {1} = one
    BY <1>3
  <2> HIDE DEF S, none, one
  <2>2. SumFunctionOnSet(f, none \cup {1}) = f[1] + SumFunctionOnSet(f, none)
    BY <1>1, <2>1, SumAdd
  <2>3. f[1] \in Int
    BY <1>1, <2>1
  <2> QED BY <1>2, <2>1, <2>2, <2>3
<1>4. ASSUME n = 2 PROVE SumFunctionOnSet(f, S) = f[1] + f[2]
  <2>1. one \in SUBSET S /\ 2 \in S \ one /\ one \cup {2} = S
    BY <1>4
  <2>2. SumFunctionOnSet(f, one) = f[1] /\ f[1] \in Int
    BY <1>3, <1>4
  <2> HIDE DEF S, one
  <2>3. SumFunctionOnSet(f, one \cup {2}) = f[2] + SumFunctionOnSet(f, one)
    BY <1>1, <2>1, SumAdd
  <2>4. f[2] \in Int
    BY <1>1, <2>1
  <2> QED BY <2>1, <2>2, <2>3, <2>4
<1>5. n = 0 => S = none
  OBVIOUS
<1>6. n = 1 => S = one
  OBVIOUS
<1>7. n \in {0, 1, 2}
  OBVIOUS
<1> HIDE DEF none, one
<1> QED
  BY <1>2, <1>3, <1>4, <1>5, <1>6, <1>7

\* A contract sold once has two objects at most, and each has one loop at most.
LEMMA WorksOnce == DiscoveryInv => OncePerRental
<1> SUFFICES ASSUME DiscoveryInv, NEW c \in Contracts, chain[c].sold <= 1
             PROVE  /\ Work(c) <= (IF isBuyer THEN 2 ELSE 1)
                    /\ ~isBuyer => \A i \in DOMAIN objs[c] :
                                      objs[c][i].data.term = 1 => objs[c][i].data.dest # 0
  BY DEF OncePerRental
<1>1. /\ Shaped /\ ManagerInv /\ Counted(c) /\ isBuyer \in BOOLEAN
      /\ Unrented(c) /\ OneLoop(c) /\ Alone(c) /\ Loaded(c)
  BY DEF DiscoveryInv, ManagerInv, ObjectsInv, Shaped
<1>2. /\ DOMAIN objs[c] = 1..Len(objs[c]) /\ DOMAIN objs[c] \subseteq Objects
      /\ Len(objs[c]) \in Nat /\ Len(objs[c]) <= chain[c].sold + 1 /\ chain[c].sold \in Nat
  BY <1>1, ObjectsKnown, UsesTyped
<1>3. \A i \in DOMAIN objs[c] : objs[c][i] \in ObjectStates
  BY <1>1, <1>2, ElementOfSeq DEF Shaped
<1> DEFINE n == Len(objs[c])
           f == [i \in DOMAIN objs[c] |-> objs[c][i].work]
<1>4. Work(c) = SumFunctionOnSet(f, 1..n)
  <2>1. DOMAIN f = 1..n
    BY <1>2
  <2>2. Work(c) = FoldFunctionOnSet(+, 0, f, DOMAIN f)
    BY DEF Work, FoldFunction
  <2> QED BY <2>1, <2>2 DEF SumFunctionOnSet
<1>5. \A i \in 1..n : f[i] = objs[c][i].work /\ f[i] \in Nat
  BY <1>2, <1>3 DEF ObjectStates
<1>6. n \in Nat /\ n <= chain[c].sold + 1 /\ 1..n = DOMAIN objs[c]
  BY <1>2
<1>7. \A i \in 1..n : f[i] > 0 => Started(c, i)
  BY <1>5 DEF Started
<1>8. chain[c].sold = 1 => \A i \in 1..n : f[i] <= 1
  BY <1>1, <1>2, <1>5 DEF OneLoop
<1>9. chain[c].sold = 1 /\ ~isBuyer => \A i, j \in 1..n : f[i] > 0 /\ f[j] > 0 => i = j
  BY <1>1, <1>6, <1>7 DEF Alone
<1>10. chain[c].sold = 0 => \A i \in 1..n : ~(f[i] > 0)
  BY <1>1, <1>6, <1>7 DEF Unrented
<1> HIDE DEF n, f
<1>11. n \in 0..2 /\ \A i \in 1..n : f[i] \in Int
  BY <1>2, <1>5, <1>6
<1>12. SumFunctionOnSet(f, 1..n) = IF n = 0 THEN 0 ELSE IF n = 1 THEN f[1] ELSE f[1] + f[2]
  BY <1>11, SumOfTwo
<1>13. Work(c) <= (IF isBuyer THEN 2 ELSE 1)
  <2>1. CASE n = 0
    BY <1>1, <1>4, <1>12, <2>1
  <2>2. CASE n = 1
    <3>1. 1 \in 1..n
      BY <2>2
    <3>2. f[1] <= 1 /\ f[1] \in Nat
      BY <1>2, <1>5, <1>8, <1>10, <3>1
    <3> QED BY <1>1, <1>4, <1>12, <2>2, <3>2
  <2>3. CASE n = 2
    <3>1. 1 \in 1..n /\ 2 \in 1..n /\ chain[c].sold = 1
      BY <1>2, <1>6, <2>3
    <3>2. f[1] <= 1 /\ f[1] \in Nat /\ f[2] <= 1 /\ f[2] \in Nat
      BY <1>5, <1>8, <3>1
    <3>3. ~isBuyer => ~(f[1] > 0 /\ f[2] > 0)
      BY <1>9, <3>1
    <3>4. Work(c) = f[1] + f[2]
      BY <1>4, <1>12, <2>3
    <3> QED BY <1>1, <3>2, <3>3, <3>4
  <2> QED BY <1>11, <2>1, <2>2, <2>3
<1>14. ASSUME ~isBuyer, NEW i \in DOMAIN objs[c], objs[c][i].data.term = 1
       PROVE  objs[c][i].data.dest # 0
  <2>1. objs[c][i].data.dest = 1
    BY <1>1, <1>14 DEF Loaded
  <2> QED BY <2>1
<1> QED
  BY <1>13, <1>14
-----------------------------------------------------------------------------
(* The composition: a step of the node is a step of each part.              *)

LEMMA DiscoverySteps == [Next]_node => [DiscoveryNext]_discoveryVars
<1> SUFFICES ASSUME [Next]_node PROVE [DiscoveryNext]_discoveryVars
  OBVIOUS
<1>1. UNCHANGED node => UNCHANGED discoveryVars
  BY DEF node
<1>2. ASSUME AppStep PROVE DiscoveryNext
  <2>1. AppNext /\ UNCHANGED discovery
    BY <1>2 DEF AppStep, AppNext, Process, Starts
  <2> QED BY <2>1 DEF DiscoveryNext, discovery
<1>3. ManagerStep => DiscoveryNext
  BY DEF ManagerStep, ManagerSteps, DiscoveryNext
<1>4. ASSUME NEW c \in Contracts, DiscoveryStep(c) PROVE DiscoveryNext
  BY <1>4 DEF DiscoveryStep, DiscoveryNext
<1>5. TokenStep \/ MarketStep \/ LibraryStep => UNCHANGED discoveryVars
  BY DEF TokenStep, MarketStep, LibraryStep, Pays, Trades, Notifies, Saves, Searches
<1> QED
  BY <1>1, <1>2, <1>3, <1>4, <1>5 DEF Next

LEMMA MarketSteps == [Next]_node => [MarketNext]_marketVars
<1> SUFFICES ASSUME [Next]_node PROVE [MarketNext]_marketVars
  OBVIOUS
<1>1. UNCHANGED node => UNCHANGED marketVars
  BY DEF node
<1>2. AppStep \/ ManagerStep \/ LibraryStep => UNCHANGED marketVars
  BY DEF AppStep, ManagerStep, LibraryStep, Process, Starts, Manages, Others, Notifies, Saves,
         Searches
<1>3. ASSUME NEW c \in Contracts, DiscoveryStep(c) PROVE UNCHANGED marketVars
  BY <1>3 DEF DiscoveryStep, Discovers, Others
<1>4. ASSUME TokenStep PROVE MarketNext
  <2>1. TokenNext /\ UNCHANGED <<now, titanCut, rentals, fee>>
    BY <1>4 DEF TokenStep, TokenNext, Pays
  <2> QED BY <2>1 DEF MarketNext
<1>5. MarketStep => MarketNext
  BY NodeAssumption DEF MarketStep, MarketNext
<1> QED
  BY <1>1, <1>2, <1>3, <1>4, <1>5 DEF Next

LEMMA LibrarySteps ==
  [Next]_node => [BusNext]_busVars /\ [RepositoryNext]_repositoryVars /\ [SearchNext]_searchVars
<1> SUFFICES ASSUME [Next]_node
             PROVE  [BusNext]_busVars /\ [RepositoryNext]_repositoryVars /\ [SearchNext]_searchVars
  OBVIOUS
<1> DEFINE still == UNCHANGED <<busVars, repositoryVars, searchVars>>
<1>1. UNCHANGED node => still
  BY DEF node
<1>2. AppStep \/ ManagerStep \/ TokenStep \/ MarketStep => still
  BY DEF AppStep, ManagerStep, TokenStep, MarketStep, Process, Starts, Manages, Others, Pays, Trades
<1>3. ASSUME NEW c \in Contracts, DiscoveryStep(c) PROVE still
  BY <1>3 DEF DiscoveryStep, Discovers, Others
<1>4. LibraryStep => \/ BusNext /\ UNCHANGED <<repositoryVars, searchVars>>
                     \/ RepositoryNext /\ UNCHANGED <<busVars, searchVars>>
                     \/ SearchNext /\ UNCHANGED <<busVars, repositoryVars>>
  BY DEF LibraryStep, BusNext, RepositoryNext, SearchNext, Notifies, Saves, Searches
<1>5. still => [BusNext]_busVars /\ [RepositoryNext]_repositoryVars /\ [SearchNext]_searchVars
  OBVIOUS
<1>6. LibraryStep => [BusNext]_busVars /\ [RepositoryNext]_repositoryVars /\ [SearchNext]_searchVars
  BY <1>4
<1> HIDE DEF still
<1> QED
  BY <1>1, <1>2, <1>3, <1>5, <1>6 DEF Next

NodeInv == DiscoveryInv /\ MarketInv /\ BusInv /\ RepositoryInv /\ SearchInv /\ Traced

LEMMA NodeInvariant == Spec => []NodeInv
<1>1. Init => NodeInv
  BY InitDiscovery, InitSound, InitBus, InitRepository, InitSearch, InitTraced DEF Init, NodeInv
<1>2. NodeInv /\ [Next]_node => NodeInv'
  BY DiscoverySteps, MarketSteps, LibrarySteps, DiscoverySound, StepSound, BusStep,
     RepositoryStep, SearchStep, TracedStep DEF NodeInv
<1> QED
  BY <1>1, <1>2, PTL DEF Spec

\* The types of every part's state, whatever the parts do side by side.
THEOREM NodeTypeCorrect == Spec => []TypeOK
<1>1. NodeInv => TypeOK
  BY DiscoveryTypes, BusTypes
     DEF NodeInv, TypeOK, DiscoveryInv, MarketInv, RepositoryInv, SearchInv
<1> QED
  BY <1>1, NodeInvariant, PTL

\* The event bus hands on what was published, the repository answers with what was saved,
\* and the search reaches its target with an outcome of one trial (event-bus.go,
\* inMemoryRepository.go, closest_subset_sum_rgli.go).
THEOREM LibrariesCorrect == Spec => []LibrariesSound
<1>1. NodeInv => LibrariesSound
  BY BusDelivered, OneFound, TargetReached, OutcomeReturned DEF NodeInv, LibrariesSound
<1> QED
  BY <1>1, NodeInvariant, PTL

\* A seller's node fulfils a contract's first rental in one loop for the destination its
\* buyer named, and a buyer's node in two at most (contract_manager_v2.go:87-126,
\* contract_model.go:130-160).
THEOREM FulfilledOnce == Spec => []OncePerRental
<1>1. NodeInv => OncePerRental
  BY WorksOnce DEF NodeInv
<1> QED
  BY <1>1, NodeInvariant, PTL

\* A node that has started panics at shutdown only, and ends a rental before its term for
\* a reason (ethereum_gateway.go:132, contract_manager_v2.go:80).
THEOREM HarmsOnlyAtShutdown == Spec => []OnlyShutdownHarms
<1>1. NodeInv => OnlyShutdownHarms
  BY HarmAtShutdown DEF NodeInv
<1> QED
  BY <1>1, NodeInvariant, PTL

\* What Covered says of the market holds in the node's run of it.
THEOREM NodeCovers == Spec => []EscrowCovers
<1>1. NodeInv => EscrowCovers
  BY DEF NodeInv, MarketInv, Sound, EscrowCovers
<1> QED
  BY <1>1, NodeInvariant, PTL

\* What RentalImplemented says of the market holds in the node's run of it.
THEOREM NodeImplementsRental == Spec => ImplementsRental
<1>1. NodeInv /\ [Next]_node => [R!RNext]_R!rentalVars
  BY MarketSteps, RentalStep DEF NodeInv
<1>2. Init => R!RInit
  BY RentalInit DEF Init
<1> QED
  BY <1>1, <1>2, NodeInvariant, PTL DEF Spec, ImplementsRental, R!RSpec

\* A later trial never makes the search's result worse (closest_subset_sum_rgli.go:33).
THEOREM BestNeverForgotten == Spec => NeverForgetsBest
<1>1. NodeInv /\ [Next]_node
         => [trials > 0 => absInt(delta(best', arr, sum)) <= absInt(delta(best, arr, sum))]_searchVars
  BY LibrarySteps, BestKept DEF NodeInv
<1> QED
  BY <1>1, NodeInvariant, PTL DEF Spec, NeverForgetsBest

\* The second phase never gives up a target that was reached
\* (closest_subset_sum_rgli.go:59-79).
THEOREM TargetNeverLost == Spec => KeepsTarget
<1>1. NodeInv /\ [Next]_node
         => [phase = "improve" /\ phase' = "improve" /\ delta(x, arr, sum) <= 0
               => delta(x', arr, sum) <= 0]_searchVars
  BY LibrarySteps, TargetKept DEF NodeInv
<1> QED
  BY <1>1, NodeInvariant, PTL DEF Spec, KeepsTarget
=============================================================================
