-------------------------- MODULE FulfilmentProofs ----------------------------
(***************************************************************************)
(* How contracts are fulfilled, for any miners, contracts and purchases:   *)
(* what a snapshot says of the splits, what a planned change makes of a    *)
(* split, and with these that no miner is divided beyond its whole, that a *)
(* contract knows its miners, and that it leaves none behind.              *)
(***************************************************************************)
EXTENDS Fulfilment, AllocProofs

-----------------------------------------------------------------------------
(* The arithmetic of the plan.                                              *)

LEMMA Division ==
  ASSUME NEW a \in Int, NEW b \in Nat \ {0}
  PROVE  /\ a \div b \in Int
         /\ b * (a \div b) <= a
         /\ a >= 0 => a \div b >= 0
OBVIOUS

LEMMA Multiplied ==
  ASSUME NEW a \in Int, NEW b \in Int, NEW k \in Nat \ {0}
  PROVE  /\ k * a <= k * b => a <= b
         /\ a <= b => a * k <= b * k
<1>1. ASSUME a > b PROVE k * a > k * b
  <2>1. PICK d \in Nat \ {0} : a = b + d
    <3>1. a - b \in Nat \ {0} /\ a = b + (a - b)
      BY <1>1
    <3> QED BY <3>1
  <2>2. k * d > 0
    OBVIOUS
  <2>3. k * a = k * b + k * d
    BY <2>1
  <2> QED BY <2>2, <2>3
<1>2. ASSUME a <= b PROVE a * k <= b * k
  <2>1. PICK d \in Nat : b = a + d
    <3>1. b - a \in Nat /\ b = a + (b - a)
      BY <1>2
    <3> QED BY <3>1
  <2>2. d * k >= 0
    OBVIOUS
  <2>3. b * k = a * k + d * k
    BY <2>1
  <2> QED BY <2>2, <2>3
<1> QED
  BY <1>1, <1>2

LEMMA PlanNumbers ==
  /\ Whole \in Nat \ {0} /\ MinPct \in Nat \ {0} /\ 2 * MinPct <= Whole
  /\ PoolMin \in Nat \ {0} /\ PoolMax \in Nat /\ PoolMin <= PoolMax
  /\ Whole \div 2 \in Int /\ Whole \div 2 <= PoolMax /\ PoolMin <= Whole \div 2
  /\ \A m \in Miners : Rate[m] \in Nat \ {0}
<1>1. Whole \in Nat \ {0} /\ MinPct \in Nat \ {0} /\ 2 * MinPct <= Whole
  BY WholeAssumption
<1>2. PoolMax \in Nat /\ PoolMin \in Nat \ {0} /\ PoolMin <= PoolMax /\ PoolMin + PoolMax = Whole
  BY PoolAssumption
<1>3. \A m \in Miners : Rate[m] \in Nat \ {0}
  BY MinersAssumption
<1>4. Whole \div 2 \in Int /\ Whole \div 2 <= PoolMax /\ PoolMin <= Whole \div 2
  BY <1>1, <1>2
<1> QED
  BY <1>1, <1>2, <1>3, <1>4

LEMMA GHSValue ==
  ASSUME NEW m \in Miners, NEW p \in Int
  PROVE  /\ GHS(m, p) \in Int
         /\ p >= 0 => GHS(m, p) = (Rate[m] * p) \div Whole
<1>1. GHS(m, p) = IF p >= 0 THEN (Rate[m] * p) \div Whole ELSE -((Rate[m] * (-p)) \div Whole)
  BY DEF GHS, AllocatedGHS, AllocItem
<1>2. Rate[m] * p \in Int /\ Rate[m] * (-p) \in Int /\ Whole \in Nat \ {0}
  BY PlanNumbers
<1>3. (Rate[m] * p) \div Whole \in Int /\ (Rate[m] * (-p)) \div Whole \in Int
  BY <1>2, Division
<1> QED
  BY <1>1, <1>3

LEMMA PartsValue ==
  ASSUME NEW m \in Miners, NEW g \in Int
  PROVE  Parts(m, g) \in Int /\ (g >= 0 => Parts(m, g) >= 0)
<1>1. g * Whole \in Int /\ (g >= 0 => g * Whole >= 0) /\ Rate[m] \in Nat \ {0}
  BY PlanNumbers
<1> QED
  BY <1>1, Division DEF Parts

\* What makes no more than the free hashrate fits into the free fraction.
LEMMA PartsFit ==
  ASSUME NEW m \in Miners, NEW room \in Nat, NEW g \in Int, g <= GHS(m, room)
  PROVE  Parts(m, g) <= room
<1> DEFINE q == GHS(m, room)
           p == Parts(m, g)
           R == Rate[m]
<1>a. R \in Nat \ {0} /\ Whole \in Nat \ {0}
  BY PlanNumbers
<1>b. q \in Int /\ q = (R * room) \div Whole
  BY GHSValue
<1>c. p \in Int
  BY PartsValue
<1>d. p = (g * Whole) \div R
  BY DEF Parts
<1>e. g <= q
  OBVIOUS
<1> HIDE DEF q, p, R
<1>1. R * room \in Int /\ g * Whole \in Int
  BY <1>a
<1>2. Whole * q <= R * room
  BY <1>a, <1>b, <1>1, Division
<1>3. R * p <= g * Whole
  BY <1>a, <1>d, <1>1, Division
<1>4. g * Whole <= q * Whole
  BY <1>a, <1>b, <1>e, Multiplied
<1>5. q * Whole = Whole * q /\ R * p \in Int /\ q * Whole \in Int
  BY <1>a, <1>b, <1>c
<1>6. R * p <= R * room
  BY <1>1, <1>2, <1>3, <1>4, <1>5
<1>7. p <= room
  BY <1>a, <1>c, <1>6, Multiplied
<1> QED
  BY <1>7 DEF p

\* A raise is an integer; by an exact snapshot it stays within the room, and the share it
\* makes is positive.
LEMMA AddValue ==
  ASSUME NEW m \in Miners, NEW have \in Int, NEW room \in Int, NEW rest \in Int
  PROVE  /\ ToAdd(m, have, room, rest) \in Int
         /\ room >= 0 => ToAdd(m, have, room, rest) <= room
         /\ ToAdd(m, have, room, rest) # 0 => have + ToAdd(m, have, room, rest) > 0
<1> DEFINE g == IF rest < GHS(m, room) THEN rest ELSE GHS(m, room)
           p == Parts(m, g)
           a == ToAdd(m, have, room, rest)
<1>1. g \in Int /\ g <= GHS(m, room)
  BY GHSValue
<1> HIDE DEF g
<1>2. p \in Int /\ (room >= 0 => p <= room)
  BY <1>1, PartsValue, PartsFit
<1>3. a = IF rest <= 0 \/ g = 0 \/ have + p < PoolMin THEN 0
          ELSE IF have + p > PoolMax /\ have + p < Whole THEN PoolMax - have ELSE p
  BY DEF ToAdd, g
<1> HIDE DEF p, a
<1>4. a \in Int /\ (room >= 0 => a <= room) /\ (a # 0 => have + a > 0)
  BY <1>2, <1>3, PlanNumbers
<1> QED
  BY <1>4 DEF a

LEMMA LowerValue ==
  ASSUME NEW m \in Miners, NEW have \in Int, NEW rest \in Int
  PROVE  /\ Lowered(m, have, rest) \in Int /\ NewFraction(m, have, rest) \in Int
         /\ Removed(m, have, rest) \in Int
         /\ Lowered(m, have, rest) >= PoolMin => NewFraction(m, have, rest) > 0
         /\ rest > 0 /\ Lowered(m, have, rest) >= PoolMin => NewFraction(m, have, rest) <= have
<1> DEFINE low == Lowered(m, have, rest)
<1>1. low = have - Parts(m, rest) /\ Parts(m, rest) \in Int /\ (rest > 0 => Parts(m, rest) >= 0)
  BY PartsValue DEF Lowered
<1>2. low \in Int /\ (rest > 0 => low <= have)
  BY <1>1
<1>3. GHS(m, have) \in Int /\ GHS(m, Whole \div 2) \in Int
  BY GHSValue, PlanNumbers
<1>4. Removed(m, have, rest) \in Int
  BY <1>3 DEF Removed
<1> HIDE DEF low
<1>5. NewFraction(m, have, rest) = IF low > PoolMax THEN Whole \div 2 ELSE low
  BY DEF NewFraction, low
<1>6. low >= PoolMin => NewFraction(m, have, rest) > 0
  BY <1>2, <1>5, PlanNumbers
<1>7. rest > 0 /\ low >= PoolMin => NewFraction(m, have, rest) <= have
  BY <1>2, <1>5, PlanNumbers
<1>8. NewFraction(m, have, rest) \in Int
  BY <1>2, <1>5, PlanNumbers
<1> QED
  BY <1>2, <1>4, <1>6, <1>7, <1>8 DEF low

-----------------------------------------------------------------------------
(* What the calls make of a split.                                          *)

LEMMA ShareType ==
  ASSUME NEW I, NEW s \in Splits(I)
  PROVE  /\ s \in Seq([id : I, pct : Int]) /\ Len(s) \in Nat /\ DOMAIN s = 1..Len(s)
         /\ \A i \in DOMAIN s : s[i] \in [id : I, pct : Int]
<1> DEFINE R == [id : I, pct : Int]
<1>1. s \in Seq(R)
  BY DEF Splits
<1> HIDE DEF R
<1>2. Len(s) \in Nat /\ DOMAIN s = 1..Len(s) /\ \A i \in DOMAIN s : s[i] \in R
  BY <1>1
<1> QED
  BY <1>1, <1>2 DEF R

\* One share is given another percentage.
Reprice(s, i, p) == [s EXCEPT ![i].pct = p]

LEMMA Repriced ==
  ASSUME NEW I, NEW s \in Splits(I), NEW i \in DOMAIN s, NEW p \in Int
  PROVE  /\ Reprice(s, i, p) \in Splits(I)
         /\ Holders(Reprice(s, i, p)) = Holders(s)
         /\ NoDuplicates(s) => NoDuplicates(Reprice(s, i, p))
         /\ AllPositive(s) /\ p > 0 => AllPositive(Reprice(s, i, p))
         /\ GetAllocated(Reprice(s, i, p)) = GetAllocated(s) - s[i].pct + p
<1> DEFINE x == [id |-> s[i].id, pct |-> p]
           r == [s EXCEPT ![i] = x]
<1>1. s[i] \in [id : I, pct : Int] /\ DOMAIN s = 1..Len(s) /\ \A j \in DOMAIN s : s[j] \in [id : I, pct : Int]
  BY ShareType
<1>2. x \in [id : I, pct : Int] /\ x.pct = p /\ x.id = s[i].id
  BY <1>1
<1>3. Reprice(s, i, p) = r
  <2>1. [s[i] EXCEPT !.pct = p] = x
    BY <1>1
  <2> QED BY <2>1 DEF Reprice
<1> HIDE DEF x
<1>4. r \in Splits(I) /\ GetAllocated(r) = GetAllocated(s) - s[i].pct + x.pct
  BY <1>2, TotalReplace
<1>5. DOMAIN r = DOMAIN s /\ r[i] = x /\ \A j \in DOMAIN s : j # i => r[j] = s[j]
  OBVIOUS
<1> HIDE DEF r
<1>6. \A j \in DOMAIN s : r[j].id = s[j].id
  BY <1>2, <1>5
<1>7. Holders(r) = Holders(s)
  BY <1>5, <1>6 DEF Holders
<1>8. NoDuplicates(s) => NoDuplicates(r)
  BY <1>5, <1>6 DEF NoDuplicates
<1>9. AllPositive(s) /\ p > 0 => AllPositive(r)
  BY <1>2, <1>5 DEF AllPositive
<1> QED
  BY <1>2, <1>3, <1>4, <1>7, <1>8, <1>9

\* One share is cut out.
LEMMA CutOut ==
  ASSUME NEW I, NEW s \in Splits(I), NEW i \in DOMAIN s
  PROVE  /\ RemoveAt(s, i) \in Splits(I)
         /\ Holders(RemoveAt(s, i)) \subseteq Holders(s)
         /\ NoDuplicates(s) => NoDuplicates(RemoveAt(s, i)) /\ s[i].id \notin Holders(RemoveAt(s, i))
         /\ AllPositive(s) => AllPositive(RemoveAt(s, i))
         /\ GetAllocated(RemoveAt(s, i)) = GetAllocated(s) - s[i].pct
<1> DEFINE r == RemoveAt(s, i)
           n == Len(s) - 1
           from(j) == IF j < i THEN j ELSE j + 1
<1>1. /\ r \in Splits(I) /\ Len(r) = n /\ GetAllocated(r) = GetAllocated(s) - s[i].pct
      /\ \A j \in 1..n : r[j] = IF j < i THEN s[j] ELSE s[j + 1]
  BY TotalRemove
<1> HIDE DEF r
<1>2. DOMAIN r = 1..n /\ DOMAIN s = 1..Len(s) /\ Len(s) \in Nat
  BY <1>1, ShareType
<1>3. \A j \in DOMAIN r : from(j) \in DOMAIN s /\ from(j) # i /\ r[j] = s[from(j)]
  BY <1>1, <1>2
<1>4. \A j, k \in DOMAIN r : from(j) = from(k) => j = k
  BY <1>2
<1> HIDE DEF from
<1>5. Holders(r) \subseteq Holders(s)
  BY <1>3 DEF Holders
<1>6. NoDuplicates(s) => NoDuplicates(r)
  BY <1>3, <1>4 DEF NoDuplicates
<1>7. NoDuplicates(s) => s[i].id \notin Holders(r)
  BY <1>3 DEF NoDuplicates, Holders
<1>8. AllPositive(s) => AllPositive(r)
  BY <1>3 DEF AllPositive
<1> QED
  BY <1>1, <1>5, <1>6, <1>7, <1>8 DEF r

LEMMA RaiseEffect ==
  ASSUME NEW I, NEW s \in Splits(I), NEW id, NEW p \in Int
  PROVE  /\ IncreaseAllocation(s, id, p) \in Splits(I)
         /\ Holders(IncreaseAllocation(s, id, p)) = Holders(s)
         /\ NoDuplicates(s) => NoDuplicates(IncreaseAllocation(s, id, p))
         /\ NoDuplicates(s) => \A i \in DOMAIN s : s[i].id = id =>
               /\ GetAllocated(IncreaseAllocation(s, id, p)) = GetAllocated(s) + p
               /\ AllPositive(s) /\ s[i].pct + p > 0 => AllPositive(IncreaseAllocation(s, id, p))
<1> DEFINE i == IndexFrom(s, id, 1)
           r == IncreaseAllocation(s, id, p)
<1>1. CASE id \notin Holders(s)
  <2>1. r = s
    BY <1>1, FirstShare DEF IncreaseAllocation
  <2>2. \A k \in DOMAIN s : s[k].id # id
    BY <1>1 DEF Holders
  <2> QED BY <2>1, <2>2
<1>2. CASE id \in Holders(s)
  <2>1. i \in DOMAIN s /\ s[i].id = id /\ i # 0
    BY <1>2, FirstShare
  <2>2. s[i].pct \in Int /\ GetAllocated(s) \in Int
    BY <2>1, ShareType, TotalInt
  <2> DEFINE q == s[i].pct + p
  <2>3. r = Reprice(s, i, q)
    BY <2>1 DEF IncreaseAllocation, Reprice
  <2>4. q \in Int
    BY <2>2
  <2> HIDE DEF i, r, q
  <2>5. /\ r \in Splits(I) /\ Holders(r) = Holders(s) /\ (NoDuplicates(s) => NoDuplicates(r))
        /\ AllPositive(s) /\ q > 0 => AllPositive(r)
        /\ GetAllocated(r) = GetAllocated(s) - s[i].pct + q
    BY <2>1, <2>3, <2>4, Repriced
  <2>6. GetAllocated(r) = GetAllocated(s) + p /\ q = s[i].pct + p
    BY <2>2, <2>5 DEF q
  <2>7. NoDuplicates(s) => \A k \in DOMAIN s : s[k].id = id => k = i
    BY <2>1 DEF NoDuplicates
  <2> QED BY <2>5, <2>6, <2>7 DEF r
<1> QED
  BY <1>1, <1>2

LEMMA FractionEffect ==
  ASSUME NEW I, NEW s \in Splits(I), NEW id, NEW p \in Int
  PROVE  /\ SetFractionByID(s, id, p) \in Splits(I)
         /\ Holders(SetFractionByID(s, id, p)) = Holders(s)
         /\ NoDuplicates(s) => NoDuplicates(SetFractionByID(s, id, p))
         /\ AllPositive(s) /\ p > 0 => AllPositive(SetFractionByID(s, id, p))
         /\ id \notin Holders(s) => SetFractionByID(s, id, p) = s
         /\ NoDuplicates(s) => \A i \in DOMAIN s : s[i].id = id =>
               GetAllocated(SetFractionByID(s, id, p)) = GetAllocated(s) - s[i].pct + p
<1> DEFINE i == IndexFrom(s, id, 1)
           r == SetFractionByID(s, id, p)
<1>1. CASE id \notin Holders(s)
  <2>1. r = s
    BY <1>1, FirstShare DEF SetFractionByID
  <2>2. \A k \in DOMAIN s : s[k].id # id
    BY <1>1 DEF Holders
  <2> QED BY <2>1, <2>2
<1>2. CASE id \in Holders(s)
  <2>1. i \in DOMAIN s /\ s[i].id = id /\ i # 0
    BY <1>2, FirstShare
  <2>2. r = Reprice(s, i, p)
    BY <2>1 DEF SetFractionByID, Reprice
  <2> HIDE DEF i, r
  <2>3. /\ r \in Splits(I) /\ Holders(r) = Holders(s) /\ (NoDuplicates(s) => NoDuplicates(r))
        /\ AllPositive(s) /\ p > 0 => AllPositive(r)
        /\ GetAllocated(r) = GetAllocated(s) - s[i].pct + p
    BY <2>1, <2>2, Repriced
  <2>4. NoDuplicates(s) => \A k \in DOMAIN s : s[k].id = id => k = i
    BY <2>1 DEF NoDuplicates
  <2> QED BY <1>2, <2>3, <2>4 DEF r
<1> QED
  BY <1>1, <1>2

LEMMA RemoveEffect ==
  ASSUME NEW I, NEW s \in Splits(I), NEW id
  PROVE  /\ RemoveByID(s, id) \in Splits(I)
         /\ Holders(RemoveByID(s, id)) \subseteq Holders(s)
         /\ NoDuplicates(s) => NoDuplicates(RemoveByID(s, id)) /\ id \notin Holders(RemoveByID(s, id))
         /\ AllPositive(s) => /\ AllPositive(RemoveByID(s, id))
                              /\ GetAllocated(RemoveByID(s, id)) <= GetAllocated(s)
<1> DEFINE i == IndexFrom(s, id, 1)
           r == RemoveByID(s, id)
<1>0. GetAllocated(s) \in Int
  BY TotalInt
<1>1. CASE id \notin Holders(s)
  <2>1. r = s
    BY <1>1, FirstShare DEF RemoveByID
  <2> QED BY <1>0, <1>1, <2>1
<1>2. CASE id \in Holders(s)
  <2>1. i \in DOMAIN s /\ s[i].id = id /\ i # 0
    BY <1>2, FirstShare
  <2>2. r = RemoveAt(s, i)
    BY <2>1 DEF RemoveByID
  <2>3. s[i].pct \in Int /\ (AllPositive(s) => s[i].pct > 0)
    BY <2>1, ShareType DEF AllPositive
  <2> HIDE DEF i, r
  <2>4. /\ r \in Splits(I) /\ Holders(r) \subseteq Holders(s)
        /\ NoDuplicates(s) => NoDuplicates(r) /\ id \notin Holders(r)
        /\ AllPositive(s) => AllPositive(r)
        /\ GetAllocated(r) = GetAllocated(s) - s[i].pct
    BY <2>1, <2>2, CutOut
  <2>5. AllPositive(s) => GetAllocated(r) <= GetAllocated(s)
    BY <1>0, <2>3, <2>4
  <2> QED BY <2>4, <2>5 DEF r
<1> QED
  BY <1>1, <1>2

\* A share is lowered or removed.  By a snapshot that is exact it is not raised.
LEMMA DecreaseEffect ==
  ASSUME NEW I, NEW s \in Splits(I), NEW id, NEW m \in Miners, NEW have \in Int, NEW rest \in Int
  PROVE  /\ Decreased(s, id, m, have, rest) \in Splits(I)
         /\ Holders(Decreased(s, id, m, have, rest)) \subseteq Holders(s)
         /\ NoDuplicates(s) => NoDuplicates(Decreased(s, id, m, have, rest))
         /\ NoDuplicates(s) /\ AllPositive(s) => AllPositive(Decreased(s, id, m, have, rest))
         /\ NoDuplicates(s) /\ TakesAll(m, have, rest)
               => id \notin Holders(Decreased(s, id, m, have, rest))
         /\ NoDuplicates(s) /\ AllPositive(s) /\ rest > 0 =>
               \A i \in DOMAIN s : s[i].id = id /\ s[i].pct = have =>
                  GetAllocated(Decreased(s, id, m, have, rest)) <= GetAllocated(s)
<1> DEFINE r == Decreased(s, id, m, have, rest)
           gone == RemoveByID(s, id)
           new == NewFraction(m, have, rest)
           low == Lowered(m, have, rest)
<1>1. /\ low \in Int /\ new \in Int
      /\ low >= PoolMin => new > 0
      /\ rest > 0 /\ low >= PoolMin => new <= have
  BY LowerValue
<1>2. /\ gone \in Splits(I) /\ Holders(gone) \subseteq Holders(s)
      /\ NoDuplicates(s) => NoDuplicates(gone) /\ id \notin Holders(gone)
      /\ AllPositive(s) => AllPositive(gone) /\ GetAllocated(gone) <= GetAllocated(s)
  BY RemoveEffect
<1>3. CASE TakesAll(m, have, rest)
  <2>1. r = gone
    BY <1>3 DEF Decreased
  <2> HIDE DEF gone, r
  <2> QED BY <1>2, <1>3, <2>1 DEF r
<1>4. CASE ~TakesAll(m, have, rest) /\ low < PoolMin
  <2>1. r = SetFractionByID(gone, id, new)
    BY <1>4 DEF Decreased
  <2> HIDE DEF gone, r, new, low
  <2>2. /\ r \in Splits(I) /\ Holders(r) = Holders(gone)
        /\ NoDuplicates(gone) => NoDuplicates(r)
        /\ id \notin Holders(gone) => r = gone
    BY <1>1, <1>2, <2>1, FractionEffect
  <2> QED BY <1>2, <1>4, <2>2 DEF r
<1>5. CASE ~TakesAll(m, have, rest) /\ ~(low < PoolMin)
  <2>1. r = SetFractionByID(s, id, new)
    BY <1>5 DEF Decreased
  <2>2. new > 0 /\ (rest > 0 => new <= have)
    BY <1>1, <1>5, PlanNumbers
  <2> HIDE DEF gone, r, new, low
  <2>3. /\ r \in Splits(I) /\ Holders(r) = Holders(s)
        /\ NoDuplicates(s) => NoDuplicates(r)
        /\ AllPositive(s) => AllPositive(r)
        /\ NoDuplicates(s) => \A i \in DOMAIN s : s[i].id = id =>
               GetAllocated(r) = GetAllocated(s) - s[i].pct + new
    BY <1>1, <2>1, <2>2, FractionEffect
  <2>4. GetAllocated(s) \in Int
    BY TotalInt
  <2>5. ASSUME NoDuplicates(s), rest > 0, NEW i \in DOMAIN s, s[i].id = id, s[i].pct = have
        PROVE  GetAllocated(r) <= GetAllocated(s)
    <3>1. GetAllocated(r) = GetAllocated(s) - have + new
      BY <2>3, <2>5
    <3> QED BY <1>1, <2>2, <2>4, <2>5, <3>1
  <2> QED BY <1>5, <2>3, <2>5 DEF r
<1> QED
  BY <1>3, <1>4, <1>5

\* A new share fits into what is left.
LEMMA AllocateEffect ==
  ASSUME NEW I, NEW s \in Splits(I), NEW id \in I, NEW p \in Int
  PROVE  /\ Allocated(s, id, p) \in Splits(I)
         /\ Holders(Allocated(s, id, p)) \subseteq Holders(s) \cup {id}
         /\ AllPositive(s) => AllPositive(Allocated(s, id, p))
         /\ GetAllocated(s) <= Whole => GetAllocated(Allocated(s, id, p)) <= Whole
<1> DEFINE q == adjustPercentage(p)
           r == insert(s, id, q)
<1>1. q \in Int /\ q > 0
  BY PlanNumbers DEF adjustPercentage
<1>2. Allocated(s, id, p) = IF Refused(q, GetUnallocated(s)) THEN s ELSE r
  BY DEF Allocated
<1> HIDE DEF q
<1>3. GetAllocated(s) \in Int /\ Whole \in Int
  BY TotalInt, PlanNumbers
<1>4. r \in Splits(I) /\ GetAllocated(r) = GetAllocated(s) + q
  BY <1>1, TotalInsert
<1>5. ~Refused(q, GetUnallocated(s)) => GetAllocated(r) <= Whole
  BY <1>1, <1>3, <1>4 DEF Refused, GetUnallocated
<1>6. DOMAIN s = 1..Len(s) /\ Len(s) \in Nat
  BY ShareType
<1>7. /\ DOMAIN r = 1..(Len(s) + 1) /\ r[1].id = id /\ r[1].pct = q
      /\ \A i \in 2..(Len(s) + 1) : i - 1 \in DOMAIN s /\ r[i] = s[i - 1]
  BY <1>6, ShareType DEF insert, Share
<1> HIDE DEF r
<1>8. \A i \in DOMAIN r : i = 1 \/ i \in 2..(Len(s) + 1)
  BY <1>6, <1>7
<1>9. Holders(r) \subseteq Holders(s) \cup {id}
  BY <1>7, <1>8 DEF Holders
<1>10. AllPositive(s) => AllPositive(r)
  BY <1>1, <1>7, <1>8 DEF AllPositive
<1> QED
  BY <1>2, <1>4, <1>5, <1>9, <1>10

-----------------------------------------------------------------------------
(* Deallocate: a fold over the positions of the old header.                 *)

CutState(I) == [now : Splits(I), view : Splits(I), panic : BOOLEAN]
CutStart(s) == [now |-> s, view |-> s, panic |-> FALSE]
CutStep(r, i, c) ==
    IF r.panic \/ r.view[i].id # c THEN r
    ELSE IF i \notin DOMAIN r.now THEN [r EXCEPT !.panic = TRUE]
    ELSE LET cut == RemoveAt(r.now, i)
         IN [now |-> cut, view |-> cut \o SubSeq(r.view, Len(cut) + 1, Len(r.view)),
             panic |-> FALSE]
CutFold(s, c) == FoldLeft(LAMBDA r, i : CutStep(r, i, c), CutStart(s), [i \in DOMAIN s |-> i])

LEMMA DeallocatedIsFold ==
  ASSUME NEW s, NEW c
  PROVE  Deallocated(s, c) = CutFold(s, c)
BY DEF Deallocated, CutFold, CutStep, CutStart, FoldLeft, MapThenFoldSet

\* The old header after a cut: the shares behind it have moved up, the last one stays.
LEMMA OldHeader ==
  ASSUME NEW I, NEW cut \in Splits(I), NEW view \in Splits(I)
  PROVE  /\ cut \o SubSeq(view, Len(cut) + 1, Len(view)) \in Splits(I)
         /\ \A k \in DOMAIN cut : (cut \o SubSeq(view, Len(cut) + 1, Len(view)))[k] = cut[k]
         /\ Len(view) = Len(cut) + 1 =>
               (cut \o SubSeq(view, Len(cut) + 1, Len(view)))[Len(view)] = view[Len(view)]
<1> DEFINE R == [id : I, pct : Int]
           b == SubSeq(view, Len(cut) + 1, Len(view))
<1>1. cut \in Seq(R) /\ view \in Seq(R) /\ Len(cut) \in Nat /\ Len(view) \in Nat
      /\ DOMAIN cut = 1..Len(cut)
  BY ShareType
<1> HIDE DEF R
<1>2. b \in Seq(R) /\ (Len(view) = Len(cut) + 1 => Len(b) = 1 /\ b[1] = view[Len(view)])
  BY <1>1
<1> HIDE DEF b
<1>3. /\ cut \o b \in Seq(R)
      /\ \A k \in 1..(Len(cut) + Len(b)) :
             (cut \o b)[k] = IF k <= Len(cut) THEN cut[k] ELSE b[k - Len(cut)]
      /\ Len(b) \in Nat
  BY <1>1, <1>2, ConcatProperties
<1>4. \A k \in DOMAIN cut : (cut \o b)[k] = cut[k]
  BY <1>1, <1>3
<1>5. ASSUME Len(view) = Len(cut) + 1 PROVE (cut \o b)[Len(view)] = view[Len(view)]
  <2> DEFINE n == Len(cut)
             v == Len(view)
  <2>0. v = n + 1 /\ n \in Nat /\ Len(b) = 1
    BY <1>1, <1>2, <1>5
  <2> HIDE DEF n, v
  <2>2. v - n = 1 /\ v \in 1..(n + 1) /\ ~(v <= n)
    BY <2>0
  <2>1. Len(view) - Len(cut) = 1 /\ Len(view) \in 1..(Len(cut) + Len(b)) /\ ~(Len(view) <= Len(cut))
    BY <2>0, <2>2 DEF n, v
  <2> QED BY <1>2, <1>3, <1>5, <2>1
<1> QED
  BY <1>3, <1>4, <1>5 DEF b, R, Splits

LEMMA CutStepType ==
  ASSUME NEW I, NEW r \in CutState(I), NEW i, NEW c
  PROVE  CutStep(r, i, c) \in CutState(I)
<1>1. r.now \in Splits(I) /\ r.view \in Splits(I) /\ r.panic \in BOOLEAN
  BY DEF CutState
<1>2. [r EXCEPT !.panic = TRUE] \in CutState(I)
  BY DEF CutState
<1>3. ASSUME i \in DOMAIN r.now
      PROVE  [now |-> RemoveAt(r.now, i),
              view |-> RemoveAt(r.now, i) \o SubSeq(r.view, Len(RemoveAt(r.now, i)) + 1, Len(r.view)),
              panic |-> FALSE] \in CutState(I)
  <2> DEFINE cut == RemoveAt(r.now, i)
             old == cut \o SubSeq(r.view, Len(cut) + 1, Len(r.view))
  <2>1. cut \in Splits(I)
    BY <1>1, <1>3, CutOut
  <2> HIDE DEF cut
  <2>2. old \in Splits(I)
    BY <1>1, <2>1, OldHeader
  <2> HIDE DEF old
  <2>3. [now |-> cut, view |-> old, panic |-> FALSE] \in CutState(I)
    BY <2>1, <2>2 DEF CutState
  <2> QED BY <2>3 DEF cut, old
<1> QED
  BY <1>2, <1>3 DEF CutStep

\* The fold is the last of the values reached position by position.
LEMMA CutFolds ==
  ASSUME NEW I, NEW s \in Splits(I), NEW c, NEW tr \in [0..Len(s) -> CutState(I)],
         tr[0] = CutStart(s), \A k \in 1..Len(s) : tr[k] = CutStep(tr[k - 1], k, c)
  PROVE  CutFold(s, c) = tr[Len(s)]
<1> DEFINE n == Len(s)
           D == 1..n
           M == CutState(I)
           ord == [i \in DOMAIN s |-> i]
           Rec(h) == h = [x \in SUBSET DOMAIN ord |->
                            IF x = {} THEN CutStart(s) ELSE CutStep(h[x \ {Max(x)}], ord[Max(x)], c)]
           t == CHOOSE h : Rec(h)
           step == [q \in M \X D |-> CutStep(q[1], q[2], c)]
<1>0. n \in Nat /\ DOMAIN s = D /\ DOMAIN ord = D
  BY ShareType
<1>1. CutFold(s, c) = t[DOMAIN ord]
  BY DEF CutFold, FoldLeft, MapThenFoldSet
<1>2. \A m \in M, k \in D : step[<<m, k>>] = CutStep(m, k, c)
  OBVIOUS
<1> HIDE DEF M, step, n
<1>3. ClosedOver(step, M, n)
  <2>1. \A m \in M, k \in D : CutStep(m, k, c) \in M
    BY CutStepType DEF M
  <2> QED BY <1>2, <2>1 DEF ClosedOver
<1>4. \A x \in SUBSET D : x # {} => Max(x) \in D /\ ord[Max(x)] = Max(x)
  <2>1. \A x \in SUBSET D : x # {} => Max(x) \in D
    BY <1>0, MaxOfSome
  <2> QED BY <1>0, <2>1
<1>5. CutStart(s) \in M
  BY DEF CutStart, CutState, M
<1>6. PICK g : IsTable(g, step, CutStart(s), M, n)
  BY <1>0, <1>3, <1>5, FoldTable
<1> HIDE DEF ord
<1>7. Rec(g)
  <2>1. ASSUME NEW x \in SUBSET D, x # {}
        PROVE  g[x] = CutStep(g[x \ {Max(x)}], ord[Max(x)], c)
    <3>1. g[x] = step[<<g[x \ {Max(x)}], Max(x)>>] /\ g[x \ {Max(x)}] \in M
      BY <1>6, <2>1 DEF IsTable
    <3> QED BY <1>2, <1>4, <2>1, <3>1
  <2> QED BY <1>0, <1>6, <2>1 DEF IsTable
<1>8. Rec(t)
  BY <1>7
<1> HIDE DEF t
<1>9. t[{}] = tr[0] /\ \A x \in SUBSET D : x # {} => t[x] = CutStep(t[x \ {Max(x)}], Max(x), c)
  BY <1>0, <1>4, <1>8
<1>10. Follows(t, step, M, n)
  BY <1>2, <1>4, <1>9 DEF Follows
<1>11. IsTrace(tr, step, t[{}], M, n)
  <2>1. \A k \in D : k - 1 \in 0..n
    BY <1>0
  <2>2. tr \in [0..n -> M]
    BY DEF M, n
  <2>3. \A k \in D : tr[k] = CutStep(tr[k - 1], k, c)
    BY DEF n
  <2> QED BY <1>2, <1>9, <2>1, <2>2, <2>3 DEF IsTrace
<1>12. t[D] = tr[n]
  <2> HIDE DEF Rec
  <2> QED BY <1>0, <1>10, <1>11, FoldAlong
<1> QED
  BY <1>0, <1>1, <1>12 DEF n

LEMMA OwnHolders ==
  ASSUME NEW I, NEW s \in Splits(I)
  PROVE  s \in Splits(Holders(s))
<1> DEFINE R == [id : Holders(s), pct : Int]
<1>1. Len(s) \in Nat /\ DOMAIN s = 1..Len(s) /\ s \in Seq([id : I, pct : Int])
      /\ \A i \in DOMAIN s : s[i] \in [id : I, pct : Int]
  BY ShareType
<1>2. \A i \in DOMAIN s : s[i].id \in Holders(s)
  BY DEF Holders
<1>3. \A i \in DOMAIN s : s[i] \in R
  BY <1>1, <1>2
<1> HIDE DEF R
<1>4. s \in [1..Len(s) -> R]
  BY <1>1, <1>3
<1>5. s \in Seq(R)
  BY <1>1, <1>4
<1> QED
  BY <1>5 DEF R, Splits

LEMMA FewerHolders ==
  ASSUME NEW I, NEW J \in SUBSET I, NEW s \in Splits(J)
  PROVE  s \in Splits(I) /\ Holders(s) \subseteq J
<1> DEFINE R == [id : I, pct : Int]
<1>1. Len(s) \in Nat /\ DOMAIN s = 1..Len(s) /\ s \in Seq([id : J, pct : Int])
      /\ \A i \in DOMAIN s : s[i] \in [id : J, pct : Int]
  BY ShareType
<1>2. \A i \in DOMAIN s : s[i] \in R
  BY <1>1
<1> HIDE DEF R
<1>4. s \in [1..Len(s) -> R]
  BY <1>1, <1>2
<1>5. s \in Seq(R)
  BY <1>1, <1>4, SMTT(30)
<1>6. Holders(s) \subseteq J
  BY <1>1 DEF Holders
<1> QED
  BY <1>5, <1>6 DEF R, Splits

\* Whatever the split, what is left is a split of some of its holders.
LEMMA DeallocateType ==
  ASSUME NEW I, NEW s \in Splits(I), NEW c
  PROVE  /\ Deallocated(s, c).now \in Splits(I)
         /\ Holders(Deallocated(s, c).now) \subseteq Holders(s)
         /\ Deallocated(s, c).panic \in BOOLEAN
<1> DEFINE n == Len(s)
           M == CutState(Holders(s))
           step == [q \in M \X (1..n) |-> CutStep(q[1], q[2], c)]
<1>1. n \in Nat /\ s \in Splits(Holders(s))
  BY ShareType, OwnHolders
<1>2. \A m \in M, k \in 1..n : step[<<m, k>>] = CutStep(m, k, c)
  OBVIOUS
<1> HIDE DEF M, step, n
<1>3. ClosedOver(step, M, n)
  <2>1. \A m \in M, k \in 1..n : CutStep(m, k, c) \in M
    BY CutStepType DEF M
  <2> QED BY <1>2, <2>1 DEF ClosedOver
<1>4. CutStart(s) \in M
  BY <1>1 DEF CutStart, CutState, M
<1>5. PICK tr : IsTrace(tr, step, CutStart(s), M, n)
  BY <1>1, <1>3, <1>4, TraceExists
<1>6. tr \in [0..n -> M] /\ tr[0] = CutStart(s) /\ \A k \in 1..n : tr[k] = CutStep(tr[k - 1], k, c)
  <2>1. \A k \in 1..n : k - 1 \in 0..n
    BY <1>1
  <2> QED BY <1>2, <1>5, <2>1 DEF IsTrace
<1>7. CutFold(s, c) = tr[n]
  <2>1. tr \in [0..Len(s) -> CutState(Holders(s))]
    BY <1>6 DEF M, n
  <2>2. \A k \in 1..Len(s) : tr[k] = CutStep(tr[k - 1], k, c)
    BY <1>6 DEF n
  <2>3. CutFold(s, c) = tr[Len(s)]
    BY <1>1, <1>6, <2>1, <2>2, CutFolds
  <2> QED BY <2>3 DEF n
<1>8. Deallocated(s, c) \in M
  BY <1>1, <1>6, <1>7, DeallocatedIsFold
<1>9. Deallocated(s, c).now \in Splits(Holders(s)) /\ Deallocated(s, c).panic \in BOOLEAN
  BY <1>8 DEF M, CutState
<1>10. Holders(s) \in SUBSET I
  <2>1. \A i \in DOMAIN s : s[i].id \in I
    BY ShareType
  <2> QED BY <2>1 DEF Holders
<1> QED
  BY <1>9, <1>10, FewerHolders

\* Where the contract has one share at most, it is cut out and no index is out of range.
LEMMA DeallocateEffect ==
  ASSUME NEW I, NEW s \in Splits(I), NEW c, NoDuplicates(s)
  PROVE  /\ ~Deallocated(s, c).panic
         /\ Deallocated(s, c).now = RemoveByID(s, c)
         /\ NoDuplicates(Deallocated(s, c).now)
         /\ c \notin Holders(Deallocated(s, c).now)
         /\ AllPositive(s) => /\ AllPositive(Deallocated(s, c).now)
                              /\ GetAllocated(Deallocated(s, c).now) <= GetAllocated(s)
<1> DEFINE n == Len(s)
           M == CutState(I)
<1>1. n \in Nat /\ DOMAIN s = 1..n /\ GetAllocated(s) \in Int
  BY ShareType, TotalInt
<1>2. CutStart(s) \in M
  BY DEF CutStart, CutState
<1>3. CASE c \notin Holders(s)
  <2> DEFINE tr == [k \in 0..n |-> CutStart(s)]
  <2>1. \A k \in 1..n : s[k].id # c
    BY <1>1, <1>3 DEF Holders
  <2>2. \A k \in 1..n : CutStep(CutStart(s), k, c) = CutStart(s)
    BY <2>1 DEF CutStep, CutStart
  <2>3. /\ tr \in [0..n -> M] /\ tr[0] = CutStart(s) /\ tr[n] = CutStart(s)
        /\ \A k \in 1..n : tr[k] = CutStart(s) /\ tr[k - 1] = CutStart(s)
    BY <1>1, <1>2
  <2> HIDE DEF tr
  <2>4. CutFold(s, c) = CutStart(s)
    BY <2>2, <2>3, CutFolds
  <2>5. Deallocated(s, c).now = s /\ Deallocated(s, c).panic = FALSE
    BY <2>4, DeallocatedIsFold DEF CutStart
  <2>6. RemoveByID(s, c) = s
    BY <1>3, FirstShare DEF RemoveByID
  <2> QED BY <1>1, <1>3, <2>5, <2>6
<1>4. CASE c \in Holders(s)
  <2>1. PICK j \in DOMAIN s : s[j].id = c
    BY <1>4 DEF Holders
  <2> DEFINE cut == RemoveAt(s, j)
             old == cut \o SubSeq(s, Len(cut) + 1, Len(s))
             first == IndexFrom(s, c, 1)
             end == [now |-> cut, view |-> old, panic |-> FALSE]
             tr == [k \in 0..n |-> IF k < j THEN CutStart(s) ELSE end]
  <2>2. /\ cut \in Splits(I) /\ Len(cut) = n - 1
        /\ \A k \in 1..(n - 1) : cut[k] = IF k < j THEN s[k] ELSE s[k + 1]
    BY TotalRemove
  <2>3. /\ NoDuplicates(cut) /\ c \notin Holders(cut)
        /\ AllPositive(s) => AllPositive(cut)
        /\ GetAllocated(cut) = GetAllocated(s) - s[j].pct
    BY <2>1, CutOut
  <2>4. /\ old \in Splits(I) /\ old[n] = s[n]
        /\ \A k \in 1..(n - 1) : old[k] = cut[k]
    <3>1. DOMAIN cut = 1..(n - 1) /\ n = Len(cut) + 1
      BY <1>1, <2>2, ShareType
    <3> HIDE DEF cut
    <3>2. /\ old \in Splits(I) /\ \A k \in DOMAIN cut : old[k] = cut[k]
          /\ Len(s) = Len(cut) + 1 => old[Len(s)] = s[Len(s)]
      BY <2>2, OldHeader
    <3> QED BY <3>1, <3>2
  <2>5. \A k \in 1..n : k # j => s[k].id # c
    BY <1>1, <2>1 DEF NoDuplicates
  <2>6. ASSUME NEW k \in 1..n, k > j PROVE old[k].id # c
    <3>1. CASE k = n
      BY <2>4, <2>5, <2>6, <3>1
    <3>2. CASE k # n
      <4>1. k \in 1..(n - 1) /\ ~(k < j) /\ k + 1 \in 1..n /\ k + 1 # j
        <5>1. n \in Nat /\ j \in 1..n /\ k \in 1..n
          BY <1>1, <2>1
        <5> HIDE DEF n
        <5> QED BY <2>6, <3>2, <5>1
      <4>2. old[k] = s[k + 1]
        BY <2>2, <2>4, <4>1
      <4> QED BY <2>5, <4>1, <4>2
    <3> QED BY <3>1, <3>2
  <2>7. end \in M
    BY <2>2, <2>4 DEF CutState
  <2>8. \A k \in 1..n : k < j => CutStep(CutStart(s), k, c) = CutStart(s)
    BY <1>1, <2>1, <2>5 DEF CutStep, CutStart
  <2>9. CutStep(CutStart(s), j, c) = end
    BY <2>1 DEF CutStep, CutStart
  <2>10. \A k \in 1..n : k > j => CutStep(end, k, c) = end
    <3> HIDE DEF cut, old
    <3> QED BY <2>6 DEF CutStep
  <2>11. j \in 1..n
    BY <1>1, <2>1
  <2> HIDE DEF cut, old, end, M
  <2>12. tr \in [0..n -> M] /\ tr[0] = CutStart(s) /\ tr[n] = end
    BY <1>1, <1>2, <2>7, <2>11
  <2>13. \A k \in 1..n : tr[k] = CutStep(tr[k - 1], k, c)
    <3> SUFFICES ASSUME NEW k \in 1..n PROVE tr[k] = CutStep(tr[k - 1], k, c)
      OBVIOUS
    <3>0. k \in 0..n /\ k - 1 \in 0..n
      BY <1>1
    <3>1. CASE k < j
      <4>1. tr[k] = CutStart(s) /\ tr[k - 1] = CutStart(s)
        BY <1>1, <2>11, <3>0, <3>1
      <4> QED BY <2>8, <3>1, <4>1
    <3>2. CASE k = j
      <4>1. tr[k] = end /\ tr[k - 1] = CutStart(s)
        BY <1>1, <2>11, <3>0, <3>2
      <4> QED BY <2>9, <3>2, <4>1
    <3>3. CASE k > j
      <4>1. tr[k] = end /\ tr[k - 1] = end
        BY <1>1, <2>11, <3>0, <3>3
      <4> QED BY <2>10, <3>3, <4>1
    <3> QED BY <1>1, <2>11, <3>1, <3>2, <3>3
  <2> HIDE DEF tr
  <2>14. CutFold(s, c) = end
    BY <2>12, <2>13, CutFolds DEF M
  <2>15. Deallocated(s, c).now = cut /\ Deallocated(s, c).panic = FALSE
    BY <2>14, DeallocatedIsFold DEF end
  <2>16. AllPositive(s) => GetAllocated(cut) <= GetAllocated(s)
    <3>1. s[j].pct \in Int /\ (AllPositive(s) => s[j].pct > 0)
      BY <2>1, ShareType DEF AllPositive
    <3> QED BY <1>1, <2>3, <3>1
  <2>17. RemoveByID(s, c) = cut
    <3>1. first \in DOMAIN s /\ s[first].id = c /\ first # 0
      BY <1>4, FirstShare
    <3>2. first = j
      BY <2>1, <3>1 DEF NoDuplicates
    <3> QED BY <3>1, <3>2 DEF RemoveByID, cut
  <2> QED BY <2>3, <2>15, <2>16, <2>17
<1> QED
  BY <1>3, <1>4

-----------------------------------------------------------------------------
(* The snapshot of the miners.  Q[m] is what has been read of miner m: the  *)
(* fraction of each contract that holds a share.                            *)

ItemsOf(m, q) == [c \in DOMAIN q |-> AllocItem(m, c, q[c], Rate[m])]
Servers(D, Q, c) == {m \in D : c \in DOMAIN Q[m]}
ItemsFor(D, Q, c) == [m \in Servers(D, Q, c) |-> AllocItem(m, c, Q[m][c], Rate[m])]
Served(D, Q) == {c \in Contracts : Servers(D, Q, c) # {}}
Picture(D, Q) == [contracts |-> [c \in Served(D, Q) |-> ItemsFor(D, Q, c)],
                  miners |-> [m \in D |-> ItemsOf(m, Q[m])],
                  hashrates |-> [m \in D |-> Rate[m]]]
Readings(Q) == DOMAIN Q = Miners /\ \A m \in Miners : DOMAIN Q[m] \subseteq Contracts

LEMMA AddSame ==
  ASSUME NEW X, NEW V, NEW f \in [X -> V], NEW x \in X
  PROVE  Add(f, x, f[x]) = f
<1>1. {x} \cup DOMAIN f = X
  OBVIOUS
<1> QED
  BY <1>1 DEF Add

LEMMA PictureFields ==
  ASSUME NEW D, NEW Q
  PROVE  /\ Picture(D, Q).miners = [m \in D |-> ItemsOf(m, Q[m])]
         /\ Picture(D, Q).hashrates = [m \in D |-> Rate[m]]
         /\ Picture(D, Q).contracts = [c \in Served(D, Q) |-> ItemsFor(D, Q, c)]
BY DEF Picture

LEMMA PictureContract ==
  ASSUME NEW D, NEW Q, NEW c \in Contracts
  PROVE  Contract(Picture(D, Q), c) = ItemsFor(D, Q, c)
<1>0. Picture(D, Q).contracts = [d \in Served(D, Q) |-> ItemsFor(D, Q, d)]
  BY PictureFields
<1>1. CASE c \in Served(D, Q)
  BY <1>0, <1>1 DEF Contract, Collection
<1>2. CASE c \notin Served(D, Q)
  <2>1. Servers(D, Q, c) = {}
    BY <1>2 DEF Served
  <2>2. ItemsFor(D, Q, c) = NewAllocCollection
    BY <2>1 DEF ItemsFor, NewAllocCollection
  <2> QED BY <1>0, <1>2, <2>2 DEF Contract, Collection
<1> QED
  BY <1>1, <1>2

LEMMA PictureOfMiner ==
  ASSUME NEW D, NEW Q, NEW m \in D
  PROVE  Miner(Picture(D, Q), m) = ItemsOf(m, Q[m])
<1>1. Picture(D, Q).miners = [n \in D |-> ItemsOf(n, Q[n])]
  BY DEF Picture
<1> QED
  BY <1>1 DEF Miner, Collection

\* Pictures of the same readings are the same.
LEMMA SamePicture ==
  ASSUME NEW D, NEW Q, NEW P, \A m \in D : Q[m] = P[m]
  PROVE  Picture(D, Q) = Picture(D, P)
<1>1. \A c : Servers(D, Q, c) = Servers(D, P, c)
  BY DEF Servers
<1>2. Served(D, Q) = Served(D, P)
  BY <1>1 DEF Served
<1>3. \A c : ItemsFor(D, Q, c) = ItemsFor(D, P, c)
  <2> TAKE c
  <2>1. \A m \in Servers(D, Q, c) : Q[m] = P[m]
    BY DEF Servers
  <2> QED BY <1>1, <2>1 DEF ItemsFor
<1>4. [c \in Served(D, Q) |-> ItemsFor(D, Q, c)] = [c \in Served(D, P) |-> ItemsFor(D, P, c)]
  BY <1>2, <1>3
<1>5. [m \in D |-> ItemsOf(m, Q[m])] = [m \in D |-> ItemsOf(m, P[m])]
  OBVIOUS
<1> QED
  BY <1>4, <1>5 DEF Picture

\* A miner that has no share yet is added.
LEMMA PictureMiner ==
  ASSUME NEW D \in SUBSET Miners, NEW Q, NEW m \in Miners \ D, Q[m] = NewAllocCollection
  PROVE  SetMiner(Picture(D, Q), m, Rate[m]) = Picture(D \cup {m}, Q)
<1> DEFINE E == D \cup {m}
<1>1. DOMAIN Q[m] = {}
  BY DEF NewAllocCollection
<1>2. \A c : Servers(E, Q, c) = Servers(D, Q, c)
  BY <1>1 DEF Servers
<1>3. Served(E, Q) = Served(D, Q) /\ \A c : ItemsFor(E, Q, c) = ItemsFor(D, Q, c)
  BY <1>2 DEF Served, ItemsFor
<1>4. [c \in Served(E, Q) |-> ItemsFor(E, Q, c)] = [c \in Served(D, Q) |-> ItemsFor(D, Q, c)]
  BY <1>3
<1>5. ItemsOf(m, Q[m]) = NewAllocCollection
  BY <1>1 DEF ItemsOf, NewAllocCollection
<1>6. Add([n \in D |-> ItemsOf(n, Q[n])], m, NewAllocCollection) = [n \in E |-> ItemsOf(n, Q[n])]
  <2> DEFINE f == [n \in D |-> ItemsOf(n, Q[n])]
  <2>1. {m} \cup DOMAIN f = E
    OBVIOUS
  <2>2. \A n \in E : (IF n = m THEN NewAllocCollection ELSE f[n]) = ItemsOf(n, Q[n])
    BY <1>5
  <2> HIDE DEF f
  <2>3. Add(f, m, NewAllocCollection) = [n \in E |-> ItemsOf(n, Q[n])]
    BY <2>1, <2>2 DEF Add
  <2> QED BY <2>3 DEF f
<1>7. Add([n \in D |-> Rate[n]], m, Rate[m]) = [n \in E |-> Rate[n]]
  <2> DEFINE f == [n \in D |-> Rate[n]]
  <2>1. {m} \cup DOMAIN f = E
    OBVIOUS
  <2>2. \A n \in E : (IF n = m THEN Rate[m] ELSE f[n]) = Rate[n]
    OBVIOUS
  <2> HIDE DEF f
  <2>3. Add(f, m, Rate[m]) = [n \in E |-> Rate[n]]
    BY <2>1, <2>2 DEF Add
  <2> QED BY <2>3 DEF f
<1>8. SetMiner(Picture(D, Q), m, Rate[m]) =
         [contracts |-> [c \in Served(D, Q) |-> ItemsFor(D, Q, c)],
          miners |-> Add([n \in D |-> ItemsOf(n, Q[n])], m, NewAllocCollection),
          hashrates |-> Add([n \in D |-> Rate[n]], m, Rate[m])]
  <2>1. Miner(Picture(D, Q), m) = NewAllocCollection
    <3>1. Picture(D, Q).miners = [n \in D |-> ItemsOf(n, Q[n])]
      BY DEF Picture
    <3> QED BY <3>1 DEF Miner, Collection
  <2> QED BY <2>1, PictureFields DEF SetMiner
<1> QED
  BY <1>4, <1>6, <1>7, <1>8 DEF Picture

\* A share is read.
LEMMA PictureShare ==
  ASSUME NEW D \in SUBSET Miners, NEW Q, Readings(Q), NEW m \in D, NEW c \in Contracts, NEW p
  PROVE  Set(Picture(D, Q), m, c, p, Rate[m]) = Picture(D, [Q EXCEPT ![m] = Add(Q[m], c, p)])
<1> DEFINE q == Add(Q[m], c, p)
           P == [Q EXCEPT ![m] = q]
           item == AllocItem(m, c, p, Rate[m])
           known == SetMiner(Picture(D, Q), m, Rate[m])
<1>1. /\ DOMAIN q = {c} \cup DOMAIN Q[m] /\ q[c] = p
      /\ \A d \in DOMAIN Q[m] : d # c => q[d] = Q[m][d]
  BY DEF Add
<1>0. /\ \A d \in Contracts : Contract(Picture(D, Q), d) = ItemsFor(D, Q, d)
      /\ \A n \in D : Miner(Picture(D, Q), n) = ItemsOf(n, Q[n])
      /\ Picture(D, Q).miners = [n \in D |-> ItemsOf(n, Q[n])]
      /\ Picture(D, Q).hashrates = [n \in D |-> Rate[n]]
      /\ Picture(D, Q).contracts = [d \in Served(D, Q) |-> ItemsFor(D, Q, d)]
  BY PictureFields, PictureContract, PictureOfMiner
<1> HIDE DEF q
<1>2. P[m] = q /\ \A n \in D : n # m => P[n] = Q[n]
  BY DEF Readings
<1> HIDE DEF P
<1>3. known = Picture(D, Q)
  <2> DEFINE f == [n \in D |-> ItemsOf(n, Q[n])]
             h == [n \in D |-> Rate[n]]
  <2>1. f \in [D -> {ItemsOf(n, Q[n]) : n \in D}] /\ f[m] = ItemsOf(m, Q[m])
    OBVIOUS
  <2>2. h \in [D -> {Rate[n] : n \in D}] /\ h[m] = Rate[m]
    OBVIOUS
  <2> HIDE DEF f, h
  <2>3. Add(f, m, f[m]) = f /\ Add(h, m, h[m]) = h
    BY <2>1, <2>2, AddSame
  <2>4. Picture(D, Q).miners = f /\ Picture(D, Q).hashrates = h /\ Miner(Picture(D, Q), m) = f[m]
    <3>1. Miner(Picture(D, Q), m) = ItemsOf(m, Q[m])
      BY <1>0
    <3> QED BY <1>0, <2>1, <3>1 DEF f, h
  <2>5. known = [contracts |-> Picture(D, Q).contracts, miners |-> f, hashrates |-> h]
    BY <2>2, <2>3, <2>4 DEF SetMiner
  <2> QED BY <1>0, <2>4, <2>5 DEF Picture, f, h
<1>4. Servers(D, P, c) = {m} \cup Servers(D, Q, c)
  BY <1>1, <1>2 DEF Servers
<1>5. \A d : d # c => Servers(D, P, d) = Servers(D, Q, d)
  BY <1>1, <1>2 DEF Servers
<1>6. Add(ItemsFor(D, Q, c), m, item) = ItemsFor(D, P, c)
  <2> DEFINE f == ItemsFor(D, Q, c)
  <2>1. /\ DOMAIN f = Servers(D, Q, c)
        /\ \A n \in Servers(D, Q, c) : f[n] = AllocItem(n, c, Q[n][c], Rate[n])
    BY DEF ItemsFor
  <2> HIDE DEF f
  <2>2. \A n \in Servers(D, P, c) : (IF n = m THEN item ELSE f[n]) = AllocItem(n, c, P[n][c], Rate[n])
    <3> SUFFICES ASSUME NEW n \in Servers(D, P, c)
                 PROVE  (IF n = m THEN item ELSE f[n]) = AllocItem(n, c, P[n][c], Rate[n])
      OBVIOUS
    <3>1. CASE n = m
      BY <1>1, <1>2, <3>1
    <3>2. CASE n # m
      <4>1. n \in D /\ n \in Servers(D, Q, c) /\ P[n] = Q[n]
        BY <1>2, <1>4, <3>2 DEF Servers
      <4> QED BY <2>1, <3>2, <4>1
    <3> QED BY <3>1, <3>2
  <2> HIDE DEF item
  <2> QED BY <1>4, <2>1, <2>2 DEF Add, ItemsFor, f
<1>7. \A d : d # c => ItemsFor(D, P, d) = ItemsFor(D, Q, d)
  <2> SUFFICES ASSUME NEW d, d # c PROVE ItemsFor(D, P, d) = ItemsFor(D, Q, d)
    OBVIOUS
  <2>1. \A n \in Servers(D, Q, d) : P[n][d] = Q[n][d]
    BY <1>1, <1>2 DEF Servers
  <2> QED BY <1>5, <2>1 DEF ItemsFor
<1>8. Served(D, P) = {c} \cup Served(D, Q)
  BY <1>4, <1>5 DEF Served
<1>9. Add([d \in Served(D, Q) |-> ItemsFor(D, Q, d)], c, ItemsFor(D, P, c))
         = [d \in Served(D, P) |-> ItemsFor(D, P, d)]
  <2> DEFINE f == [d \in Served(D, Q) |-> ItemsFor(D, Q, d)]
  <2>1. {c} \cup DOMAIN f = Served(D, P)
    BY <1>8
  <2>2. \A d \in Served(D, P) : (IF d = c THEN ItemsFor(D, P, c) ELSE f[d]) = ItemsFor(D, P, d)
    BY <1>7, <1>8
  <2> HIDE DEF f
  <2>3. Add(f, c, ItemsFor(D, P, c)) = [d \in Served(D, P) |-> ItemsFor(D, P, d)]
    BY <2>1, <2>2 DEF Add
  <2> QED BY <2>3 DEF f
<1>10. Add(ItemsOf(m, Q[m]), c, item) = ItemsOf(m, P[m])
  <2> DEFINE f == ItemsOf(m, Q[m])
  <2>1. DOMAIN f = DOMAIN Q[m] /\ \A d \in DOMAIN Q[m] : f[d] = AllocItem(m, d, Q[m][d], Rate[m])
    BY DEF ItemsOf
  <2> HIDE DEF f
  <2>2. \A d \in DOMAIN q : (IF d = c THEN item ELSE f[d]) = AllocItem(m, d, q[d], Rate[m])
    BY <1>1, <2>1
  <2> HIDE DEF item
  <2>3. Add(f, c, item) = ItemsOf(m, q)
    BY <1>1, <2>1, <2>2 DEF Add, ItemsOf
  <2> QED BY <1>2, <2>3 DEF f
<1>11. Add([n \in D |-> ItemsOf(n, Q[n])], m, ItemsOf(m, P[m])) = [n \in D |-> ItemsOf(n, P[n])]
  <2> DEFINE f == [n \in D |-> ItemsOf(n, Q[n])]
  <2>1. {m} \cup DOMAIN f = D
    OBVIOUS
  <2>2. \A n \in D : (IF n = m THEN ItemsOf(m, P[m]) ELSE f[n]) = ItemsOf(n, P[n])
    BY <1>2
  <2> HIDE DEF f
  <2>3. Add(f, m, ItemsOf(m, P[m])) = [n \in D |-> ItemsOf(n, P[n])]
    BY <2>1, <2>2 DEF Add
  <2> QED BY <2>3 DEF f
<1>12. Set(Picture(D, Q), m, c, p, Rate[m]) =
          [contracts |-> Add(known.contracts, c, Add(Contract(known, c), m, item)),
           miners |-> Add(known.miners, m, Add(Miner(known, m), c, item)),
           hashrates |-> known.hashrates]
  BY DEF Set
<1> HIDE DEF known, item
<1>13. Set(Picture(D, Q), m, c, p, Rate[m]) =
          [contracts |-> Add([d \in Served(D, Q) |-> ItemsFor(D, Q, d)], c, ItemsFor(D, P, c)),
           miners |-> Add([n \in D |-> ItemsOf(n, Q[n])], m, ItemsOf(m, P[m])),
           hashrates |-> [n \in D |-> Rate[n]]]
  <2>1. Contract(known, c) = ItemsFor(D, Q, c) /\ Miner(known, m) = ItemsOf(m, Q[m])
    BY <1>0, <1>3
  <2>2. /\ known.contracts = [d \in Served(D, Q) |-> ItemsFor(D, Q, d)]
        /\ known.miners = [n \in D |-> ItemsOf(n, Q[n])]
        /\ known.hashrates = [n \in D |-> Rate[n]]
    BY <1>0, <1>3
  <2> QED BY <1>6, <1>10, <1>12, <2>1, <2>2
<1>14. Set(Picture(D, Q), m, c, p, Rate[m]) = Picture(D, P)
  BY <1>9, <1>11, <1>13 DEF Picture
<1> QED
  BY <1>14 DEF P, q

\* What the shares at positions x say: of two shares of one contract the later one.
SeenAt(s, x) == [c \in {s[i].id : i \in x} |-> s[Max({i \in x : s[i].id = c})].pct]
Seen(s) == SeenAt(s, DOMAIN s)

LEMMA SeenNone == \A s : SeenAt(s, {}) = NewAllocCollection
BY DEF SeenAt, NewAllocCollection

LEMMA MaxIs ==
  ASSUME NEW S \in SUBSET Nat, NEW k \in S, \A y \in S : k >= y
  PROVE  Max(S) = k
<1>1. \A z \in S : (\A y \in S : z >= y) => z = k
  OBVIOUS
<1> QED
  BY <1>1 DEF Max

LEMMA SeenNext ==
  ASSUME NEW I, NEW s \in Splits(I), NEW x \in SUBSET DOMAIN s, x # {}
  PROVE  /\ Max(x) \in x
         /\ SeenAt(s, x) = Add(SeenAt(s, x \ {Max(x)}), s[Max(x)].id, s[Max(x)].pct)
<1> DEFINE k == Max(x)
           y == x \ {k}
           f == SeenAt(s, y)
           Of(z, c) == {i \in z : s[i].id = c}
<1>0. DOMAIN s = 1..Len(s) /\ Len(s) \in Nat
  BY ShareType
<1>1. IsFiniteSet(x) /\ x \in SUBSET Nat
  <2>1. IsFiniteSet(DOMAIN s) /\ x \subseteq DOMAIN s
    BY <1>0, FS_Interval
  <2>2. IsFiniteSet(x)
    BY <2>1, FS_Subset
  <2> QED BY <1>0, <2>1, <2>2
<1>2. k \in x
  BY <1>1, MaxOfFinite
<1>3. \A i \in x : k >= i
  <2>1. \E j \in x : \A i \in x : j >= i
    <3> DEFINE T == {i \in Nat : \A j \in x : i >= j}
    <3>1. Len(s) \in T
      BY <1>0
    <3>2. PICK i \in T : \A j \in T : i <= j
      <4>1. T \in SUBSET Nat /\ T # {}
        BY <3>1
      <4> HIDE DEF T
      <4> QED BY <4>1, Least
    <3>3. CASE i \in x
      BY <3>2, <3>3
    <3>4. CASE i \notin x
      <4>1. \A j \in x : i >= j /\ i # j /\ j \in Nat
        BY <1>1, <3>2, <3>4
      <4>2. i # 0
        BY <4>1
      <4>3. i - 1 \in T
        BY <3>2, <4>1, <4>2
      <4> QED BY <3>2, <4>3
    <3> QED BY <3>3, <3>4
  <2> QED BY <2>1 DEF Max
<1> HIDE DEF k
<1>4. DOMAIN f = {s[i].id : i \in y} /\ \A c \in DOMAIN f : f[c] = s[Max(Of(y, c))].pct
  BY DEF SeenAt
<1>5. {s[i].id : i \in x} = {s[k].id} \cup {s[i].id : i \in y}
  BY <1>2
<1>6. ASSUME NEW c \in {s[i].id : i \in x}
      PROVE  (IF c = s[k].id THEN s[k].pct ELSE f[c]) = s[Max(Of(x, c))].pct
  <2>1. CASE c = s[k].id
    <3>1. Of(x, c) \in SUBSET Nat /\ k \in Of(x, c) /\ \A i \in Of(x, c) : k >= i
      BY <1>1, <1>2, <1>3, <2>1
    <3> HIDE DEF Of
    <3>2. Max(Of(x, c)) = k
      BY <3>1, MaxIs
    <3> QED BY <2>1, <3>2
  <2>2. CASE c # s[k].id
    <3>1. Of(x, c) = Of(y, c)
      BY <2>2
    <3>2. c \in DOMAIN f
      BY <1>4, <1>5, <2>2
    <3> HIDE DEF Of, f
    <3> QED BY <1>4, <2>2, <3>1, <3>2
  <2> QED BY <2>1, <2>2
<1> HIDE DEF f
<1>7. Add(f, s[k].id, s[k].pct) = [c \in {s[i].id : i \in x} |-> s[Max(Of(x, c))].pct]
  BY <1>4, <1>5, <1>6 DEF Add
<1>8. SeenAt(s, x) = [c \in {s[i].id : i \in x} |-> s[Max(Of(x, c))].pct]
  BY DEF SeenAt
<1> QED
  BY <1>2, <1>7, <1>8 DEF f, k

\* Two functions on the subsets of S that take the elements in the same order, one at a
\* time, and agree on the next set when they agree on the one before.
InStep(g, h, last, S) ==
    /\ g[{}] = h[{}]
    /\ \A s \in SUBSET S : s # {} /\ g[s \ {last[s]}] = h[s \ {last[s]}] => g[s] = h[s]

LEMMA SameTable ==
  ASSUME NEW S, IsFiniteSet(S), NEW last, \A s \in SUBSET S : s # {} => last[s] \in s,
         NEW g, NEW h, InStep(g, h, last, S)
  PROVE  g[S] = h[S]
<1> DEFINE Wrong == {k \in Nat : \E s \in SUBSET S : Cardinality(s) = k /\ g[s] # h[s]}
<1>1. Wrong = {}
  <2> SUFFICES ASSUME NEW m \in Wrong, \A k \in Wrong : m <= k PROVE FALSE
    BY Least
  <2>1. PICK s \in SUBSET S : Cardinality(s) = m /\ g[s] # h[s]
    OBVIOUS
  <2>2. s # {}
    BY <2>1 DEF InStep
  <2> DEFINE r == s \ {last[s]}
  <2>3. r \in SUBSET S /\ Cardinality(r) = m - 1 /\ m - 1 \in Nat
    <3>1. IsFiniteSet(s) /\ last[s] \in s
      BY <2>2, FS_Subset
    <3>2. Cardinality(r) = Cardinality(s) - 1 /\ IsFiniteSet(r)
      BY <3>1, FS_RemoveElement
    <3>3. Cardinality(r) \in Nat
      BY <3>2, FS_CardinalityType
    <3> QED BY <2>1, <3>2, <3>3
  <2>4. m - 1 \notin Wrong
    BY <2>3
  <2>5. g[r] = h[r]
    BY <2>3, <2>4
  <2> QED BY <2>1, <2>2, <2>5 DEF InStep
<1>2. Cardinality(S) \in Nat
  BY FS_CardinalityType
<1> QED
  BY <1>1, <1>2

ReadShares(snap, m, s) ==
    FoldLeft(LAMBDA sn, share : Set(sn, m, share.id, share.pct, Rate[m]),
             SetMiner(snap, m, Rate[m]), s)

LEMMA SharesRead ==
  ASSUME NEW D \in SUBSET Miners, NEW Q, Readings(Q), NEW m \in Miners \ D,
         Q[m] = NewAllocCollection, NEW s \in Splits(Contracts)
  PROVE  ReadShares(Picture(D, Q), m, s) = Picture(D \cup {m}, [Q EXCEPT ![m] = Seen(s)])
<1> DEFINE E == D \cup {m}
           X == DOMAIN s
           P(x) == [Q EXCEPT ![m] = SeenAt(s, x)]
           base == SetMiner(Picture(D, Q), m, Rate[m])
           Rec(h) == h = [x \in SUBSET X |->
                            IF x = {} THEN base
                            ELSE Set(h[x \ {Max(x)}], m, s[Max(x)].id, s[Max(x)].pct, Rate[m])]
           t == CHOOSE h : Rec(h)
           g == [x \in SUBSET X |-> Picture(E, P(x))]
           last == [x \in SUBSET X |-> Max(x)]
<1>1. ReadShares(Picture(D, Q), m, s) = t[X]
  BY DEF ReadShares, FoldLeft, MapThenFoldSet
<1>2. \A x \in SUBSET X : g[x] = Picture(E, P(x))
  OBVIOUS
<1>3. E \in SUBSET Miners /\ m \in E
  OBVIOUS
<1>4. X = 1..Len(s) /\ Len(s) \in Nat /\ \A i \in X : s[i].id \in Contracts
  BY ShareType
<1>5. \A x \in SUBSET X : x # {} => /\ Max(x) \in x
                                    /\ SeenAt(s, x) = Add(SeenAt(s, x \ {Max(x)}), s[Max(x)].id, s[Max(x)].pct)
  BY SeenNext
<1>6. \A x \in SUBSET X : DOMAIN SeenAt(s, x) \subseteq Contracts
  BY <1>4 DEF SeenAt
<1>7. \A x \in SUBSET X : Readings(P(x)) /\ P(x)[m] = SeenAt(s, x)
  BY <1>6 DEF Readings
<1>8. g[{}] = base
  <2>1. P({})[m] = Q[m] /\ \A n \in E : P({})[n] = Q[n]
    BY <1>7, SeenNone DEF Readings
  <2>2. Picture(E, P({})) = Picture(E, Q)
    <3> HIDE DEF P
    <3> QED BY <2>1, SamePicture
  <2>3. base = Picture(E, Q)
    BY PictureMiner
  <2> QED BY <1>2, <2>2, <2>3
<1>9. ASSUME NEW x \in SUBSET X, x # {}
      PROVE  g[x] = Set(g[x \ {Max(x)}], m, s[Max(x)].id, s[Max(x)].pct, Rate[m])
  <2> DEFINE y == x \ {Max(x)}
             c == s[Max(x)].id
             p == s[Max(x)].pct
             Py == P(y)
  <2>1. y \in SUBSET X /\ c \in Contracts /\ SeenAt(s, x) = Add(SeenAt(s, y), c, p)
    BY <1>4, <1>5, <1>9
  <2>2. Readings(Py) /\ Py[m] = SeenAt(s, y)
    BY <1>7, <2>1
  <2>3. P(x) = [Py EXCEPT ![m] = Add(Py[m], c, p)]
    <3>1. Add(Py[m], c, p) = SeenAt(s, x)
      BY <2>1, <2>2
    <3>2. P(x) = [Py EXCEPT ![m] = SeenAt(s, x)]
      BY DEF Readings
    <3> QED BY <3>1, <3>2
  <2>4. g[y] = Picture(E, Py) /\ g[x] = Picture(E, P(x))
    BY <1>2, <2>1
  <2> HIDE DEF Py, c, p, g, P
  <2>5. Set(Picture(E, Py), m, c, p, Rate[m]) = Picture(E, [Py EXCEPT ![m] = Add(Py[m], c, p)])
    <3> HIDE DEF E, y
    <3> QED BY <1>3, <2>1, <2>2, PictureShare
  <2>6. g[x] = Set(g[y], m, c, p, Rate[m])
    BY <2>3, <2>4, <2>5
  <2> QED BY <2>6 DEF c, p
<1> HIDE DEF base
<1>10. g = [x \in SUBSET X |-> g[x]]
  OBVIOUS
<1> HIDE DEF g
<1>11. Rec(g)
  BY <1>8, <1>9, <1>10
<1>12. Rec(t)
  BY <1>11
<1> HIDE DEF t
<1>13. t[{}] = base
       /\ \A x \in SUBSET X : x # {} =>
             t[x] = Set(t[x \ {Max(x)}], m, s[Max(x)].id, s[Max(x)].pct, Rate[m])
  BY <1>12
<1>14. \A x \in SUBSET X : last[x] = Max(x)
  OBVIOUS
<1> HIDE DEF last
<1>15. InStep(t, g, last, X)
  BY <1>8, <1>9, <1>13, <1>14, ZenonT(30) DEF InStep
<1>16. IsFiniteSet(X)
  BY <1>4, FS_Interval
<1>17. t[X] = g[X]
  BY <1>5, <1>14, <1>15, <1>16, SameTable
<1> QED
  BY <1>1, <1>2, <1>17 DEF Seen

AllSeen(sp) == [m \in Miners |-> Seen(sp[m])]

LEMMA SeenValues ==
  ASSUME NEW I, NEW s \in Splits(I)
  PROVE  /\ DOMAIN Seen(s) = Holders(s) /\ IsFiniteSet(Holders(s)) /\ Holders(s) \subseteq I
         /\ \A c \in Holders(s) : \E i \in DOMAIN s : s[i].id = c /\ Seen(s)[c] = s[i].pct
         /\ \A c \in Holders(s) : Seen(s)[c] \in Int
         /\ NoDuplicates(s) => \A i \in DOMAIN s : Seen(s)[s[i].id] = s[i].pct
<1> DEFINE Of(c) == {i \in DOMAIN s : s[i].id = c}
<1>1. DOMAIN s = 1..Len(s) /\ Len(s) \in Nat /\ \A i \in DOMAIN s : s[i].id \in I /\ s[i].pct \in Int
  BY ShareType
<1>2. DOMAIN Seen(s) = Holders(s) /\ \A c \in Holders(s) : Seen(s)[c] = s[Max(Of(c))].pct
  BY DEF Seen, SeenAt, Holders
<1>3. IsFiniteSet(Holders(s))
  <2>1. IsFiniteSet(DOMAIN s)
    <3>1. PICK n \in Nat : n = Len(s)
      BY <1>1
    <3>2. IsFiniteSet(1..n)
      BY <3>1, FS_Interval
    <3> QED BY <1>1, <3>1, <3>2
  <2> DEFINE f == [i \in DOMAIN s |-> s[i].id]
  <2>2. Holders(s) = {f[i] : i \in DOMAIN s}
    BY DEF Holders
  <2>3. f \in Surjection(DOMAIN s, Holders(s))
    BY DEF Surjection, Holders
  <2> QED BY <2>1, <2>3, FS_Surjection
<1>4. Holders(s) \subseteq I
  BY <1>1 DEF Holders
<1>5. ASSUME NEW c \in Holders(s) PROVE Max(Of(c)) \in Of(c)
  <2>1. Of(c) # {} /\ Of(c) \in SUBSET (1..Len(s))
    BY <1>1 DEF Holders
  <2> HIDE DEF Of
  <2> QED BY <1>1, <2>1, MaxOfSome
<1>6. \A c \in Holders(s) : \E i \in DOMAIN s : s[i].id = c /\ Seen(s)[c] = s[i].pct
  BY <1>2, <1>5
<1>7. \A c \in Holders(s) : Seen(s)[c] \in Int
  BY <1>1, <1>6
<1>8. ASSUME NoDuplicates(s), NEW i \in DOMAIN s PROVE Seen(s)[s[i].id] = s[i].pct
  <2>1. PICK j \in DOMAIN s : s[j].id = s[i].id /\ Seen(s)[s[i].id] = s[j].pct
    <3>1. s[i].id \in Holders(s)
      BY DEF Holders
    <3> QED BY <1>6, <3>1
  <2> QED BY <1>8, <2>1 DEF NoDuplicates
<1> QED
  BY <1>2, <1>3, <1>4, <1>6, <1>7, <1>8

\* Where no contract has two shares, the shares read add up to what is allocated.
LEMMA SumOfShares ==
  ASSUME NEW I, NEW s \in Splits(I), NoDuplicates(s), NEW f,
         \A i \in DOMAIN s : f[s[i].id] = s[i].pct
  PROVE  SumFunctionOnSet(f, Holders(s)) = GetAllocated(s)
<1> DEFINE n == Len(s)
           S == Holders(s)
           T == Totals(s)
           Upto(k) == {s[i].id : i \in 1..k}
           H == {k \in 0..n : SumFunctionOnSet(f, Upto(k)) = T[k]}
<1>1. DOMAIN s = 1..n /\ n \in Nat /\ \A i \in DOMAIN s : s[i].pct \in Int
  BY ShareType
<1>2. IsFiniteSet(S) /\ \A c \in S : f[c] \in Int
  <2>1. \A c \in S : \E i \in DOMAIN s : c = s[i].id
    BY DEF Holders
  <2> QED BY <1>1, <2>1, SeenValues
<1>3. T[0] = 0 /\ GetAllocated(s) = T[n] /\ \A i \in 1..n : T[i] = T[i - 1] + s[i].pct /\ T[i - 1] \in Int
  <2>1. \A i \in 1..n : i - 1 \in 0..n
    BY <1>1
  <2> QED BY <2>1, TotalInt
<1> HIDE DEF T, n
<1>4. 0 \in H
  <2>1. Upto(0) = {} /\ 0 \in 0..n
    BY <1>1
  <2> QED BY <1>3, <2>1, SumEmpty
<1>5. ASSUME NEW k \in 0..n, k \in H, k < n PROVE k + 1 \in H
  <2>1. k + 1 \in 1..n /\ (k + 1) - 1 = k /\ k + 1 \in DOMAIN s /\ k \in Nat /\ k + 1 \in 0..n
    BY <1>1, <1>5
  <2>2. Upto(k + 1) = Upto(k) \cup {s[k + 1].id}
    <3>1. \A i : i \in 1..(k + 1) <=> i \in 1..k \/ i = k + 1
      BY <2>1
    <3> QED BY <3>1
  <2>3. \A i \in 1..k : i \in DOMAIN s /\ i # k + 1
    BY <1>1, <1>5
  <2>4. Upto(k) \in SUBSET S /\ s[k + 1].id \in S \ Upto(k)
    BY <2>1, <2>3 DEF NoDuplicates, Holders
  <2> HIDE DEF Upto, S
  <2>5. SumFunctionOnSet(f, Upto(k) \cup {s[k + 1].id}) = f[s[k + 1].id] + SumFunctionOnSet(f, Upto(k))
    BY <1>2, <2>4, SumAdd
  <2>6. SumFunctionOnSet(f, Upto(k)) = T[k] /\ T[k + 1] = T[k] + s[k + 1].pct /\ T[k] \in Int
        /\ f[s[k + 1].id] = s[k + 1].pct /\ s[k + 1].pct \in Int
    BY <1>1, <1>3, <1>5, <2>1
  <2>7. SumFunctionOnSet(f, Upto(k + 1)) = T[k + 1]
    <3>1. SumFunctionOnSet(f, Upto(k + 1)) = s[k + 1].pct + T[k]
      BY <2>2, <2>5, <2>6
    <3>2. s[k + 1].pct + T[k] = T[k + 1]
      BY <2>6
    <3> QED BY <3>1, <3>2
  <2> QED BY <2>1, <2>7
<1>6. n \in H
  <2>1. \A k \in 0..n : k \in H /\ k < n => k + 1 \in H
    BY <1>5
  <2> HIDE DEF H
  <2> QED BY <1>1, <1>4, <2>1, Induction
<1>7. Upto(n) = S
  BY <1>1 DEF Holders
<1> QED
  BY <1>3, <1>6, <1>7

\* The snapshot is the picture of all that the splits say.
LEMMA SnapshotPictures ==
  ASSUME NEW sp \in [Miners -> Splits(Contracts)], NEW V \in SUBSET Miners
  PROVE  CreateMinerSnapshot(sp, V, Rate) = Picture(V, AllSeen(sp))
<1> DEFINE Rec(h) == h = [x \in SUBSET V |->
                            IF x = {} THEN NewAllocSnap
                            ELSE ReadShares(h[x \ {CHOOSE y \in x : TRUE}], CHOOSE y \in x : TRUE,
                                            sp[CHOOSE y \in x : TRUE])]
           t == CHOOSE h : Rec(h)
           Q == AllSeen(sp)
           g == [x \in SUBSET V |-> Picture(x, Q)]
           last == [x \in SUBSET V |-> CHOOSE y \in x : TRUE]
<1>1. CreateMinerSnapshot(sp, V, Rate) = t[V]
  BY DEF CreateMinerSnapshot, FoldSet, MapThenFoldSet, ReadShares
<1>2. \A x \in SUBSET V : g[x] = Picture(x, Q)
  OBVIOUS
<1>3. \A x \in SUBSET V : x # {} => last[x] \in x
  OBVIOUS
<1>4. \A x \in SUBSET V : last[x] = CHOOSE y \in x : TRUE
  OBVIOUS
<1>5. DOMAIN Q = Miners /\ \A m \in Miners : Q[m] = Seen(sp[m]) /\ DOMAIN Q[m] \subseteq Contracts
  <2>1. \A m \in Miners : sp[m] \in Splits(Contracts)
    OBVIOUS
  <2>2. \A m \in Miners : DOMAIN Seen(sp[m]) \subseteq Contracts
    BY <2>1, SeenValues
  <2> QED BY <2>2 DEF AllSeen
<1> HIDE DEF Q, last
<1>6. g[{}] = NewAllocSnap
  <2>1. Served({}, Q) = {}
    BY DEF Served, Servers
  <2>2. [c \in Served({}, Q) |-> ItemsFor({}, Q, c)] = <<>>
    BY <2>1
  <2>3. [m \in {} |-> ItemsOf(m, Q[m])] = <<>> /\ [m \in {} |-> Rate[m]] = <<>>
    OBVIOUS
  <2>4. Picture({}, Q) = NewAllocSnap
    BY <2>2, <2>3 DEF Picture, NewAllocSnap, NewAllocCollection
  <2> QED BY <1>2, <2>4
<1>7. ASSUME NEW x \in SUBSET V, x # {}
      PROVE  g[x] = ReadShares(g[x \ {last[x]}], last[x], sp[last[x]])
  <2> DEFINE m == last[x]
             D == x \ {m}
             P == [Q EXCEPT ![m] = NewAllocCollection]
  <2>1. m \in x /\ m \in Miners /\ D \in SUBSET Miners /\ m \notin D /\ D \cup {m} = x
        /\ D \in SUBSET V
    BY <1>3, <1>7
  <2> HIDE DEF m, D
  <2>2. Readings(P) /\ P[m] = NewAllocCollection /\ \A n \in D : P[n] = Q[n]
    <3>1. DOMAIN NewAllocCollection = {}
      BY DEF NewAllocCollection
    <3> QED BY <1>5, <2>1, <3>1 DEF Readings
  <2>3. Picture(D, P) = Picture(D, Q)
    <3> HIDE DEF P
    <3> QED BY <2>2, SamePicture
  <2>4. sp[m] \in Splits(Contracts)
    BY <2>1
  <2>5. ReadShares(Picture(D, P), m, sp[m]) = Picture(D \cup {m}, [P EXCEPT ![m] = Seen(sp[m])])
    <3> HIDE DEF P
    <3> QED BY <2>1, <2>2, <2>4, SharesRead
  <2>6. Picture(x, [P EXCEPT ![m] = Seen(sp[m])]) = Picture(x, Q)
    <3> DEFINE R == [P EXCEPT ![m] = Seen(sp[m])]
    <3>1. \A n \in x : R[n] = Q[n]
      BY <1>5, <2>1, <2>2 DEF Readings
    <3> HIDE DEF R
    <3>2. Picture(x, R) = Picture(x, Q)
      BY <3>1, SamePicture
    <3> QED BY <3>2 DEF R
  <2>7. g[D] = Picture(D, Q) /\ g[x] = Picture(x, Q)
    BY <1>2, <2>1
  <2> HIDE DEF g, P
  <2>8. g[x] = ReadShares(g[D], m, sp[m])
    BY <2>1, <2>3, <2>5, <2>6, <2>7
  <2> QED BY <2>8 DEF m, D
<1>8. g = [x \in SUBSET V |-> g[x]]
  OBVIOUS
<1> HIDE DEF g
<1>9. Rec(g)
  BY <1>4, <1>6, <1>7, <1>8
<1>10. Rec(t)
  BY <1>9
<1> HIDE DEF t
<1>11. t[{}] = NewAllocSnap
       /\ \A x \in SUBSET V : x # {} => t[x] = ReadShares(t[x \ {last[x]}], last[x], sp[last[x]])
  BY <1>4, <1>10
<1>12. InStep(t, g, last, V)
  BY <1>6, <1>7, <1>11 DEF InStep
<1>13. IsFiniteSet(V)
  BY MinersAssumption, FS_Subset
<1>14. t[V] = g[V]
  BY <1>3, <1>12, <1>13, SameTable
<1> QED
  BY <1>1, <1>2, <1>14 DEF Q

-----------------------------------------------------------------------------
(* What a loop takes from a snapshot.                                       *)

LEMMA SnapshotIs ==
  ASSUME NEW sp \in [Miners -> Splits(Contracts)], NEW V \in SUBSET Miners
  PROVE  /\ CreateMinerSnapshot(sp, V, Rate) = Picture(V, AllSeen(sp)) /\ IsFiniteSet(V)
         /\ \A m \in Miners : AllSeen(sp)[m] = Seen(sp[m]) /\ sp[m] \in Splits(Contracts)
BY SnapshotPictures, MinersAssumption, FS_Subset DEF AllSeen

LEMMA ItemGHS ==
  ASSUME NEW m \in Miners, NEW c, NEW p \in Int
  PROVE  /\ AllocatedGHS(AllocItem(m, c, p, Rate[m])) \in Int
         /\ AllocItem(m, c, p, Rate[m]).Fraction = p
<1>1. AllocatedGHS(AllocItem(m, c, p, Rate[m])) = GHS(m, p)
  BY DEF GHS, AllocatedGHS, AllocItem
<1> QED
  BY <1>1, GHSValue DEF AllocItem

LEMMA ItemReduced ==
  ASSUME NEW m, NEW c, NEW p, NEW q
  PROVE  [AllocItem(m, c, p, Rate[m]) EXCEPT !.Fraction = q] = AllocItem(m, c, q, Rate[m])
BY DEF AllocItem

\* The fraction of a miner that its items leave, where the splits are in order.
LEMMA RoomIs ==
  ASSUME NEW m \in Miners, NEW s \in Splits(Contracts)
  PROVE  /\ Unallocated(ItemsOf(m, Seen(s))) \in Int
         /\ NoDuplicates(s) => Unallocated(ItemsOf(m, Seen(s))) = GetUnallocated(s)
<1> DEFINE items == ItemsOf(m, Seen(s))
           f == [c \in DOMAIN items |-> items[c].Fraction]
<1>1. /\ DOMAIN Seen(s) = Holders(s) /\ IsFiniteSet(Holders(s))
      /\ \A c \in Holders(s) : Seen(s)[c] \in Int
      /\ NoDuplicates(s) => \A i \in DOMAIN s : Seen(s)[s[i].id] = s[i].pct
  BY SeenValues
<1>2. DOMAIN items = Holders(s) /\ \A c \in Holders(s) : items[c].Fraction = Seen(s)[c]
  BY <1>1 DEF ItemsOf, AllocItem
<1> HIDE DEF items
<1>3. DOMAIN f = Holders(s) /\ \A c \in Holders(s) : f[c] = Seen(s)[c]
  BY <1>2
<1>4. Unallocated(items) = Whole - SumFunctionOnSet(f, DOMAIN f)
  BY DEF Unallocated, SumFunction
<1> HIDE DEF f
<1>5. Unallocated(items) = Whole - SumFunctionOnSet(f, Holders(s))
  BY <1>3, <1>4
<1>6. SumFunctionOnSet(f, Holders(s)) \in Int
  BY <1>1, <1>3, SumType
<1>7. ASSUME NoDuplicates(s) PROVE Unallocated(items) = GetUnallocated(s)
  <2>1. \A i \in DOMAIN s : s[i].id \in Holders(s)
    BY DEF Holders
  <2>2. \A i \in DOMAIN s : f[s[i].id] = s[i].pct
    BY <1>1, <1>3, <1>7, <2>1
  <2>3. SumFunctionOnSet(f, Holders(s)) = GetAllocated(s)
    BY <1>7, <2>2, SumOfShares
  <2> QED BY <1>5, <2>3 DEF GetUnallocated
<1> QED
  BY <1>5, <1>6, <1>7, PlanNumbers DEF items

\* The miners that serve the contract, with their share and what they have left.
SnapFor(snap, c) == [m \in DOMAIN Contract(snap, c) |->
                       [have |-> Contract(snap, c)[m].Fraction, room |-> Unallocated(Miner(snap, m))]]

\* The snapshot tells of every miner that serves the contract.
SnapTells(snap, c, sp, V) ==
    /\ DOMAIN SnapFor(snap, c) = {m \in V : c \in Holders(sp[m])}
    /\ \A m \in DOMAIN SnapFor(snap, c) :
          /\ SnapFor(snap, c)[m].have \in Int /\ SnapFor(snap, c)[m].room \in Int
          /\ \E i \in DOMAIN sp[m] : /\ sp[m][i].id = c
                                     /\ sp[m][i].pct = SnapFor(snap, c)[m].have
          /\ NoDuplicates(sp[m]) => SnapFor(snap, c)[m].room = GetUnallocated(sp[m])

LEMMA SnapForIs ==
  ASSUME NEW sp \in [Miners -> Splits(Contracts)], NEW V \in SUBSET Miners,
         NEW snap, snap = CreateMinerSnapshot(sp, V, Rate), NEW c \in Contracts
  PROVE  SnapTells(snap, c, sp, V)
<1> DEFINE Q == AllSeen(sp)
           items == Contract(snap, c)
<1>1. /\ snap = Picture(V, Q)
      /\ \A m \in Miners : Q[m] = Seen(sp[m]) /\ sp[m] \in Splits(Contracts)
  BY SnapshotIs
<1> HIDE DEF Q
<1>2. items = ItemsFor(V, Q, c)
  BY <1>1, PictureContract
<1>3. \A m \in V : Miner(snap, m) = ItemsOf(m, Q[m])
  BY <1>1, PictureOfMiner
<1>4. \A m \in Miners : /\ DOMAIN Q[m] = Holders(sp[m])
                        /\ c \in Holders(sp[m]) => /\ Q[m][c] \in Int
                                                      /\ \E i \in DOMAIN sp[m] : sp[m][i].id = c /\ Q[m][c] = sp[m][i].pct
  BY <1>1, SeenValues
<1>5. Servers(V, Q, c) = {m \in V : c \in Holders(sp[m])}
  BY <1>1, <1>4 DEF Servers
<1>6. DOMAIN items = Servers(V, Q, c)
      /\ \A m \in Servers(V, Q, c) : items[m].Fraction = Q[m][c]
  BY <1>2 DEF ItemsFor, AllocItem
<1>7. SnapFor(snap, c) = [m \in DOMAIN items |-> [have |-> items[m].Fraction, room |-> Unallocated(Miner(snap, m))]]
  BY DEF SnapFor
<1> HIDE DEF items
<1>8. DOMAIN SnapFor(snap, c) = {m \in V : c \in Holders(sp[m])}
  BY <1>5, <1>6, <1>7
<1>9. ASSUME NEW m \in DOMAIN SnapFor(snap, c)
      PROVE  /\ SnapFor(snap, c)[m].have \in Int /\ SnapFor(snap, c)[m].room \in Int
             /\ \E i \in DOMAIN sp[m] : /\ sp[m][i].id = c
                                           /\ sp[m][i].pct = SnapFor(snap, c)[m].have
             /\ NoDuplicates(sp[m]) => SnapFor(snap, c)[m].room = GetUnallocated(sp[m])
  <2>1. m \in V /\ m \in Miners /\ c \in Holders(sp[m]) /\ m \in DOMAIN items
    BY <1>1, <1>5, <1>6, <1>8
  <2>2. SnapFor(snap, c)[m].have = Q[m][c] /\ SnapFor(snap, c)[m].room = Unallocated(Miner(snap, m))
    BY <1>5, <1>6, <1>7, <2>1
  <2>3. Unallocated(Miner(snap, m)) = Unallocated(ItemsOf(m, Seen(sp[m])))
    BY <1>1, <1>3, <2>1
  <2>4. /\ Unallocated(ItemsOf(m, Seen(sp[m]))) \in Int
        /\ NoDuplicates(sp[m]) => Unallocated(ItemsOf(m, Seen(sp[m]))) = GetUnallocated(sp[m])
    BY <1>1, <2>1, RoomIs
  <2> QED BY <1>4, <2>1, <2>2, <2>3, <2>4
<1> QED
  BY <1>8, <1>9 DEF SnapTells

LEMMA TotalType ==
  ASSUME NEW items, IsFiniteSet(DOMAIN items), \A x \in DOMAIN items : AllocatedGHS(items[x]) \in Int
  PROVE  TotalAllocated(items) \in Int
<1> DEFINE f == [x \in DOMAIN items |-> AllocatedGHS(items[x])]
<1>1. DOMAIN f = DOMAIN items /\ \A x \in DOMAIN items : f[x] \in Int
  OBVIOUS
<1>2. TotalAllocated(items) = SumFunctionOnSet(f, DOMAIN f)
  BY DEF TotalAllocated, SumFunction
<1> HIDE DEF f
<1> QED
  BY <1>1, <1>2, SumType

LEMMA ContractTotal ==
  ASSUME NEW sp \in [Miners -> Splits(Contracts)], NEW V \in SUBSET Miners,
         NEW snap, snap = CreateMinerSnapshot(sp, V, Rate), NEW c \in Contracts
  PROVE  TotalAllocated(Contract(snap, c)) \in Int
<1> DEFINE Q == AllSeen(sp)
           items == ItemsFor(V, Q, c)
<1>1. /\ snap = Picture(V, Q) /\ IsFiniteSet(V)
      /\ \A m \in Miners : Q[m] = Seen(sp[m]) /\ sp[m] \in Splits(Contracts)
  BY SnapshotIs
<1> HIDE DEF Q
<1>2. Contract(snap, c) = items
  BY <1>1, PictureContract
<1>3. DOMAIN items = Servers(V, Q, c) /\ Servers(V, Q, c) \subseteq V
  BY DEF ItemsFor, Servers
<1>4. \A m \in Servers(V, Q, c) : m \in Miners /\ Q[m][c] \in Int
  <2>1. \A m \in Miners : DOMAIN Seen(sp[m]) = Holders(sp[m])
                          /\ \A d \in Holders(sp[m]) : Seen(sp[m])[d] \in Int
    BY <1>1, SeenValues
  <2> QED BY <1>1, <2>1 DEF Servers
<1>5. \A m \in DOMAIN items : AllocatedGHS(items[m]) \in Int
  <2>1. \A m \in Servers(V, Q, c) : items[m] = AllocItem(m, c, Q[m][c], Rate[m])
    BY DEF ItemsFor
  <2> HIDE DEF items
  <2> QED BY <1>3, <1>4, <2>1, ItemGHS
<1>6. IsFiniteSet(DOMAIN items)
  BY <1>1, <1>3, FS_Subset
<1> HIDE DEF items
<1> QED
  BY <1>2, <1>5, <1>6, TotalType

\* Items of some miners, as Unreserved lists them and the search selects them.
AreItems(items) ==
    /\ DOMAIN items \subseteq Miners
    /\ \A m \in DOMAIN items : \E c, p : p \in Int /\ items[m] = AllocItem(m, c, p, Rate[m])
Among(comb, items) == AreItems(comb) /\ DOMAIN comb \subseteq DOMAIN items

LEMMA UnreservedItems ==
  ASSUME NEW sp \in [Miners -> Splits(Contracts)], NEW V \in SUBSET Miners,
         NEW snap, snap = CreateMinerSnapshot(sp, V, Rate)
  PROVE  AreItems(Unreserved(snap)) /\ DOMAIN Unreserved(snap) \subseteq V
<1> DEFINE Q == AllSeen(sp)
           free == [m \in DOMAIN snap.miners |-> Unallocated(snap.miners[m])]
           X == {n \in DOMAIN free : free[n] > 0}
<1>1. /\ snap = Picture(V, Q)
      /\ \A m \in Miners : Q[m] = Seen(sp[m]) /\ sp[m] \in Splits(Contracts)
  BY SnapshotIs
<1> HIDE DEF Q
<1>2. snap.miners = [m \in V |-> ItemsOf(m, Q[m])] /\ snap.hashrates = [m \in V |-> Rate[m]]
  <2>1. /\ Picture(V, Q).miners = [m \in V |-> ItemsOf(m, Q[m])]
        /\ Picture(V, Q).hashrates = [m \in V |-> Rate[m]]
    BY DEF Picture
  <2> QED BY <1>1, <2>1
<1>3. DOMAIN free = V /\ \A m \in V : free[m] = Unallocated(ItemsOf(m, Seen(sp[m])))
  BY <1>1, <1>2
<1>4. \A m \in V : free[m] \in Int
  BY <1>1, <1>3, RoomIs
<1>5. Unreserved(snap) = [m \in X |-> AllocItem(m, "", free[m], snap.hashrates[m])]
  BY DEF Unreserved
<1> HIDE DEF free
<1>6. X \subseteq V
  BY <1>3
<1> HIDE DEF X
<1>7. DOMAIN Unreserved(snap) = X
      /\ \A m \in X : Unreserved(snap)[m] = AllocItem(m, "", free[m], Rate[m]) /\ free[m] \in Int
  BY <1>2, <1>4, <1>5, <1>6
<1>8. DOMAIN Unreserved(snap) \subseteq V /\ AreItems(Unreserved(snap))
  BY <1>1, <1>6, <1>7 DEF AreItems
<1> QED
  BY <1>8

LEMMA ItemsTotal ==
  ASSUME NEW items, AreItems(items)
  PROVE  TotalAllocated(items) \in Int /\ IsFiniteSet(DOMAIN items) /\ DOMAIN items \subseteq Nat
<1>1. DOMAIN items \subseteq Miners /\ IsFiniteSet(DOMAIN items) /\ DOMAIN items \subseteq Nat
  <2>1. DOMAIN items \subseteq Miners
    BY DEF AreItems
  <2>2. Miners \subseteq Nat /\ IsFiniteSet(Miners)
    BY MinersAssumption
  <2> QED BY <2>1, <2>2, FS_Subset
<1>2. \A m \in DOMAIN items : AllocatedGHS(items[m]) \in Int
  <2> TAKE m \in DOMAIN items
  <2>1. PICK c, p : p \in Int /\ items[m] = AllocItem(m, c, p, Rate[m])
    BY DEF AreItems
  <2> QED BY <1>1, <2>1, ItemGHS
<1> QED
  BY <1>1, <1>2, TotalType

LEMMA RestrictedItems ==
  ASSUME NEW items, AreItems(items), NEW X \in SUBSET DOMAIN items
  PROVE  Among(Restrict(items, X), items)
BY DEF AreItems, Among, Restrict

LEMMA FoundItems ==
  ASSUME NEW items, AreItems(items), NEW target, NEW comb \in FindCombinations(items, target)
  PROVE  Among(comb, items)
<1> DEFINE a == [m \in DOMAIN items |-> AllocatedGHS(items[m])]
<1>1. PICK x \in Outcomes(a, target) : comb = Restrict(items, x)
  BY DEF FindCombinations
<1>2. DOMAIN a = DOMAIN items /\ IsFiniteSet(DOMAIN a) /\ DOMAIN a \subseteq Nat
  BY ItemsTotal
<1> HIDE DEF a
<1>3. x \in SUBSET DOMAIN items
  BY <1>2, OutcomesOffered
<1> QED
  BY <1>1, <1>3, RestrictedItems

LEMMA TrimmedItems ==
  ASSUME NEW items, AreItems(items), NEW over \in Int, NEW r \in Trimmed(items, over)
  PROVE  Among(r.comb, items)
<1> DEFINE best == getBestMinerToReduceHashrate(items, over)
<1>1. \/ r = [comb |-> items, accurate |-> over <= 0]
      \/ \E m \in best : r = [comb |-> ReduceMinerAllocation(items, m, over), accurate |-> TRUE]
  BY DEF Trimmed
<1>2. best \subseteq DOMAIN items
  BY DEF getBestMinerToReduceHashrate, Reducible
<1> HIDE DEF best
<1>3. CASE r = [comb |-> items, accurate |-> over <= 0]
  BY <1>3 DEF Among
<1>4. ASSUME NEW m \in best, r = [comb |-> ReduceMinerAllocation(items, m, over), accurate |-> TRUE]
      PROVE  Among(r.comb, items)
  <2>1. m \in DOMAIN items /\ m \in Miners
    BY <1>2 DEF AreItems
  <2>2. PICK c, p : p \in Int /\ items[m] = AllocItem(m, c, p, Rate[m])
    BY <2>1 DEF AreItems
  <2> DEFINE q == p - Parts(m, over)
             new == [items EXCEPT ![m] = AllocItem(m, c, q, Rate[m])]
  <2>3. q \in Int
    BY <2>1, <2>2, PartsValue
  <2>4. items[m].Fraction = p
    BY <2>1, <2>2, ItemGHS
  <2>5. ReduceMinerAllocation(items, m, over) = [items EXCEPT ![m].Fraction = q]
    BY <2>1, <2>4 DEF ReduceMinerAllocation
  <2> HIDE DEF q
  <2>6. [items[m] EXCEPT !.Fraction = q] = AllocItem(m, c, q, Rate[m])
    BY <2>2, ItemReduced
  <2>7. [items EXCEPT ![m].Fraction = q] = new
    BY <2>6
  <2>8. DOMAIN new = DOMAIN items /\ new[m] = AllocItem(m, c, q, Rate[m])
        /\ \A n \in DOMAIN items : n # m => new[n] = items[n]
    BY <2>1
  <2>9. r.comb = new
    BY <1>4, <2>5, <2>7
  <2> HIDE DEF new
  <2>10. Among(new, items)
    BY <2>3, <2>8 DEF Among, AreItems
  <2> QED BY <2>9, <2>10
<1> QED
  BY <1>1, <1>3, <1>4

LEMMA AttemptItems ==
  ASSUME NEW items, AreItems(items), NEW target \in Int, NEW r \in getAllocateComb(items, target)
  PROVE  Among(r.comb, items)
<1>1. PICK comb \in FindCombinations(items, target) : r \in Trimmed(comb, TotalAllocated(comb) - target)
  BY DEF getAllocateComb
<1>2. Among(comb, items)
  BY <1>1, FoundItems
<1>3. AreItems(comb) /\ DOMAIN comb \subseteq DOMAIN items
  BY <1>2 DEF Among
<1> DEFINE over == TotalAllocated(comb) - target
<1>4. over \in Int
  BY <1>3, ItemsTotal
<1> HIDE DEF over
<1>5. r \in Trimmed(comb, over)
  BY <1>1 DEF over
<1>6. Among(r.comb, comb)
  BY <1>3, <1>4, <1>5, TrimmedItems
<1> QED
  BY <1>3, <1>6 DEF Among

\* A combination consists of miners that are on offer.
LEMMA CombinationItems ==
  ASSUME NEW items, AreItems(items), NEW target \in Int, NEW comb \in Combinations(items, target)
  PROVE  Among(comb, items)
<1>1. PICK r \in getAllocateComb(items, target) :
         comb \in IF r.accurate THEN {r.comb}
                  ELSE {q.comb : q \in getAllocateComb(FilterFullyAvailable(items), target)}
  BY DEF Combinations
<1>2. Among(r.comb, items)
  BY <1>1, AttemptItems
<1>3. CASE ~r.accurate
  <2> DEFINE full == FilterFullyAvailable(items)
  <2>1. PICK q \in getAllocateComb(full, target) : comb = q.comb
    BY <1>1, <1>3
  <2>2. Among(full, items)
    <3> DEFINE X == {id \in DOMAIN items : items[id].Fraction = Whole}
    <3>1. full = Restrict(items, X) /\ X \in SUBSET DOMAIN items
      BY DEF FilterFullyAvailable
    <3> HIDE DEF X, full
    <3> QED BY <3>1, RestrictedItems
  <2> HIDE DEF full
  <2>3. AreItems(full) /\ DOMAIN full \subseteq DOMAIN items
    BY <2>2 DEF Among
  <2>4. Among(q.comb, full)
    BY <2>1, <2>3, AttemptItems
  <2> QED BY <2>1, <2>3, <2>4 DEF Among
<1> QED
  BY <1>1, <1>2, <1>3

-----------------------------------------------------------------------------
(* The inductive invariant.                                                 *)

\* Chain, clock and miners.
World ==
    /\ status \in [Miners -> {"unvetted", "vetted", "gone"}]
    /\ sold \in [Contracts -> 0..MaxTerms] /\ chain \in [Contracts -> Nat]
    /\ elapsed \in [Contracts -> Nat] /\ data \in [Contracts -> Nat]
    /\ \A c \in Contracts : /\ chain[c] \in {0, sold[c]}
                            /\ elapsed[c] \in 0..sold[c]
                            /\ data[c] \in 0..sold[c]

\* The contracts' fields and listeners.
Fields ==
    /\ events \in [Contracts -> Seq({"purchased", "updated", "closed"})]
    /\ state \in [Contracts -> {"available", "purchased", "running"}]
    /\ minerIDs \in [Contracts -> SUBSET Miners]
    /\ listener \in [Contracts -> {"start", "listen", "dealloc"}]
    /\ stopping \in [Contracts -> SUBSET Miners]
    /\ forgotten \in [Contracts -> BOOLEAN] /\ overtaken \in [Contracts -> BOOLEAN]

IsTodo(t) == /\ DOMAIN t \subseteq Miners
             /\ \A m \in DOMAIN t : t[m].have \in Int /\ t[m].room \in Int
IsLocal(r) ==
    /\ r = [todo |-> r.todo, rest |-> r.rest, ids |-> r.ids, fresh |-> r.fresh]
    /\ IsTodo(r.todo) /\ r.rest \in Int /\ r.ids \subseteq Miners /\ r.fresh \in BOOLEAN

Busy == {"allocate", "increase", "decrease", "dealloc"}
Adjusting == {"increase", "decrease"}

\* The loops.
Places == /\ pc \in [Loops -> PCs]
          /\ DOMAIN loc = Loops /\ \A l \in Loops : IsLocal(loc[l])
          /\ \A l \in Loops : pc[l] \in Busy => DOMAIN loc[l].todo # {}

\* The splits: what goes wrong in one leaves its mark in the history.
InOrder(s) == /\ doubled \/ NoDuplicates(s)
              /\ stale \/ doubled \/ (AllPositive(s) /\ GetAllocated(s) <= Whole)
Shares == /\ split \in [Miners -> Splits(Contracts)]
          /\ stale \in BOOLEAN /\ doubled \in BOOLEAN /\ crashed \in BOOLEAN
          /\ crashed => doubled
          /\ \A m \in Miners : /\ InOrder(split[m])
                               /\ status[m] # "vetted" => Holders(split[m]) = {}

\* What a snapshot said of a miner holds as long as no other goroutine interferes.
StillSo(s, c, snap) == /\ \E i \in DOMAIN s : s[i].id = c /\ s[i].pct = snap.have
                       /\ snap.room = GetUnallocated(s)
PlanHolds(l) ==
    /\ pc[l] = "decrease" => loc[l].rest > 0
    /\ pc[l] = "allocate" => \A m \in DOMAIN loc[l].todo : status[m] # "unvetted"
    /\ pc[l] \in Adjusting /\ loc[l].fresh /\ ~doubled =>
         \A m \in DOMAIN loc[l].todo : There(m) => StillSo(split[m], l[1], loc[l].todo[m])
Plans == \A l \in Loops : PlanHolds(l)

\* A contract that no purchase, closing or stopping has overtaken has one loop, and
\* its state tells whether that loop fulfils it.
Active == {"plan", "allocate", "save", "check", "increase", "decrease", "stop"}
AloneIn(c) == /\ \A l, k \in LoopsOf(c) : Alive(l) /\ Alive(k) => l = k
              /\ listener[c] # "dealloc"
              /\ state[c] # "available" <=> \E l \in LoopsOf(c) : pc[l] \in Active
Alone == \A c \in Contracts : /\ listener[c] = "start" => \A l \in LoopsOf(c) : pc[l] = "off"
                              /\ ~overtaken[c] => AloneIn(c)

\* The miners that serve the contract are those its loop has still to go over, has
\* gone over, or has left in minerIDs.
Clear(c) == ~overtaken[c] /\ ~forgotten[c] /\ ~doubled
Knows(l) ==
    /\ pc[l] \in {"plan", "check", "increase", "decrease", "stop"} => Held(l[1]) \subseteq minerIDs[l[1]]
    /\ pc[l] \in {"plan", "allocate", "save"} => Held(l[1]) \subseteq loc[l].ids
    /\ pc[l] = "allocate" => DOMAIN loc[l].todo \subseteq loc[l].ids
    /\ pc[l] \in Adjusting => Held(l[1]) \subseteq loc[l].ids \cup DOMAIN loc[l].todo
    /\ pc[l] = "dealloc" => Held(l[1]) \subseteq DOMAIN loc[l].todo
KnownIn(c) == /\ Held(c) # {} => \E l \in LoopsOf(c) : pc[l] \in Active \cup {"dealloc"}
              /\ \A l \in LoopsOf(c) : Knows(l)
Known == \A c \in Contracts : Clear(c) => KnownIn(c)

Inv == World /\ Fields /\ Places /\ Shares /\ Plans /\ Alone /\ Known
-----------------------------------------------------------------------------
LEMMA LoopShape ==
  ASSUME NEW l \in Loops
  PROVE  l[1] \in Contracts /\ l \in LoopsOf(l[1])
BY DEF Loops, LoopsOf

LEMMA LoopsOfOne ==
  ASSUME NEW c \in Contracts, NEW l \in LoopsOf(c)
  PROVE  l \in Loops /\ l[1] = c
BY DEF Loops, LoopsOf

LEMMA NothingToDo ==
  /\ IsTodo(Empty) /\ DOMAIN Empty = {}
  /\ IsLocal(NoLocal) /\ NoLocal.todo = Empty /\ NoLocal.rest = 0 /\ NoLocal.ids = {}
<1>1. IsTodo(Empty) /\ DOMAIN Empty = {}
  BY DEF IsTodo, Empty
<1>2. PICK none \in SUBSET Miners : none = {}
  OBVIOUS
<1>3. PICK t : t = Empty
  OBVIOUS
<1>4. PICK zero \in Int : zero = 0
  OBVIOUS
<1>5. NoLocal = Local(t, zero, none)
  BY <1>2, <1>3, <1>4 DEF NoLocal
<1>6. IsTodo(t)
  BY <1>1, <1>3
<1>7. /\ IsLocal(NoLocal) /\ NoLocal.todo = t /\ NoLocal.rest = zero /\ NoLocal.ids = none
  BY <1>5, <1>6 DEF IsLocal, Local
<1> QED
  BY <1>1, <1>2, <1>3, <1>4, <1>7

LEMMA LessToDo ==
  ASSUME NEW t, IsTodo(t), NEW m
  PROVE  /\ IsTodo(Without(t, m)) /\ DOMAIN Without(t, m) = DOMAIN t \ {m}
         /\ \A n \in DOMAIN Without(t, m) : Without(t, m)[n] = t[n]
BY DEF IsTodo, Without, Restrict

LEMMA Refreshed ==
  ASSUME NEW r, IsLocal(r), NEW b
  PROVE  [r EXCEPT !.fresh = b] = [todo |-> r.todo, rest |-> r.rest, ids |-> r.ids, fresh |-> b]
BY DEF IsLocal

LEMMA OverIs ==
  ASSUME NEW l \in Loops, IsLocal(loc[l]), NEW m, NEW r \in Int, NEW i \in SUBSET Miners
  PROVE  /\ IsLocal(Over(l, m, r, i)) /\ Over(l, m, r, i).todo = Without(loc[l].todo, m)
         /\ Over(l, m, r, i).rest = r /\ Over(l, m, r, i).ids = i
         /\ Over(l, m, r, i).fresh = loc[l].fresh
<1>1. IsTodo(Without(loc[l].todo, m)) /\ loc[l].fresh \in BOOLEAN
  BY LessToDo DEF IsLocal
<1> QED
  BY <1>1 DEF IsLocal, Over

\* What a write does to the splits, and to the loops that did not write.
Left(m, s, me, mine) ==
    /\ split' \in [Miners -> Splits(Contracts)] /\ split'[m] = s
    /\ \A n \in Miners : n # m => split'[n] = split[n]
    /\ doubled' = (doubled \/ ~NoDuplicates(s))
    /\ DOMAIN loc' = Loops
    /\ \A l \in Loops :
          /\ IsLocal(loc'[l])
          /\ l = me => loc'[l] = mine
          /\ l # me => /\ loc'[l].todo = loc[l].todo /\ loc'[l].rest = loc[l].rest
                       /\ loc'[l].ids = loc[l].ids
                       /\ pc[l] \in Adjusting /\ loc'[l].fresh => loc[l].fresh /\ s = split[m]

LEMMA WriteEffect ==
  ASSUME Places, Shares, NEW m \in Miners, NEW s \in Splits(Contracts), NEW me,
         NEW mine, IsLocal(mine), Write(m, s, me, mine)
  PROVE  Left(m, s, me, mine)
<1>1. /\ split' \in [Miners -> Splits(Contracts)] /\ split'[m] = s
      /\ \A n \in Miners : n # m => split'[n] = split[n]
  BY DEF Shares, Write
<1>2. doubled' = (doubled \/ ~NoDuplicates(s))
  BY DEF Write
<1>3. loc' = [l \in Loops |-> IF l = me THEN mine
                              ELSE [loc[l] EXCEPT !.fresh =
                                      @ /\ (s = split[m] \/ pc[l] \notin Adjusting)]]
  BY DEF Write, Adjusting
<1>4. DOMAIN loc' = Loops
  BY <1>3
<1>5. ASSUME NEW l \in Loops
      PROVE  /\ IsLocal(loc'[l])
             /\ l = me => loc'[l] = mine
             /\ l # me => /\ loc'[l].todo = loc[l].todo /\ loc'[l].rest = loc[l].rest
                          /\ loc'[l].ids = loc[l].ids
                          /\ pc[l] \in Adjusting /\ loc'[l].fresh => loc[l].fresh /\ s = split[m]
  <2>1. CASE l = me
    BY <1>3, <2>1
  <2>2. CASE l # me
    <3>1. PICK b : b = (loc[l].fresh /\ (s = split[m] \/ pc[l] \notin Adjusting))
      OBVIOUS
    <3>2. PICK r : r = loc[l]
      OBVIOUS
    <3>3. IsLocal(r) /\ b \in BOOLEAN
      BY <3>1, <3>2 DEF Places
    <3>4. loc'[l] = [r EXCEPT !.fresh = b]
      BY <1>3, <2>2, <3>1, <3>2
    <3>5. loc'[l] = [todo |-> r.todo, rest |-> r.rest, ids |-> r.ids, fresh |-> b]
      BY <3>3, <3>4, Refreshed
    <3>6. IsLocal(loc'[l]) /\ loc'[l].todo = r.todo /\ loc'[l].rest = r.rest
          /\ loc'[l].ids = r.ids /\ loc'[l].fresh = b
      BY <3>3, <3>5 DEF IsLocal
    <3> QED BY <2>2, <3>1, <3>2, <3>6
  <2> QED BY <2>1, <2>2
<1> QED
  BY <1>1, <1>2, <1>4, <1>5 DEF Left

\* What a loop reads from a snapshot.
LEMMA SnapNow ==
  ASSUME World, Shares, NEW c \in Contracts
  PROVE  /\ DOMAIN SnapOf(c) = Held(c) /\ IsTodo(SnapOf(c))
         /\ ~doubled => \A m \in DOMAIN SnapOf(c) : StillSo(split[m], c, SnapOf(c)[m])
         /\ TotalAllocated(Contract(GetMinerSnapshot, c)) \in Int
         /\ Held(c) = {} => TotalAllocated(Contract(GetMinerSnapshot, c)) = 0
<1>1. PICK sp : sp = split
  OBVIOUS
<1>2. PICK V \in SUBSET Miners : V = Vetted
  BY DEF Vetted
<1>3. sp \in [Miners -> Splits(Contracts)]
  BY <1>1 DEF Shares
<1>4. PICK snap : snap = CreateMinerSnapshot(sp, V, Rate)
  OBVIOUS
<1>5. GetMinerSnapshot = snap
  BY <1>1, <1>2, <1>4 DEF GetMinerSnapshot
<1>6. SnapOf(c) = SnapFor(snap, c)
  BY <1>5 DEF SnapOf, SnapFor
<1>7. SnapTells(snap, c, sp, V)
  BY <1>3, <1>4, SnapForIs
<1>a. PICK t : t = SnapFor(snap, c)
  OBVIOUS
<1>8. /\ DOMAIN t = {m \in V : c \in Holders(sp[m])}
      /\ \A m \in DOMAIN t :
            /\ t[m].have \in Int /\ t[m].room \in Int
            /\ \E i \in DOMAIN sp[m] : sp[m][i].id = c /\ sp[m][i].pct = t[m].have
            /\ NoDuplicates(sp[m]) => t[m].room = GetUnallocated(sp[m])
  BY <1>7, <1>a DEF SnapTells
<1>9. \A m \in Miners : c \in Holders(sp[m]) => m \in V
  BY <1>1, <1>2 DEF Shares, Vetted
<1>10. DOMAIN t = Held(c) /\ IsTodo(t)
  BY <1>1, <1>8, <1>9 DEF Held, IsTodo
<1>11. ASSUME ~doubled, NEW m \in DOMAIN t PROVE StillSo(split[m], c, t[m])
  <2>1. NoDuplicates(sp[m])
    BY <1>1, <1>10, <1>11 DEF Shares, InOrder, IsTodo
  <2> QED BY <1>1, <1>8, <1>11, <2>1 DEF StillSo
<1>12. TotalAllocated(Contract(snap, c)) \in Int
  BY <1>3, <1>4, ContractTotal
<1>13. ASSUME Held(c) = {} PROVE TotalAllocated(Contract(snap, c)) = 0
  <2>1. DOMAIN t = {}
    BY <1>10, <1>13
  <2>2. DOMAIN Contract(snap, c) = {}
    BY <1>a, <2>1 DEF SnapFor
  <2> DEFINE f == [id \in DOMAIN Contract(snap, c) |-> AllocatedGHS(Contract(snap, c)[id])]
  <2>3. TotalAllocated(Contract(snap, c)) = SumFunctionOnSet(f, DOMAIN f)
    BY DEF TotalAllocated, SumFunction
  <2>4. DOMAIN f = {}
    BY <2>2
  <2> HIDE DEF f
  <2>5. SumFunctionOnSet(f, {}) = 0
    BY SumEmpty
  <2> QED BY <2>3, <2>4, <2>5
<1> QED
  BY <1>5, <1>6, <1>a, <1>10, <1>11, <1>12, <1>13

LEMMA CombinationNow ==
  ASSUME World, Shares, NEW g \in Int, NEW comb \in Combinations(Unreserved(GetMinerSnapshot), g)
  PROVE  /\ DOMAIN comb \subseteq Vetted
         /\ \A m \in DOMAIN comb : m \in Miners /\ comb[m].Fraction \in Int
<1>1. PICK sp : sp = split
  OBVIOUS
<1>2. PICK V \in SUBSET Miners : V = Vetted
  BY DEF Vetted
<1>3. sp \in [Miners -> Splits(Contracts)]
  BY <1>1 DEF Shares
<1>4. PICK snap : snap = CreateMinerSnapshot(sp, V, Rate)
  OBVIOUS
<1>5. GetMinerSnapshot = snap
  BY <1>1, <1>2, <1>4 DEF GetMinerSnapshot
<1>6. PICK items : items = Unreserved(snap)
  OBVIOUS
<1>7. AreItems(items) /\ DOMAIN items \subseteq V
  BY <1>3, <1>4, <1>6, UnreservedItems
<1>8. comb \in Combinations(items, g)
  BY <1>5, <1>6
<1>9. Among(comb, items)
  BY <1>7, <1>8, CombinationItems
<1>10. \A m \in DOMAIN comb : m \in Miners /\ comb[m].Fraction \in Int
  <2> SUFFICES ASSUME NEW m \in DOMAIN comb PROVE m \in Miners /\ comb[m].Fraction \in Int
    OBVIOUS
  <2>1. m \in Miners /\ \E d, p : p \in Int /\ comb[m] = AllocItem(m, d, p, Rate[m])
    BY <1>9 DEF Among, AreItems
  <2>2. PICK d, p : p \in Int /\ comb[m] = AllocItem(m, d, p, Rate[m])
    BY <2>1
  <2>3. comb[m].Fraction = p
    BY <2>2 DEF AllocItem
  <2> QED BY <2>1, <2>2, <2>3
<1> QED
  BY <1>2, <1>7, <1>9, <1>10 DEF Among
-----------------------------------------------------------------------------
(* What no step disturbs.  First the chain and the fields of the contracts.  *)

LEMMA InitInv == Init => Inv
<1> SUFFICES ASSUME Init PROVE Inv
  OBVIOUS
<1>1. /\ \A c \in Contracts : chain[c] \in {0, 1}
      /\ chain \in [Contracts -> 0..1] /\ sold = chain /\ data = chain
      /\ 0..1 \subseteq 0..MaxTerms /\ 0..1 \subseteq Nat
  BY BoundsAssumption DEF Init
<1>2. World
  <2>1. status \in [Miners -> {"unvetted", "vetted", "gone"}]
    BY DEF Init
  <2>2. elapsed \in [Contracts -> Nat] /\ \A c \in Contracts : elapsed[c] = 0
    BY DEF Init
  <2> QED BY <1>1, <2>1, <2>2 DEF World
<1>3. Fields
  BY DEF Init, Fields
<1>4. pc = [l \in Loops |-> "off"]
  BY DEF Init
<1>5. Places
  <2>1. \A l \in Loops : IsLocal(loc[l])
    BY NothingToDo DEF Init
  <2>2. DOMAIN loc = Loops
    BY DEF Init
  <2> QED BY <1>4, <2>1, <2>2 DEF Places, PCs, Busy
<1>6. Shares
  <2>1. PICK s : s = <<>>
    OBVIOUS
  <2>2. s \in Splits(Contracts) /\ DOMAIN s = {} /\ GetAllocated(s) = 0
    <3>1. GetAllocated(s) = 0
      BY <2>1, TotalEmpty
    <3> QED BY <2>1, <3>1 DEF Splits
  <2>3. Holders(s) = {} /\ NoDuplicates(s) /\ AllPositive(s) /\ GetAllocated(s) <= Whole
    BY <2>2, PlanNumbers DEF Holders, NoDuplicates, AllPositive
  <2>4. split \in [Miners -> Splits(Contracts)] /\ \A m \in Miners : split[m] = s
    BY <2>1, <2>2 DEF Init
  <2>5. stale = FALSE /\ doubled = FALSE /\ crashed = FALSE
    BY DEF Init
  <2> QED BY <2>3, <2>4, <2>5 DEF Shares, InOrder
<1>7. \A m \in Miners : Holders(split[m]) = {}
  BY DEF Init, Holders
<1>8. Plans
  BY <1>4 DEF Plans, PlanHolds, Adjusting
<1>9. Alone
  BY <1>4, LoopsOfOne DEF Init, Alone, AloneIn, Alive, Active
<1>10. Known
  <2>1. \A c \in Contracts : Held(c) = {}
    BY <1>7 DEF Held
  <2> QED BY <1>4, <2>1, LoopsOfOne DEF Known, KnownIn, Knows, Adjusting
<1> QED
  BY <1>2, <1>3, <1>5, <1>6, <1>8, <1>9, <1>10 DEF Inv

LEMMA WorldKept == World /\ Next => World'
<1> SUFFICES ASSUME World, Next PROVE World'
  OBVIOUS
<1>1. ASSUME NEW c \in Contracts, Purchase(c) PROVE World'
  <2>1. /\ sold' = [sold EXCEPT ![c] = sold[c] + 1]
        /\ chain' = [chain EXCEPT ![c] = sold[c] + 1]
        /\ sold[c] < MaxTerms /\ UNCHANGED <<status, elapsed, data>>
    BY <1>1 DEF Purchase, World, extUnchanged, contractVars
  <2>2. sold[c] \in 0..MaxTerms /\ sold[c] + 1 \in 0..MaxTerms /\ sold[c] + 1 \in Nat
    BY <2>1, BoundsAssumption DEF World
  <2>3. sold' \in [Contracts -> 0..MaxTerms] /\ chain' \in [Contracts -> Nat]
    BY <2>1, <2>2 DEF World
  <2>4. ASSUME NEW d \in Contracts
        PROVE  /\ chain'[d] \in {0, sold'[d]}
               /\ elapsed'[d] \in 0..sold'[d] /\ data'[d] \in 0..sold'[d]
    <3>1. sold[d] \in Nat /\ chain[d] \in {0, sold[d]} /\ elapsed[d] \in 0..sold[d] /\ data[d] \in 0..sold[d]
      BY DEF World
    <3>2. CASE d = c
      <4>1. sold'[d] = sold[d] + 1 /\ chain'[d] = sold[d] + 1
        BY <2>1, <3>2 DEF World
      <4> QED BY <2>1, <3>1, <4>1
    <3>3. CASE d # c
      BY <2>1, <3>1, <3>3 DEF World
    <3> QED BY <3>2, <3>3
  <2> QED BY <2>1, <2>3, <2>4 DEF World
<1>2. ASSUME NEW c \in Contracts, chain' = [chain EXCEPT ![c] = 0],
             UNCHANGED <<status, sold, elapsed, data>>
      PROVE  World'
  <2>1. chain' \in [Contracts -> Nat] /\ \A d \in Contracts : chain'[d] \in {0, sold'[d]}
    BY <1>2 DEF World
  <2> QED BY <1>2, <2>1 DEF World
<1>3. ASSUME NEW c \in Contracts, TermEnds(c) PROVE World'
  <2>1. /\ elapsed' = [elapsed EXCEPT ![c] = elapsed[c] + 1] /\ elapsed[c] < sold[c]
        /\ UNCHANGED <<status, chain, sold, data>>
    BY <1>3 DEF TermEnds, extUnchanged, contractVars
  <2>2. elapsed' \in [Contracts -> Nat] /\ \A d \in Contracts : elapsed'[d] \in 0..sold'[d]
    BY <2>1 DEF World
  <2> QED BY <2>1, <2>2 DEF World
<1>4. ASSUME NEW m \in Miners, MinerVetted(m) \/ MinerGone(m) PROVE World'
  <2>1. /\ UNCHANGED <<chain, sold, elapsed, data>>
        /\ \E v \in {"unvetted", "vetted", "gone"} : status' = [status EXCEPT ![m] = v]
    BY <1>4 DEF MinerVetted, MinerGone, extUnchanged, contractVars, chainVars
  <2>2. status' \in [Miners -> {"unvetted", "vetted", "gone"}]
    BY <2>1 DEF World
  <2> QED BY <2>1, <2>2 DEF World
<1>5. ASSUME UNCHANGED <<status, chain, sold, elapsed, data>> PROVE World'
  BY <1>5 DEF World
<1>6. CASE External
  BY <1>1, <1>2, <1>3, <1>4, <1>6
     DEF External, Cancel, UpdatePurchaseInformation, extUnchanged, contractVars
<1>7. ASSUME NEW l \in Loops, LoopStep(l) PROVE World'
  <2>1. CASE Closeout(l)
    BY <1>2, <1>5, <2>1, LoopShape DEF Closeout, contractVars
  <2> QED BY <1>5, <1>7, <2>1
          DEF LoopStep, Boot, Fulfill, Plan, AllocateMiner, Save, Check, Increase, Decrease, StopByLoop,
              DeallocateByLoop, localUnchanged, loopUnchanged, contractVars, chainVars
<1>8. ASSUME NEW c \in Contracts, Listen(c) PROVE World'
  <2>1. ASSUME data' = [data EXCEPT ![c] = chain[c]], UNCHANGED <<status, chain, sold, elapsed>>
        PROVE  World'
    <3>1. data' \in [Contracts -> Nat]
      BY <2>1 DEF World
    <3>2. \A d \in Contracts : data'[d] \in 0..sold'[d]
      BY <2>1 DEF World
    <3> QED BY <2>1, <3>1, <3>2 DEF World
  <2>2. CASE Purchased(c) \/ Updated(c)
    BY <2>1, <2>2 DEF Purchased, Updated, Load, listenerUnchanged, chainVars
  <2> QED BY <1>5, <1>8, <2>2
          DEF Listen, Subscribe, LoadFails, Closed, DeallocateByListener, listenerUnchanged,
              contractVars, chainVars
<1> QED
  BY <1>6, <1>7, <1>8 DEF Next

LEMMA EmitKeeps ==
  ASSUME Fields, NEW c \in Contracts, NEW es \in Seq({"purchased", "updated", "closed"}), Emit(c, es)
  PROVE  events' \in [Contracts -> Seq({"purchased", "updated", "closed"})]
<1>1. CASE events' = [events EXCEPT ![c] = events[c] \o es]
  <2>1. events[c] \in Seq({"purchased", "updated", "closed"})
    BY DEF Fields
  <2>2. events[c] \o es \in Seq({"purchased", "updated", "closed"})
    BY <2>1
  <2> QED BY <1>1, <2>2 DEF Fields
<1>2. CASE UNCHANGED events
  BY <1>2 DEF Fields
<1> QED
  BY <1>1, <1>2 DEF Emit

LEMMA TakeKeeps ==
  ASSUME Fields, NEW c \in Contracts, NEW e, Take(c, e)
  PROVE  events' \in [Contracts -> Seq({"purchased", "updated", "closed"})] /\ listener[c] = "listen"
<1>1. /\ events' = [events EXCEPT ![c] = Tail(events[c])] /\ events[c] # <<>>
      /\ listener[c] = "listen"
  BY DEF Take, ListenerAt
<1>2. events[c] \in Seq({"purchased", "updated", "closed"})
  BY DEF Fields
<1>3. Tail(events[c]) \in Seq({"purchased", "updated", "closed"})
  BY <1>1, <1>2
<1> QED
  BY <1>1, <1>3 DEF Fields

LEMMA FieldsKept == Fields /\ Places /\ Next => Fields'
<1> SUFFICES ASSUME Fields, Places, Next PROVE Fields'
  OBVIOUS
<1> DEFINE E == Seq({"purchased", "updated", "closed"})
<1>0. <<"purchased">> \in E /\ <<"closed">> \in E /\ <<"closed", "updated">> \in E
  OBVIOUS
<1> HIDE DEF E
<1>1. ASSUME events' \in [Contracts -> E],
             UNCHANGED <<state, minerIDs, listener, stopping, forgotten, overtaken>>
      PROVE  Fields'
  BY <1>1 DEF Fields, E
<1>2. ASSUME UNCHANGED events PROVE events' \in [Contracts -> E]
  BY <1>2 DEF Fields, E
<1>3. CASE External
  <2>1. ASSUME NEW c \in Contracts, Purchase(c) \/ Cancel(c) \/ UpdatePurchaseInformation(c)
        PROVE  events' \in [Contracts -> E]
    BY <1>0, <2>1, EmitKeeps DEF E, Purchase, Cancel, UpdatePurchaseInformation
  <2>2. events' \in [Contracts -> E]
    BY <1>2, <1>3, <2>1 DEF External, TermEnds, MinerVetted, MinerGone
  <2> QED BY <1>1, <1>3, <2>2
          DEF External, Purchase, Cancel, UpdatePurchaseInformation, TermEnds, MinerVetted, MinerGone,
              extUnchanged, contractVars, listenerVars, historyVars
<1>4. ASSUME NEW l \in Loops, LoopStep(l) PROVE Fields'
  <2>0. l[1] \in Contracts
    BY LoopShape
  <2>1. CASE Boot(l) \/ Plan(l) \/ Check(l)
    BY <1>1, <1>2, <2>1 DEF Boot, Plan, Check, localUnchanged, loopUnchanged, contractVars, listenerVars, historyVars
  <2>2. CASE Fulfill(l) \/ StopByLoop(l)
    <3>1. /\ \E v \in {"available", "purchased", "running"} : state' = [state EXCEPT ![l[1]] = v]
          /\ UNCHANGED <<events, minerIDs, listener, stopping, forgotten, overtaken>>
      <4>1. CASE Fulfill(l)
        BY <4>1 DEF Fulfill, loopUnchanged, listenerVars, historyVars
      <4>2. CASE StopByLoop(l)
        <5>1. UNCHANGED <<events, minerIDs, listener, stopping, forgotten, overtaken>>
          BY <4>2 DEF StopByLoop, loopUnchanged, listenerVars, historyVars
        <5>2. CASE state[l[1]] = "available"
          <6>1. UNCHANGED state
            BY <4>2, <5>2 DEF StopByLoop
          <6>2. state' = [state EXCEPT ![l[1]] = "available"]
            BY <5>2, <6>1 DEF Fields
          <6> QED BY <5>1, <6>2
        <5>3. CASE state[l[1]] # "available"
          BY <4>2, <5>1, <5>3 DEF StopByLoop
        <5> QED BY <5>2, <5>3
      <4> QED BY <2>2, <4>1, <4>2
    <3>2. state' \in [Contracts -> {"available", "purchased", "running"}]
      BY <3>1 DEF Fields
    <3> QED BY <3>1, <3>2 DEF Fields
  <2>3. CASE AllocateMiner(l) \/ Increase(l) \/ DeallocateByLoop(l)
    BY <1>1, <1>2, <2>3 DEF AllocateMiner, Increase, DeallocateByLoop, loopUnchanged, contractVars, listenerVars, historyVars
  <2>4. CASE Save(l)
    <3>1. /\ minerIDs' = [minerIDs EXCEPT ![l[1]] = loc[l].ids]
          /\ UNCHANGED <<events, state, listener, stopping, forgotten, overtaken>>
      BY <2>4 DEF Save, loopUnchanged, listenerVars, historyVars
    <3>2. loc[l].ids \in SUBSET Miners
      BY DEF Places, IsLocal
    <3>3. minerIDs' \in [Contracts -> SUBSET Miners]
      BY <3>1, <3>2 DEF Fields
    <3> QED BY <3>1, <3>3 DEF Fields
  <2>5. CASE Decrease(l)
    <3>1. /\ UNCHANGED <<events, state, minerIDs, listener, stopping, overtaken>>
          /\ \E b \in BOOLEAN : forgotten' = [forgotten EXCEPT ![l[1]] = forgotten[l[1]] \/ b]
      <4>1. UNCHANGED <<events, state, minerIDs, listener, stopping, overtaken>>
        BY <2>5 DEF Decrease, loopUnchanged, contractVars, listenerVars
      <4>2. \E b \in BOOLEAN : forgotten' = [forgotten EXCEPT ![l[1]] = forgotten[l[1]] \/ b]
        BY <2>5 DEF Decrease
      <4> QED BY <4>1, <4>2
    <3>2. forgotten' \in [Contracts -> BOOLEAN]
      BY <3>1 DEF Fields
    <3> QED BY <3>1, <3>2 DEF Fields
  <2>6. CASE Closeout(l)
    <3>1. events' \in [Contracts -> E]
      BY <1>0, <1>2, <2>0, <2>6, EmitKeeps DEF E, Closeout
    <3> QED BY <1>1, <2>6, <3>1 DEF Closeout, contractVars, listenerVars, historyVars
  <2> QED BY <1>4, <2>1, <2>2, <2>3, <2>4, <2>5, <2>6 DEF LoopStep
<1>5. ASSUME NEW c \in Contracts, Listen(c) PROVE Fields'
  <2>1. CASE Subscribe(c)
    <3>1. /\ listener' = [listener EXCEPT ![c] = "listen"]
          /\ UNCHANGED <<events, state, minerIDs, stopping, forgotten, overtaken>>
      BY <2>1 DEF Subscribe, contractVars, listenerUnchanged
    <3> QED BY <3>1 DEF Fields
  <2>2. CASE Purchased(c)
    <3>1. /\ events' \in [Contracts -> E]
          /\ UNCHANGED <<state, minerIDs, listener, stopping, forgotten>>
          /\ overtaken' = [overtaken EXCEPT ![c] = overtaken[c] \/ \E l \in LoopsOf(c) : Alive(l)]
      BY <2>2, TakeKeeps DEF E, Purchased, listenerVars, listenerUnchanged
    <3>2. overtaken' \in [Contracts -> BOOLEAN]
      BY <3>1 DEF Fields
    <3> QED BY <3>1, <3>2 DEF Fields, E
  <2>3. CASE Updated(c) \/ LoadFails(c)
    <3>1. events' \in [Contracts -> E]
      BY <2>3, TakeKeeps DEF E, Updated, LoadFails
    <3> QED BY <1>1, <2>3, <3>1 DEF Updated, LoadFails, contractVars, listenerVars, listenerUnchanged
  <2>4. CASE Closed(c)
    <3>1. events' \in [Contracts -> E] /\ UNCHANGED <<minerIDs, forgotten>>
      BY <2>4, TakeKeeps DEF E, Closed, listenerUnchanged
    <3>2. CASE state[c] = "available"
      BY <1>1, <2>4, <3>1, <3>2 DEF Closed, listenerVars
    <3>3. CASE state[c] # "available"
      <4>1. /\ state' = [state EXCEPT ![c] = "available"]
            /\ stopping' = [stopping EXCEPT ![c] = minerIDs[c]]
            /\ listener' = [listener EXCEPT ![c] = IF minerIDs[c] = {} THEN listener[c] ELSE "dealloc"]
            /\ overtaken' = [overtaken EXCEPT ![c] = overtaken[c] \/ \E l \in LoopsOf(c) : Alive(l)]
        BY <2>4, <3>3 DEF Closed
      <4>2. state' \in [Contracts -> {"available", "purchased", "running"}]
        BY <4>1 DEF Fields
      <4>3. stopping' \in [Contracts -> SUBSET Miners]
        BY <4>1 DEF Fields
      <4>4. listener' \in [Contracts -> {"start", "listen", "dealloc"}]
        BY <4>1 DEF Fields
      <4>5. overtaken' \in [Contracts -> BOOLEAN]
        BY <4>1 DEF Fields
      <4> QED BY <3>1, <4>2, <4>3, <4>4, <4>5 DEF Fields, E
    <3> QED BY <3>2, <3>3
  <2>5. CASE DeallocateByListener(c)
    <3>1. PICK m \in stopping[c] :
             /\ stopping' = [stopping EXCEPT ![c] = stopping[c] \ {m}]
             /\ listener' = [listener EXCEPT ![c] = IF stopping[c] = {m} THEN "listen" ELSE listener[c]]
      BY <2>5 DEF DeallocateByListener
    <3>2. UNCHANGED <<events, state, minerIDs, forgotten, overtaken>>
      BY <2>5 DEF DeallocateByListener, contractVars
    <3>3. stopping' \in [Contracts -> SUBSET Miners]
      BY <3>1 DEF Fields
    <3>4. listener' \in [Contracts -> {"start", "listen", "dealloc"}]
      BY <3>1 DEF Fields
    <3> QED BY <3>2, <3>3, <3>4 DEF Fields
  <2> QED BY <1>5, <2>1, <2>2, <2>3, <2>4, <2>5 DEF Listen
<1> QED
  BY <1>3, <1>4, <1>5 DEF Next
-----------------------------------------------------------------------------
(* What a step of one goroutine leaves to the others.                       *)

LEMMA ListenerIsNoLoop ==
  ASSUME NEW c \in Contracts, NEW l \in Loops
  PROVE  l # <<c>>
BY DEF Loops

\* Only loop `me` moves and changes its variables.
Apart(me) ==
    /\ DOMAIN loc' = Loops /\ pc' = [k \in Loops |-> pc'[k]]
    /\ \A k \in Loops : k # me => /\ pc'[k] = pc[k] /\ IsLocal(loc'[k])
                                  /\ loc'[k].todo = loc[k].todo /\ loc'[k].rest = loc[k].rest
                                  /\ loc'[k].ids = loc[k].ids

LEMMA ApartByGoto ==
  ASSUME Places, NEW l \in Loops, NEW v, Goto(l, v), NEW mine, loc' = [loc EXCEPT ![l] = mine]
  PROVE  Apart(l) /\ pc'[l] = v /\ loc'[l] = mine
BY DEF Places, Goto, Apart

LEMMA ApartByMove ==
  ASSUME Places, NEW l \in Loops, NEW v, Goto(l, v), UNCHANGED loc
  PROVE  Apart(l) /\ pc'[l] = v /\ loc'[l] = loc[l]
BY DEF Places, Goto, Apart

LEMMA ApartByWrite ==
  ASSUME Places, NEW l \in Loops, NEW v, Goto(l, v), NEW m, NEW s, NEW mine, Left(m, s, l, mine)
  PROVE  Apart(l) /\ pc'[l] = v /\ loc'[l] = mine
<1>1. \A k \in Loops : k # l => IsLocal(loc'[k]) /\ loc'[k].todo = loc[k].todo
                                /\ loc'[k].rest = loc[k].rest /\ loc'[k].ids = loc[k].ids
  BY DEF Left
<1>2. DOMAIN loc' = Loops /\ loc'[l] = mine
  BY DEF Left
<1>3. pc' = [k \in Loops |-> pc'[k]] /\ pc'[l] = v /\ \A k \in Loops : k # l => pc'[k] = pc[k]
  BY DEF Places, Goto
<1> QED
  BY <1>1, <1>2, <1>3 DEF Apart

LEMMA PlacesNext ==
  ASSUME Places, NEW l \in Loops, Apart(l), pc'[l] \in PCs, IsLocal(loc'[l]),
         pc'[l] \in Busy => DOMAIN loc'[l].todo # {}
  PROVE  Places'
<1>1. \A k \in Loops : pc'[k] \in PCs
  BY DEF Places, Apart
<1>a. pc' \in [Loops -> PCs]
  BY <1>1 DEF Apart
<1>2. \A k \in Loops : IsLocal(loc'[k]) /\ (pc'[k] \in Busy => DOMAIN loc'[k].todo # {})
  BY DEF Places, Apart
<1> QED
  BY <1>a, <1>2 DEF Places, Apart

\* The plan of a loop that does not move.
LEMMA PlanKept ==
  ASSUME Places, NEW k \in Loops, PlanHolds(k), pc'[k] = pc[k],
         loc'[k].todo = loc[k].todo, loc'[k].rest = loc[k].rest,
         \A m \in Miners : status'[m] = "unvetted" => status[m] = "unvetted",
         pc[k] \in Adjusting /\ loc'[k].fresh /\ ~doubled'
            => /\ loc[k].fresh /\ ~doubled
               /\ \A m \in Miners : status'[m] # "gone" => status[m] # "gone" /\ split'[m] = split[m]
  PROVE  PlanHolds(k)'
<1>0. DOMAIN loc[k].todo \subseteq Miners
  BY DEF Places, IsLocal, IsTodo
<1>1. pc'[k] = "decrease" => loc'[k].rest > 0
  BY DEF PlanHolds
<1>2. pc'[k] = "allocate" => \A m \in DOMAIN loc'[k].todo : status'[m] # "unvetted"
  BY <1>0 DEF PlanHolds
<1>3. ASSUME pc'[k] \in Adjusting, loc'[k].fresh, ~doubled',
             NEW m \in DOMAIN loc'[k].todo, status'[m] # "gone"
      PROVE  StillSo(split'[m], k[1], loc'[k].todo[m])
  <2>1. m \in Miners /\ m \in DOMAIN loc[k].todo
    BY <1>0, <1>3
  <2>2. loc[k].fresh /\ ~doubled /\ status[m] # "gone" /\ split'[m] = split[m]
    BY <1>3, <2>1
  <2>3. StillSo(split[m], k[1], loc[k].todo[m])
    BY <1>3, <2>1, <2>2 DEF PlanHolds, There
  <2> QED BY <2>2, <2>3
<1> QED
  BY <1>1, <1>2, <1>3 DEF PlanHolds, There, StillSo

LEMMA PlansNext ==
  ASSUME Places, Plans, NEW l \in Loops, Apart(l), UNCHANGED status, PlanHolds(l)',
         \A k \in Loops : k # l /\ pc[k] \in Adjusting /\ loc'[k].fresh /\ ~doubled'
            => loc[k].fresh /\ ~doubled /\ \A m \in Miners : split'[m] = split[m]
  PROVE  Plans'
<1>1. ASSUME NEW k \in Loops, k # l PROVE PlanHolds(k)'
  BY <1>1, PlanKept DEF Plans, Apart
<1> QED
  BY <1>1 DEF Plans

LEMMA SharesWritten ==
  ASSUME Shares, NEW m \in Miners, NEW s \in Splits(Contracts), NEW me, NEW mine, Left(m, s, me, mine),
         InOrder(s)', stale' \in BOOLEAN, stale => stale', crashed' \in BOOLEAN, crashed' => doubled',
         UNCHANGED status, status[m] # "vetted" => Holders(s) = {}
  PROVE  Shares'
<1>1. doubled' \in BOOLEAN /\ (doubled => doubled') /\ split' \in [Miners -> Splits(Contracts)]
  BY DEF Left, Shares
<1>2. ASSUME NEW n \in Miners
      PROVE  InOrder(split[n])' /\ (status'[n] # "vetted" => Holders(split'[n]) = {})
  <2>1. CASE n = m
    BY <2>1 DEF Left, InOrder
  <2>2. CASE n # m
    <3>1. split'[n] = split[n]
      BY <2>2 DEF Left
    <3>2. InOrder(split[n]) /\ (status[n] # "vetted" => Holders(split[n]) = {})
      BY DEF Shares
    <3> QED BY <1>1, <3>1, <3>2 DEF InOrder
  <2> QED BY <2>1, <2>2
<1> QED
  BY <1>1, <1>2 DEF Shares

LEMMA SharesKept ==
  ASSUME Shares, UNCHANGED <<split, stale, doubled, crashed, status>>
  PROVE  Shares'
BY DEF Shares, InOrder

LEMMA AloneMoved ==
  ASSUME Alone, NEW l \in Loops, Apart(l), Alive(l), pc'[l] # "off", UNCHANGED <<listener, overtaken>>,
         \A d \in Contracts : d # l[1] => state'[d] = state[d],
         AloneIn(l[1]) => (state'[l[1]] # "available" <=> pc'[l] \in Active)
  PROVE  Alone'
<1>1. ASSUME NEW d \in Contracts, ~overtaken'[d] PROVE AloneIn(d)'
  <2>1. AloneIn(d) /\ \A k \in LoopsOf(d) : k \in Loops /\ k[1] = d
    BY <1>1, LoopsOfOne DEF Alone
  <2>2. CASE d = l[1]
    <3>1. l \in LoopsOf(d) /\ \A k \in LoopsOf(d) : k # l => pc'[k] = pc[k] /\ pc[k] \in {"off", "done"}
      BY <2>1, <2>2, LoopShape DEF Apart, AloneIn, Alive
    <3>2. \A i, k \in LoopsOf(d) : pc'[i] \notin {"off", "done"} /\ pc'[k] \notin {"off", "done"} => i = k
      BY <3>1
    <3>3. listener'[d] # "dealloc"
      BY <2>1 DEF AloneIn
    <3>4. (\E k \in LoopsOf(d) : pc'[k] \in Active) <=> pc'[l] \in Active
      BY <3>1 DEF Active
    <3>5. state'[d] # "available" <=> \E k \in LoopsOf(d) : pc'[k] \in Active
      BY <2>1, <2>2, <3>4
    <3> QED BY <3>2, <3>3, <3>5 DEF AloneIn, Alive
  <2>3. CASE d # l[1]
    <3>1. (\A k \in LoopsOf(d) : pc'[k] = pc[k]) /\ state'[d] = state[d]
      BY <2>1, <2>3 DEF Apart
    <3> QED BY <2>1, <3>1 DEF AloneIn, Alive
  <2> QED BY <2>2, <2>3
<1>2. ASSUME NEW d \in Contracts, listener'[d] = "start", NEW k \in LoopsOf(d) PROVE pc'[k] = "off"
  <2>1. pc[k] = "off" /\ k \in Loops
    BY <1>2, LoopsOfOne DEF Alone
  <2> QED BY <2>1 DEF Apart, Alive
<1> QED
  BY <1>1, <1>2 DEF Alone

LEMMA AloneKept ==
  ASSUME Alone, UNCHANGED <<pc, listener, overtaken, state>>
  PROVE  Alone'
BY DEF Alone, AloneIn, Alive

LEMMA StateTells ==
  ASSUME NEW l \in Loops, Alive(l), AloneIn(l[1])
  PROVE  state[l[1]] # "available" <=> pc[l] \in Active
<1>1. l \in LoopsOf(l[1])
  BY LoopShape
<1>2. \A k \in LoopsOf(l[1]) : pc[k] \in Active => k = l
  BY <1>1 DEF AloneIn, Alive, Active
<1> QED
  BY <1>1, <1>2 DEF AloneIn

\* What its loop knows of a contract nobody else works on.
Own(l) == Knows(l) /\ (Held(l[1]) # {} => pc[l] \in Active \cup {"dealloc"})

LEMMA OwnLoop ==
  ASSUME Alone, Known, NEW l \in Loops, Alive(l), Clear(l[1])
  PROVE  Own(l) /\ AloneIn(l[1])
<1>1. AloneIn(l[1]) /\ KnownIn(l[1]) /\ l \in LoopsOf(l[1])
  BY LoopShape DEF Alone, Known, Clear
<1>2. \A k \in LoopsOf(l[1]) : pc[k] \in Active \cup {"dealloc"} => k = l
  BY <1>1 DEF AloneIn, Alive, Active
<1> QED
  BY <1>1, <1>2 DEF KnownIn, Own

LEMMA KnownElsewhere ==
  ASSUME NEW d \in Contracts, Known, Clear(d)', overtaken[d] => overtaken'[d],
         forgotten[d] => forgotten'[d], doubled => doubled', minerIDs'[d] = minerIDs[d],
         Held(d)' \subseteq Held(d),
         \A k \in LoopsOf(d) : /\ pc'[k] = pc[k] /\ loc'[k].todo = loc[k].todo
                               /\ loc'[k].ids = loc[k].ids
  PROVE  KnownIn(d)'
<1>1. KnownIn(d)
  BY DEF Clear, Known
<1>2. Held(d)' # {} => \E k \in LoopsOf(d) : pc'[k] \in Active \cup {"dealloc"}
  BY <1>1 DEF KnownIn
<1>3. ASSUME NEW k \in LoopsOf(d) PROVE Knows(k)'
  <2>1. Knows(k) /\ k[1] = d
    BY <1>1, LoopsOfOne DEF KnownIn
  <2>2. PICK X, Y : X = Held(d) /\ Y = Held(d)'
    OBVIOUS
  <2> QED BY <2>1, <2>2 DEF Knows
<1> QED
  BY <1>2, <1>3 DEF KnownIn

LEMMA KnownMoved ==
  ASSUME Alone, Known, NEW l \in Loops, Apart(l), Alive(l), UNCHANGED overtaken, doubled => doubled',
         forgotten[l[1]] => forgotten'[l[1]],
         \A d \in Contracts : d # l[1] => /\ minerIDs'[d] = minerIDs[d] /\ forgotten'[d] = forgotten[d]
                                          /\ Held(d)' \subseteq Held(d),
         Clear(l[1])' => Own(l)'
  PROVE  Known'
<1>1. ASSUME NEW d \in Contracts, Clear(d)' PROVE KnownIn(d)'
  <2>1. \A k \in LoopsOf(d) : k \in Loops /\ k[1] = d
    BY LoopsOfOne
  <2>2. CASE d = l[1]
    <3>1. Own(l)' /\ Own(l) /\ AloneIn(d) /\ l \in LoopsOf(d)
      BY <1>1, <2>2, OwnLoop, LoopShape DEF Clear
    <3>2. \A k \in LoopsOf(d) : k # l => pc'[k] \in {"off", "done"}
      BY <2>1, <3>1 DEF AloneIn, Alive, Apart
    <3>3. \A k \in LoopsOf(d) : k # l => Knows(k)'
      BY <3>2 DEF Knows, Adjusting
    <3> QED BY <2>2, <3>1, <3>3 DEF Own, KnownIn
  <2>3. CASE d # l[1]
    <3>1. \A k \in LoopsOf(d) : pc'[k] = pc[k] /\ loc'[k].todo = loc[k].todo /\ loc'[k].ids = loc[k].ids
      BY <2>1, <2>3 DEF Apart
    <3>2. overtaken'[d] = overtaken[d] /\ forgotten'[d] = forgotten[d] /\ minerIDs'[d] = minerIDs[d]
          /\ Held(d)' \subseteq Held(d)
      BY <2>3
    <3> QED BY <1>1, <3>1, <3>2, KnownElsewhere
  <2> QED BY <2>2, <2>3
<1> QED
  BY <1>1 DEF Known
-----------------------------------------------------------------------------
(* The steps of a loop that leave the miners alone.                         *)

Workings == Places /\ Shares /\ Plans /\ Alone /\ Known

Silent(l) == /\ Apart(l) /\ \A k \in Loops : k # l => loc'[k] = loc[k]
             /\ UNCHANGED <<split, status, crashed, historyVars, listener>>

LEMMA SilentStep ==
  ASSUME Inv, NEW l \in Loops, Silent(l), Alive(l), pc'[l] \in PCs, pc'[l] # "off", IsLocal(loc'[l]),
         pc'[l] \in Busy => DOMAIN loc'[l].todo # {}, PlanHolds(l)',
         \A d \in Contracts : d # l[1] => state'[d] = state[d] /\ minerIDs'[d] = minerIDs[d],
         AloneIn(l[1]) => (state'[l[1]] # "available" <=> pc'[l] \in Active),
         Clear(l[1]) /\ Own(l) /\ AloneIn(l[1]) => Own(l)'
  PROVE  Workings'
<1>1. Places'
  BY PlacesNext DEF Inv, Silent
<1>2. Shares'
  BY SharesKept DEF Inv, Silent, historyVars
<1>3. Plans'
  <2>1. \A k \in Loops : k # l /\ pc[k] \in Adjusting /\ loc'[k].fresh /\ ~doubled'
            => loc[k].fresh /\ ~doubled /\ \A m \in Miners : split'[m] = split[m]
    BY DEF Silent, historyVars
  <2> QED BY <2>1, PlansNext DEF Inv, Silent
<1>4. Alone'
  BY AloneMoved DEF Inv, Silent, historyVars
<1>5. \A d \in Contracts : Held(d)' = Held(d)
  BY DEF Held, Silent
<1>6. Clear(l[1])' => Own(l)'
  <2>1. Clear(l[1])' => Clear(l[1])
    BY DEF Clear, Silent, historyVars
  <2> QED BY <2>1, OwnLoop DEF Inv
<1>7. Known'
  <2>1. \A d \in Contracts : d # l[1] => /\ minerIDs'[d] = minerIDs[d] /\ forgotten'[d] = forgotten[d]
                                         /\ Held(d)' \subseteq Held(d)
    BY <1>5 DEF Silent, historyVars
  <2>2. UNCHANGED overtaken /\ (doubled => doubled') /\ (forgotten[l[1]] => forgotten'[l[1]])
    BY DEF Silent, historyVars
  <2> QED BY <1>6, <2>1, <2>2, KnownMoved DEF Inv, Silent
<1> QED
  BY <1>1, <1>2, <1>3, <1>4, <1>7 DEF Workings

LEMMA BootKeeps ==
  ASSUME Inv, NEW l \in Loops, Boot(l)
  PROVE  Workings'
<1>1. pc[l] = "boot" /\ Goto(l, "start") /\ UNCHANGED <<loc, state, minerIDs>>
  BY DEF Boot, At, localUnchanged, contractVars
<1>2. Apart(l) /\ pc'[l] = "start" /\ loc'[l] = loc[l]
  BY <1>1, ApartByMove DEF Inv
<1>3. Silent(l)
  BY <1>1, <1>2 DEF Silent, Boot, localUnchanged, loopUnchanged, listenerVars
<1>4. Alive(l) /\ IsLocal(loc'[l]) /\ PlanHolds(l)'
  BY <1>1, <1>2 DEF Alive, Inv, Places, PlanHolds, Adjusting
<1>5. AloneIn(l[1]) => state[l[1]] = "available"
  BY <1>1, <1>4, StateTells DEF Active
<1>6. Own(l) => Own(l)'
  <2>1. Held(l[1])' = Held(l[1])
    BY <1>3 DEF Held, Silent
  <2> QED BY <1>1, <1>2, <2>1 DEF Own, Knows, Active, Adjusting
<1> QED
  BY <1>1, <1>2, <1>3, <1>4, <1>5, <1>6, SilentStep DEF PCs, Busy, Active

LEMMA FulfillKeeps ==
  ASSUME Inv, NEW l \in Loops, Fulfill(l)
  PROVE  Workings'
<1>0. l[1] \in Contracts /\ Target[l[1]] \in Int /\ l \in LoopsOf(l[1])
  BY LoopShape, ContractsAssumption
<1>1. PICK v \in {"stop", "plan"} : Goto(l, v)
  BY DEF Fulfill
<1>2. PICK w \in {"purchased", "running"} : state' = [state EXCEPT ![l[1]] = w]
  BY DEF Fulfill
<1>3. PICK mine : mine = Local(Empty, Target[l[1]], {})
  OBVIOUS
<1>4. /\ pc[l] = "start" /\ loc' = [loc EXCEPT ![l] = mine] /\ UNCHANGED minerIDs
  BY <1>3 DEF Fulfill, At
<1>5. Apart(l) /\ pc'[l] = v /\ loc'[l] = mine
  BY <1>1, <1>4, ApartByGoto DEF Inv
<1>6. Silent(l)
  BY <1>4, <1>5 DEF Silent, Fulfill, loopUnchanged, listenerVars, Inv, Places
<1>7. Alive(l) /\ IsLocal(mine) /\ PlanHolds(l)' /\ v \in PCs \ {"off"} /\ v \notin Busy /\ v \in Active
  <2>1. IsLocal(mine)
    BY <1>0, <1>3, NothingToDo DEF Local, IsLocal
  <2> QED BY <1>1, <1>4, <1>5, <2>1 DEF Alive, PlanHolds, Adjusting, PCs, Busy, Active
<1>8. state'[l[1]] # "available" /\ \A d \in Contracts : d # l[1] => state'[d] = state[d]
  BY <1>0, <1>2 DEF Inv, Fields
<1>9. Own(l) => Own(l)'
  <2>1. Held(l[1])' = Held(l[1])
    BY <1>6 DEF Held, Silent
  <2> QED BY <1>1, <1>4, <1>5, <1>7, <2>1 DEF Own, Knows, Active, Adjusting
<1> QED
  BY <1>4, <1>5, <1>6, <1>7, <1>8, <1>9, SilentStep

LEMMA SaveKeeps ==
  ASSUME Inv, NEW l \in Loops, Save(l)
  PROVE  Workings'
<1>0. l[1] \in Contracts
  BY LoopShape
<1>1. /\ pc[l] = "save" /\ Goto(l, "check") /\ loc' = [loc EXCEPT ![l] = NoLocal]
      /\ minerIDs' = [minerIDs EXCEPT ![l[1]] = loc[l].ids] /\ UNCHANGED state
  BY DEF Save, At, GotoWith
<1>2. Apart(l) /\ pc'[l] = "check" /\ loc'[l] = NoLocal
  BY <1>1, ApartByGoto DEF Inv
<1>3. Silent(l)
  BY <1>1, <1>2 DEF Silent, Save, loopUnchanged, listenerVars, Inv, Places
<1>4. Alive(l) /\ IsLocal(loc'[l]) /\ PlanHolds(l)'
  BY <1>1, <1>2, NothingToDo DEF Alive, PlanHolds, Adjusting
<1>5. minerIDs'[l[1]] = loc[l].ids /\ \A d \in Contracts : d # l[1] => minerIDs'[d] = minerIDs[d]
  BY <1>0, <1>1 DEF Inv, Fields
<1>6. AloneIn(l[1]) => state[l[1]] # "available"
  BY <1>1, <1>4, StateTells DEF Active
<1>7. Own(l) => Own(l)'
  <2>1. Held(l[1])' = Held(l[1])
    BY <1>3 DEF Held, Silent
  <2> QED BY <1>1, <1>2, <1>5, <2>1 DEF Own, Knows, Active, Adjusting
<1> QED
  BY <1>1, <1>2, <1>3, <1>4, <1>5, <1>6, <1>7, SilentStep DEF PCs, Busy, Active

LEMMA CloseoutKeeps ==
  ASSUME Inv, NEW l \in Loops, Closeout(l)
  PROVE  Workings'
<1>1. pc[l] = "closeout" /\ Goto(l, "done") /\ UNCHANGED <<loc, state, minerIDs>>
  BY DEF Closeout, At, contractVars
<1>2. Apart(l) /\ pc'[l] = "done" /\ loc'[l] = loc[l]
  BY <1>1, ApartByMove DEF Inv
<1>3. Silent(l)
  BY <1>1, <1>2 DEF Silent, Closeout, listenerVars
<1>4. Alive(l) /\ IsLocal(loc'[l]) /\ PlanHolds(l)'
  BY <1>1, <1>2 DEF Alive, Inv, Places, PlanHolds, Adjusting
<1>5. AloneIn(l[1]) => state[l[1]] = "available"
  BY <1>1, <1>4, StateTells DEF Active
<1>6. Own(l) => Own(l)'
  <2>1. Held(l[1])' = Held(l[1])
    BY <1>3 DEF Held, Silent
  <2> QED BY <1>1, <1>2, <2>1 DEF Own, Knows, Active, Adjusting
<1> QED
  BY <1>1, <1>2, <1>3, <1>4, <1>5, <1>6, SilentStep DEF PCs, Busy, Active

LEMMA PlanKeeps ==
  ASSUME Inv, NEW l \in Loops, Plan(l)
  PROVE  Workings'
<1>0. pc[l] = "plan" /\ UNCHANGED <<state, minerIDs>> /\ Alive(l)
  BY DEF Plan, At, localUnchanged, contractVars, Alive
<1>1. ASSUME NEW v, NEW mine, GotoWith(l, v, mine) PROVE Silent(l) /\ pc'[l] = v /\ loc'[l] = mine
  <2>1. Goto(l, v) /\ loc' = [loc EXCEPT ![l] = mine]
    BY <1>1 DEF GotoWith
  <2>2. Apart(l) /\ pc'[l] = v /\ loc'[l] = mine
    BY <2>1, ApartByGoto DEF Inv
  <2> QED BY <2>1, <2>2 DEF Silent, Plan, localUnchanged, loopUnchanged, listenerVars, Inv, Places
<1>2. AloneIn(l[1]) => state[l[1]] # "available"
  BY <1>0, StateTells DEF Active
<1>3. Silent(l) => Held(l[1])' = Held(l[1])
  BY DEF Held, Silent
<1>4. CASE GotoWith(l, "stop", NoLocal)
  <2>1. Silent(l) /\ pc'[l] = "stop" /\ loc'[l] = NoLocal
    BY <1>1, <1>4
  <2>2. IsLocal(loc'[l]) /\ PlanHolds(l)'
    BY <2>1, NothingToDo DEF PlanHolds, Adjusting
  <2>3. Own(l) => Own(l)'
    BY <1>0, <1>3, <2>1 DEF Own, Knows, Active, Adjusting
  <2> QED BY <1>0, <1>2, <2>1, <2>2, <2>3, SilentStep DEF PCs, Busy, Active
<1>5. CASE ~GotoWith(l, "stop", NoLocal)
  <2>0. loc[l].rest \in Int /\ loc[l].ids \subseteq Miners
    BY DEF Inv, Places, IsLocal
  <2>1. PICK comb \in Combinations(Unreserved(GetMinerSnapshot), loc[l].rest) :
           GotoWith(l, Past(comb, "allocate", "save"),
                    Local([m \in DOMAIN comb |-> [have |-> comb[m].Fraction, room |-> 0]],
                          0, loc[l].ids \cup IDs(comb)))
    BY <1>5 DEF Plan
  <2>2. /\ DOMAIN comb \subseteq Vetted
        /\ \A m \in DOMAIN comb : m \in Miners /\ comb[m].Fraction \in Int
    BY <2>0, CombinationNow DEF Inv
  <2>3. PICK t : t = [m \in DOMAIN comb |-> [have |-> comb[m].Fraction, room |-> 0]]
    OBVIOUS
  <2>4. DOMAIN t = DOMAIN comb /\ IsTodo(t)
    BY <2>2, <2>3 DEF IsTodo
  <2>5. PICK ids \in SUBSET Miners : ids = loc[l].ids \cup DOMAIN t
    BY <2>0, <2>2, <2>4
  <2>6. PICK mine : mine = Local(t, 0, ids)
    OBVIOUS
  <2>7. IsLocal(mine) /\ mine.todo = t /\ mine.ids = ids
    BY <2>4, <2>6 DEF IsLocal, Local
  <2>8. PICK v \in {"allocate", "save"} : v = Past(comb, "allocate", "save")
    BY DEF Past
  <2>9. Silent(l) /\ pc'[l] = v /\ loc'[l] = mine
    BY <1>1, <2>1, <2>3, <2>4, <2>5, <2>6, <2>8 DEF IDs
  <2>10. v \in Busy => DOMAIN t # {}
    BY <2>4, <2>8 DEF Past, Busy
  <2>11. PlanHolds(l)'
    <3>1. \A m \in DOMAIN t : status'[m] # "unvetted"
      BY <2>2, <2>4, <2>9 DEF Vetted, Silent
    <3> QED BY <2>7, <2>8, <2>9, <3>1 DEF PlanHolds, Adjusting
  <2>12. Own(l) => Own(l)'
    BY <1>0, <1>3, <2>5, <2>7, <2>8, <2>9 DEF Own, Knows, Active, Adjusting
  <2>13. v \in PCs \ {"off"} /\ v \in Active
    BY <2>8 DEF PCs, Active
  <2> QED BY <1>0, <1>2, <2>7, <2>9, <2>10, <2>11, <2>12, <2>13, SilentStep
<1> QED
  BY <1>4, <1>5

LEMMA CheckKeeps ==
  ASSUME Inv, NEW l \in Loops, Check(l)
  PROVE  Workings'
<1> DEFINE c == l[1]
<1>0. pc[l] = "check" /\ UNCHANGED <<state, minerIDs>> /\ Alive(l)
  BY DEF Check, At, localUnchanged, contractVars, Alive
<1>1. ASSUME NEW v, NEW mine, GotoWith(l, v, mine) PROVE Silent(l) /\ pc'[l] = v /\ loc'[l] = mine
  <2>1. Goto(l, v) /\ loc' = [loc EXCEPT ![l] = mine]
    BY <1>1 DEF GotoWith
  <2>2. Apart(l) /\ pc'[l] = v /\ loc'[l] = mine
    BY <2>1, ApartByGoto DEF Inv
  <2> QED BY <2>1, <2>2 DEF Silent, Check, localUnchanged, loopUnchanged, listenerVars, Inv, Places
<1>2. AloneIn(c) => state[c] # "available"
  BY <1>0, StateTells DEF Active
<1>3. Silent(l) => Held(c)' = Held(c)
  BY DEF Held, Silent
<1>4. ASSUME NEW v \in Active, NEW mine, IsLocal(mine), GotoWith(l, v, mine),
             v \in Busy => DOMAIN mine.todo # {}, Silent(l) => PlanHolds(l)',
             Silent(l) /\ Own(l) => Own(l)'
      PROVE  Workings'
  <2>1. Silent(l) /\ pc'[l] = v /\ loc'[l] = mine
    BY <1>1, <1>4
  <2>2. v \in PCs \ {"off"}
    BY <1>4 DEF Active, PCs
  <2> QED BY <1>0, <1>2, <1>4, <2>1, <2>2, SilentStep
<1>5. PICK snap : snap = SnapOf(c)
  OBVIOUS
<1>6. PICK total : total = TotalAllocated(Contract(GetMinerSnapshot, c))
  OBVIOUS
<1>7. c \in Contracts /\ Target[c] \in Nat \ {0}
  BY LoopShape, ContractsAssumption
<1>8. /\ DOMAIN snap = Held(c) /\ IsTodo(snap)
      /\ ~doubled => \A m \in DOMAIN snap : StillSo(split[m], c, snap[m])
      /\ total \in Int /\ (Held(c) = {} => total = 0)
  BY <1>5, <1>6, <1>7, SnapNow DEF Inv
<1>9. PICK gap \in Int : gap = Target[c] - total
  BY <1>7, <1>8
<1>10. \/ GotoWith(l, "stop", NoLocal)
       \/ GotoWith(l, "save", Local(Empty, 0, minerIDs[c]))
       \/ gap > 0 /\ GotoWith(l, Past(snap, "increase", "plan"), Local(snap, gap, {}))
       \/ gap < 0 /\ GotoWith(l, "decrease", Local(snap, -gap, {}))
  <2>1. WithinThreshold(Target[c], 0)
    <3>1. absInt(0) = 0
      BY DEF absInt
    <3> QED BY <1>7, <3>1 DEF WithinThreshold
  <2>2. ~WithinThreshold(Target[c], gap) => gap # 0
    BY <2>1
  <2> QED BY <1>5, <1>6, <1>9, <2>2 DEF Check
<1>11. CASE GotoWith(l, "stop", NoLocal)
  <2>1. Silent(l) => pc'[l] = "stop" /\ loc'[l] = NoLocal
    BY <1>1, <1>11
  <2>2. Silent(l) => PlanHolds(l)'
    BY <2>1 DEF PlanHolds, Adjusting
  <2>3. Silent(l) /\ Own(l) => Own(l)'
    BY <1>0, <1>3, <2>1 DEF Own, Knows, Active, Adjusting
  <2> QED BY <1>4, <1>11, <2>2, <2>3, NothingToDo DEF Active, Busy
<1>12. CASE GotoWith(l, "save", Local(Empty, 0, minerIDs[c]))
  <2>1. PICK mine : mine = Local(Empty, 0, minerIDs[c])
    OBVIOUS
  <2>2. IsLocal(mine) /\ mine.ids = minerIDs[c]
    BY <1>7, <2>1, NothingToDo DEF IsLocal, Local, Inv, Fields
  <2>3. pc'[l] = "save" /\ loc'[l] = mine
    BY <1>1, <1>12, <2>1
  <2>4. Silent(l) => PlanHolds(l)'
    BY <2>3 DEF PlanHolds, Adjusting
  <2>5. Silent(l) /\ Own(l) => Own(l)'
    BY <1>0, <1>3, <2>2, <2>3 DEF Own, Knows, Active, Adjusting
  <2> QED BY <1>4, <1>12, <2>1, <2>2, <2>4, <2>5 DEF Active, Busy
<1>13. CASE gap > 0 /\ GotoWith(l, Past(snap, "increase", "plan"), Local(snap, gap, {}))
  <2>1. PICK mine : mine = Local(snap, gap, {})
    OBVIOUS
  <2>2. IsLocal(mine) /\ mine.todo = snap /\ mine.ids = {}
    BY <1>8, <2>1 DEF IsLocal, Local
  <2>3. PICK v \in {"increase", "plan"} : v = Past(snap, "increase", "plan")
    BY DEF Past
  <2>4. pc'[l] = v /\ loc'[l] = mine /\ GotoWith(l, v, mine) /\ Silent(l)
    BY <1>1, <1>13, <2>1, <2>3
  <2>5. PlanHolds(l)'
    <3>1. ~doubled' => \A m \in DOMAIN snap : StillSo(split[m], c, snap[m])'
      BY <1>8, <2>4 DEF Silent, historyVars, StillSo
    <3> QED BY <2>2, <2>3, <2>4, <3>1 DEF PlanHolds
  <2>6. v = "plan" => Held(c) = {}
    BY <1>8, <2>3 DEF Past
  <2>7. Own(l) => Own(l)'
    BY <1>0, <1>3, <1>8, <2>2, <2>3, <2>4, <2>6 DEF Own, Knows, Active, Adjusting
  <2>8. v \in Active /\ (v \in Busy => DOMAIN mine.todo # {})
    BY <2>2, <2>3 DEF Active, Busy, Past
  <2> QED BY <1>4, <2>2, <2>4, <2>5, <2>7, <2>8
<1>14. CASE gap < 0 /\ GotoWith(l, "decrease", Local(snap, -gap, {}))
  <2>1. PICK mine : mine = Local(snap, -gap, {})
    OBVIOUS
  <2>2. IsLocal(mine) /\ mine.todo = snap /\ mine.ids = {} /\ mine.rest = -gap
    BY <1>8, <2>1 DEF IsLocal, Local
  <2>3. pc'[l] = "decrease" /\ loc'[l] = mine /\ GotoWith(l, "decrease", mine) /\ Silent(l)
    BY <1>1, <1>14, <2>1
  <2>4. PlanHolds(l)'
    <3>1. ~doubled' => \A m \in DOMAIN snap : StillSo(split[m], c, snap[m])'
      BY <1>8, <2>3 DEF Silent, historyVars, StillSo
    <3>2. mine.rest > 0
      BY <1>14, <2>2
    <3> QED BY <2>2, <2>3, <3>1, <3>2 DEF PlanHolds
  <2>5. Own(l) => Own(l)'
    BY <1>0, <1>3, <1>8, <2>2, <2>3 DEF Own, Knows, Active, Adjusting
  <2>6. Held(c) # {}
    BY <1>7, <1>8, <1>9, <1>14
  <2>7. DOMAIN mine.todo # {} /\ "decrease" \in Active
    BY <1>8, <2>2, <2>6 DEF Active
  <2> QED BY <1>4, <2>2, <2>3, <2>4, <2>5, <2>7
<1> QED
  BY <1>10, <1>11, <1>12, <1>13, <1>14

LEMMA StopByLoopKeeps ==
  ASSUME Inv, NEW l \in Loops, StopByLoop(l)
  PROVE  Workings'
<1> DEFINE c == l[1]
<1>0. pc[l] = "stop" /\ UNCHANGED minerIDs /\ Alive(l) /\ c \in Contracts
  BY LoopShape DEF StopByLoop, At, Alive
<1>1. AloneIn(c) => state[c] # "available"
  BY <1>0, StateTells DEF Active
<1>2. Silent(l) => Held(c)' = Held(c)
  BY DEF Held, Silent
<1>3. CASE state[c] = "available"
  <2>1. Goto(l, "closeout") /\ UNCHANGED <<state, loc>>
    BY <1>3 DEF StopByLoop
  <2>2. Apart(l) /\ pc'[l] = "closeout" /\ loc'[l] = loc[l]
    BY <2>1, ApartByMove DEF Inv
  <2>3. Silent(l)
    BY <2>1, <2>2 DEF Silent, StopByLoop, loopUnchanged, listenerVars
  <2>4. IsLocal(loc'[l]) /\ PlanHolds(l)'
    BY <2>2 DEF Inv, Places, PlanHolds, Adjusting
  <2> QED BY <1>0, <1>1, <1>3, <2>1, <2>2, <2>3, <2>4, SilentStep DEF PCs, Busy, Active
<1>4. CASE state[c] # "available"
  <2>1. PICK t : t = [m \in minerIDs[c] |-> [have |-> 0, room |-> 0]]
    OBVIOUS
  <2>2. DOMAIN t = minerIDs[c] /\ IsTodo(t)
    BY <1>0, <2>1 DEF IsTodo, Inv, Fields
  <2>3. PICK mine : mine = Local(t, 0, {})
    OBVIOUS
  <2>4. IsLocal(mine) /\ mine.todo = t
    BY <2>2, <2>3 DEF IsLocal, Local
  <2>5. PICK v \in {"dealloc", "closeout"} : v = Past(t, "dealloc", "closeout")
    BY DEF Past
  <2>6. state' = [state EXCEPT ![c] = "available"] /\ GotoWith(l, v, mine)
    BY <1>4, <2>1, <2>3, <2>5 DEF StopByLoop
  <2>7. Goto(l, v) /\ loc' = [loc EXCEPT ![l] = mine]
    BY <2>6 DEF GotoWith
  <2>8. Apart(l) /\ pc'[l] = v /\ loc'[l] = mine
    BY <2>7, ApartByGoto DEF Inv
  <2>9. Silent(l)
    BY <2>7, <2>8 DEF Silent, StopByLoop, loopUnchanged, listenerVars, Inv, Places
  <2>10. PlanHolds(l)'
    BY <2>5, <2>8 DEF PlanHolds, Adjusting
  <2>11. state'[c] = "available" /\ \A d \in Contracts : d # c => state'[d] = state[d]
    BY <1>0, <2>6 DEF Inv, Fields
  <2>12. v = "closeout" => minerIDs[c] = {}
    BY <2>2, <2>5 DEF Past
  <2>13. Own(l) => Own(l)'
    BY <1>0, <1>2, <2>2, <2>4, <2>5, <2>8, <2>9, <2>12 DEF Own, Knows, Active, Adjusting
  <2>14. v \in PCs \ {"off"} /\ v \notin Active /\ (v \in Busy => DOMAIN mine.todo # {})
    BY <2>4, <2>5 DEF PCs, Active, Busy, Past
  <2> QED BY <1>0, <2>4, <2>8, <2>9, <2>10, <2>11, <2>13, <2>14, SilentStep
<1> QED
  BY <1>3, <1>4
-----------------------------------------------------------------------------
(* The steps that write a split.                                            *)

LEMMA HeldAfter ==
  ASSUME NEW m \in Miners, NEW s, NEW me, NEW mine, Left(m, s, me, mine), NEW d \in Contracts
  PROVE  /\ Held(d)' \subseteq Held(d) \cup {m}
         /\ d \in Holders(s) => d \in Holders(split[m]) \/ m \in Held(d)'
         /\ (d \in Holders(s) => d \in Holders(split[m])) => Held(d)' \subseteq Held(d)
         /\ d \notin Holders(s) => m \notin Held(d)'
<1>1. \A n \in Miners : split'[n] = IF n = m THEN s ELSE split[n]
  BY DEF Left
<1>2. Held(d)' = {n \in Miners : d \in Holders(split'[n])}
  BY DEF Held
<1> QED
  BY <1>1, <1>2 DEF Held

LEMMA WriteStep ==
  ASSUME Inv, NEW l \in Loops, NEW m \in Miners, NEW s \in Splits(Contracts), NEW mine, IsLocal(mine),
         Left(m, s, l, mine), NEW v \in PCs, v # "off", Goto(l, v), Alive(l),
         v \in Busy => DOMAIN mine.todo # {}, v \in Active <=> pc[l] \in Active,
         UNCHANGED <<status, listener, state, minerIDs, overtaken>>,
         InOrder(s)', stale' \in BOOLEAN, stale => stale', crashed' \in BOOLEAN, crashed' => doubled',
         status[m] # "vetted" => Holders(s) = {}, Holders(s) \subseteq Holders(split[m]) \cup {l[1]},
         \A d \in Contracts : d # l[1] => forgotten'[d] = forgotten[d],
         forgotten[l[1]] => forgotten'[l[1]], PlanHolds(l)',
         Clear(l[1])' /\ Own(l) => Own(l)'
  PROVE  Workings'
<1>0. Apart(l) /\ pc'[l] = v /\ loc'[l] = mine
  BY ApartByWrite DEF Inv
<1>1. Places'
  BY <1>0, PlacesNext DEF Inv
<1>2. Shares'
  BY SharesWritten DEF Inv
<1>3. doubled => doubled'
  BY DEF Left
<1>4. Plans'
  <2>1. ASSUME NEW k \in Loops, k # l, pc[k] \in Adjusting, loc'[k].fresh, ~doubled'
        PROVE  loc[k].fresh /\ ~doubled /\ \A n \in Miners : split'[n] = split[n]
    <3>1. loc[k].fresh /\ s = split[m]
      BY <2>1 DEF Left
    <3>2. \A n \in Miners : split'[n] = split[n]
      BY <3>1 DEF Left
    <3> QED BY <1>3, <2>1, <3>1, <3>2
  <2> QED BY <1>0, <2>1, PlansNext DEF Inv
<1>5. Alone'
  <2>1. AloneIn(l[1]) => (state'[l[1]] # "available" <=> pc'[l] \in Active)
    BY <1>0, StateTells
  <2> QED BY <1>0, <2>1, AloneMoved DEF Inv
<1>6. Clear(l[1])' => Own(l)'
  <2>1. Clear(l[1])' => Clear(l[1])
    BY <1>3 DEF Clear
  <2> QED BY <2>1, OwnLoop DEF Inv
<1>7. Known'
  <2>1. ASSUME NEW d \in Contracts, d # l[1] PROVE Held(d)' \subseteq Held(d)
    <3>1. d \in Holders(s) => d \in Holders(split[m])
      BY <2>1
    <3> QED BY <3>1, HeldAfter
  <2> QED BY <1>0, <1>3, <1>6, <2>1, KnownMoved DEF Inv
<1> QED
  BY <1>1, <1>2, <1>4, <1>5, <1>7 DEF Workings

\* The split of a miner, if it is still there, and its place in the plan.
LEMMA TodoMiner ==
  ASSUME Inv, NEW l \in Loops, NEW m \in DOMAIN loc[l].todo
  PROVE  /\ m \in Miners /\ split[m] \in Splits(Contracts) /\ InOrder(split[m]) /\ l[1] \in Contracts
         /\ loc[l].todo[m].have \in Int /\ loc[l].todo[m].room \in Int
         /\ status[m] # "vetted" => Holders(split[m]) = {}
         /\ loc[l].rest \in Int /\ loc[l].ids \in SUBSET Miners
<1>1. IsLocal(loc[l]) /\ l[1] \in Contracts
  BY LoopShape DEF Inv, Places
<1>2. m \in Miners
  BY <1>1 DEF IsLocal, IsTodo
<1> QED
  BY <1>1, <1>2 DEF IsLocal, IsTodo, Inv, Shares

LEMMA AllocateKeeps ==
  ASSUME Inv, NEW l \in Loops, AllocateMiner(l)
  PROVE  Workings'
<1> DEFINE c == l[1]
<1>1. PICK m \in DOMAIN loc[l].todo :
         /\ Write(m, IF There(m) THEN Allocated(split[m], c, loc[l].todo[m].have) ELSE split[m],
                  l, Over(l, m, loc[l].rest, loc[l].ids))
         /\ Goto(l, Past(Over(l, m, loc[l].rest, loc[l].ids).todo, "allocate", "save"))
  BY DEF AllocateMiner
<1>2. /\ m \in Miners /\ split[m] \in Splits(Contracts) /\ InOrder(split[m]) /\ c \in Contracts
      /\ loc[l].todo[m].have \in Int /\ loc[l].rest \in Int /\ loc[l].ids \in SUBSET Miners
      /\ status[m] # "vetted" => Holders(split[m]) = {}
  BY TodoMiner
<1>3. PICK s : s = IF There(m) THEN Allocated(split[m], c, loc[l].todo[m].have) ELSE split[m]
  OBVIOUS
<1>4. PICK mine : mine = Over(l, m, loc[l].rest, loc[l].ids)
  OBVIOUS
<1>5. IsLocal(mine) /\ mine.todo = Without(loc[l].todo, m) /\ mine.ids = loc[l].ids
  BY <1>2, <1>4, OverIs DEF Inv, Places
<1>6. DOMAIN mine.todo = DOMAIN loc[l].todo \ {m}
  BY <1>5 DEF Without, Restrict
<1>7. PICK v \in {"allocate", "save"} : v = Past(mine.todo, "allocate", "save")
  BY DEF Past
<1>8. /\ s \in Splits(Contracts) /\ Holders(s) \subseteq Holders(split[m]) \cup {c}
      /\ AllPositive(split[m]) => AllPositive(s)
      /\ GetAllocated(split[m]) <= Whole => GetAllocated(s) <= Whole
  <2>1. PICK p \in Int : p = loc[l].todo[m].have
    BY <1>2
  <2> QED BY <1>2, <1>3, <2>1, AllocateEffect
<1>9. Left(m, s, l, mine) /\ Goto(l, v)
  BY <1>1, <1>2, <1>3, <1>4, <1>5, <1>7, <1>8, WriteEffect DEF Inv
<1>10. /\ pc[l] = "allocate" /\ Alive(l) /\ ~crashed
       /\ UNCHANGED <<state, minerIDs, stale, forgotten, overtaken, status, listener, crashed>>
  BY DEF AllocateMiner, At, Alive, contractVars, loopUnchanged, listenerVars
<1>11. InOrder(s)'
  BY <1>2, <1>8, <1>9, <1>10 DEF InOrder, Left
<1>12. status[m] # "vetted" => Holders(s) = {}
  <2>1. status[m] # "unvetted"
    BY <1>10 DEF Inv, Plans, PlanHolds
  <2>2. status[m] \in {"unvetted", "vetted", "gone"}
    BY <1>2 DEF Inv, World
  <2> QED BY <1>2, <1>3, <2>1, <2>2 DEF There
<1>13. pc'[l] = v /\ loc'[l] = mine
  BY <1>9, ApartByWrite DEF Inv
<1>14. PlanHolds(l)'
  <2>1. \A n \in DOMAIN mine.todo : status'[n] # "unvetted"
    BY <1>6, <1>10 DEF Inv, Plans, PlanHolds
  <2> QED BY <1>7, <1>13, <2>1 DEF PlanHolds, Adjusting
<1>15. Own(l) => Own(l)'
  <2>1. Held(c)' \subseteq Held(c) \cup {m}
    BY <1>2, <1>9, HeldAfter
  <2> QED BY <1>5, <1>6, <1>7, <1>10, <1>13, <2>1 DEF Own, Knows, Active, Adjusting
<1>16. v \in PCs /\ v # "off" /\ (v \in Busy => DOMAIN mine.todo # {}) /\ v \in Active /\ pc[l] \in Active
  BY <1>7, <1>10 DEF PCs, Busy, Active, Past
<1>17. stale' \in BOOLEAN /\ (stale => stale') /\ crashed' \in BOOLEAN /\ (crashed' => doubled')
  BY <1>10 DEF Inv, Shares
<1> QED
  BY <1>2, <1>5, <1>8, <1>9, <1>10, <1>11, <1>12, <1>14, <1>15, <1>16, <1>17, WriteStep

LEMMA IncreaseKeeps ==
  ASSUME Inv, NEW l \in Loops, Increase(l)
  PROVE  Workings'
<1> DEFINE c == l[1]
           Amount(m) == IF There(m) THEN ToAdd(m, loc[l].todo[m].have, loc[l].todo[m].room, loc[l].rest)
                        ELSE 0
           Mine(m) == Over(l, m, loc[l].rest - GHS(m, Amount(m)),
                           IF There(m) THEN loc[l].ids \cup {m} ELSE loc[l].ids)
<1>1. PICK m \in DOMAIN loc[l].todo :
         /\ Write(m, IF Amount(m) = 0 THEN split[m] ELSE IncreaseAllocation(split[m], c, Amount(m)),
                  l, Mine(m))
         /\ stale' = (stale \/ (Amount(m) # 0 /\ ~loc[l].fresh))
         /\ Goto(l, Past(Mine(m).todo, "increase", IF Mine(m).rest = 0 THEN "save" ELSE "plan"))
  BY DEF Increase
<1>2. /\ m \in Miners /\ split[m] \in Splits(Contracts) /\ InOrder(split[m]) /\ c \in Contracts
      /\ loc[l].todo[m].have \in Int /\ loc[l].todo[m].room \in Int
      /\ loc[l].rest \in Int /\ loc[l].ids \in SUBSET Miners
      /\ status[m] # "vetted" => Holders(split[m]) = {}
  BY TodoMiner
<1>3. PICK have \in Int, room \in Int : have = loc[l].todo[m].have /\ room = loc[l].todo[m].room
  BY <1>2
<1>4. PICK add \in Int : /\ add = Amount(m)
                         /\ add # 0 => /\ There(m) /\ have + add > 0
                                       /\ room >= 0 => add <= room
  <2>1. PICK a : a = ToAdd(m, have, room, loc[l].rest)
    OBVIOUS
  <2>2. a \in Int /\ (room >= 0 => a <= room) /\ (a # 0 => have + a > 0)
    BY <1>2, <1>3, <2>1, AddValue
  <2> QED BY <1>3, <2>1, <2>2
<1> HIDE DEF Amount
<1>5. PICK s : s = IF add = 0 THEN split[m] ELSE IncreaseAllocation(split[m], c, add)
  OBVIOUS
<1>6. PICK left \in Int : left = loc[l].rest - GHS(m, Amount(m))
  BY <1>2, <1>4, GHSValue
<1>7. PICK ids \in SUBSET Miners : ids = IF There(m) THEN loc[l].ids \cup {m} ELSE loc[l].ids
  BY <1>2
<1>8. PICK mine : mine = Over(l, m, left, ids)
  OBVIOUS
<1>9. /\ IsLocal(mine) /\ mine.todo = Without(loc[l].todo, m) /\ mine.ids = ids
      /\ mine.fresh = loc[l].fresh /\ mine = Mine(m)
  BY <1>6, <1>7, <1>8, OverIs DEF Inv, Places
<1> HIDE DEF Mine
<1>10. /\ DOMAIN mine.todo = DOMAIN loc[l].todo \ {m}
       /\ \A n \in DOMAIN mine.todo : mine.todo[n] = loc[l].todo[n]
  BY <1>9 DEF Without, Restrict
<1>11. PICK v \in {"increase", "save", "plan"} :
          /\ v = Past(mine.todo, "increase", IF mine.rest = 0 THEN "save" ELSE "plan")
          /\ v = "increase" <=> DOMAIN mine.todo # {}
  BY DEF Past
<1>12. /\ s \in Splits(Contracts) /\ Holders(s) = Holders(split[m])
       /\ NoDuplicates(split[m]) => NoDuplicates(s)
       /\ NoDuplicates(split[m]) /\ add # 0 => \A i \in DOMAIN split[m] : split[m][i].id = c =>
             /\ GetAllocated(s) = GetAllocated(split[m]) + add
             /\ AllPositive(split[m]) /\ split[m][i].pct + add > 0 => AllPositive(s)
  BY <1>2, <1>5, RaiseEffect
<1>13. Left(m, s, l, mine) /\ Goto(l, v)
  BY <1>1, <1>2, <1>4, <1>5, <1>9, <1>11, <1>12, WriteEffect DEF Inv
<1>14. /\ pc[l] = "increase" /\ Alive(l) /\ ~crashed
       /\ UNCHANGED <<state, minerIDs, forgotten, overtaken, status, listener, crashed>>
  BY DEF Increase, At, Alive, contractVars, loopUnchanged, listenerVars
<1>15. stale' = (stale \/ (add # 0 /\ ~loc[l].fresh))
  BY <1>1, <1>4
<1>16. InOrder(s)'
  <2>1. doubled' \/ NoDuplicates(s)
    BY <1>13 DEF Left
  <2>2. ASSUME ~stale', ~doubled' PROVE AllPositive(s) /\ GetAllocated(s) <= Whole
    <3>1. NoDuplicates(split[m]) /\ AllPositive(split[m]) /\ GetAllocated(split[m]) <= Whole /\ ~doubled
      BY <1>2, <1>13, <1>15, <2>2 DEF InOrder, Left
    <3>2. CASE add = 0
      BY <1>5, <3>1, <3>2
    <3>3. CASE add # 0
      <4>1. loc[l].fresh /\ status[m] # "gone"
        BY <1>4, <1>15, <2>2, <3>3 DEF There
      <4>2. StillSo(split[m], c, loc[l].todo[m])
        BY <1>14, <3>1, <4>1 DEF Inv, Plans, PlanHolds, There, Adjusting
      <4>3. PICK i \in DOMAIN split[m] : split[m][i].id = c /\ split[m][i].pct = have
        BY <1>3, <4>2 DEF StillSo
      <4>4. room = GetUnallocated(split[m])
        BY <1>3, <4>2 DEF StillSo
      <4>5. GetAllocated(s) = GetAllocated(split[m]) + add /\ AllPositive(s)
        BY <1>4, <1>12, <3>1, <3>3, <4>3
      <4>6. GetAllocated(split[m]) \in Int /\ Whole \in Int
        BY <1>2, TotalInt, PlanNumbers
      <4> QED BY <1>4, <3>1, <3>3, <4>4, <4>5, <4>6 DEF GetUnallocated
    <3> QED BY <3>2, <3>3
  <2> QED BY <2>1, <2>2 DEF InOrder
<1>17. pc'[l] = v /\ loc'[l] = mine
  BY <1>13, ApartByWrite DEF Inv
<1>18. PlanHolds(l)'
  <2>1. ASSUME v = "increase", mine.fresh, ~doubled', NEW n \in DOMAIN mine.todo, status'[n] # "gone"
        PROVE  StillSo(split'[n], c, mine.todo[n])
    <3>1. n \in Miners /\ n # m /\ n \in DOMAIN loc[l].todo
      BY <1>10, <2>1 DEF Inv, Places, IsLocal, IsTodo
    <3>2. split'[n] = split[n] /\ ~doubled /\ loc[l].fresh
      BY <1>9, <1>13, <2>1, <3>1 DEF Left
    <3>3. StillSo(split[n], c, loc[l].todo[n])
      BY <1>14, <2>1, <3>1, <3>2 DEF Inv, Plans, PlanHolds, There, Adjusting
    <3> QED BY <1>10, <2>1, <3>2, <3>3
  <2> QED BY <1>11, <1>17, <2>1 DEF PlanHolds, Adjusting, There, StillSo
<1>19. Own(l) => Own(l)'
  <2>1. Held(c)' \subseteq Held(c)
    BY <1>2, <1>12, <1>13, HeldAfter
  <2>2. m \in Held(c) => m \in ids
    BY <1>2, <1>7 DEF Held, There
  <2>3. loc[l].ids \subseteq ids
    BY <1>7
  <2> QED BY <1>9, <1>10, <1>11, <1>14, <1>17, <2>1, <2>2, <2>3 DEF Own, Knows, Active, Adjusting
<1>20. v \in PCs /\ v # "off" /\ (v \in Busy => DOMAIN mine.todo # {}) /\ v \in Active /\ pc[l] \in Active
  BY <1>11, <1>14 DEF PCs, Busy, Active
<1>21. stale' \in BOOLEAN /\ (stale => stale') /\ crashed' \in BOOLEAN /\ (crashed' => doubled')
  BY <1>14, <1>15 DEF Inv, Shares
<1> QED
  BY <1>2, <1>9, <1>12, <1>13, <1>14, <1>16, <1>18, <1>19, <1>20, <1>21, WriteStep

LEMMA DecreaseKeeps ==
  ASSUME Inv, NEW l \in Loops, Decrease(l)
  PROVE  Workings'
<1> DEFINE c == l[1]
           Cut(m) == IF There(m) THEN Decreased(split[m], c, m, loc[l].todo[m].have, loc[l].rest)
                     ELSE split[m]
           Takes(m) == TakesAll(m, loc[l].todo[m].have, loc[l].rest)
           Mine(m) == Over(l, m, IF There(m) THEN loc[l].rest - Removed(m, loc[l].todo[m].have, loc[l].rest)
                                 ELSE loc[l].rest,
                           IF There(m) /\ ~Takes(m) THEN loc[l].ids \cup {m} ELSE loc[l].ids)
<1>1. PICK m \in DOMAIN loc[l].todo :
         /\ Write(m, Cut(m), l, Mine(m))
         /\ stale' = (stale \/ (~loc[l].fresh /\ GetAllocated(Cut(m)) > GetAllocated(split[m])))
         /\ Goto(l, IF Mine(m).rest <= 0 THEN "save" ELSE Past(Mine(m).todo, "decrease", "save"))
         /\ forgotten' = [forgotten EXCEPT ![c] =
                             @ \/ (Mine(m).rest <= 0 /\ DOMAIN Mine(m).todo # {})]
  BY DEF Decrease, SortedFirst
<1>2. /\ m \in Miners /\ split[m] \in Splits(Contracts) /\ InOrder(split[m]) /\ c \in Contracts
      /\ loc[l].todo[m].have \in Int
      /\ loc[l].rest \in Int /\ loc[l].ids \in SUBSET Miners
      /\ status[m] # "vetted" => Holders(split[m]) = {}
  BY TodoMiner
<1>3. PICK have \in Int, rest \in Int : have = loc[l].todo[m].have /\ rest = loc[l].rest
  BY <1>2
<1>4. PICK s : s = Cut(m)
  OBVIOUS
<1>5. /\ s \in Splits(Contracts) /\ Holders(s) \subseteq Holders(split[m])
      /\ NoDuplicates(split[m]) => NoDuplicates(s)
      /\ NoDuplicates(split[m]) /\ AllPositive(split[m]) => AllPositive(s)
      /\ NoDuplicates(split[m]) /\ There(m) /\ Takes(m) => c \notin Holders(s)
      /\ NoDuplicates(split[m]) /\ AllPositive(split[m]) /\ rest > 0 =>
            \A i \in DOMAIN split[m] : split[m][i].id = c /\ split[m][i].pct = have =>
               GetAllocated(s) <= GetAllocated(split[m])
  <2>1. GetAllocated(split[m]) \in Int
    BY <1>2, TotalInt
  <2>2. CASE ~There(m)
    BY <1>2, <1>4, <2>1, <2>2
  <2>3. CASE There(m)
    <3>1. s = Decreased(split[m], c, m, have, rest) /\ (Takes(m) <=> TakesAll(m, have, rest))
      BY <1>3, <1>4, <2>3
    <3> QED BY <1>2, <1>3, <3>1, DecreaseEffect
  <2> QED BY <2>2, <2>3
<1>6. PICK left \in Int : left = IF There(m) THEN loc[l].rest - Removed(m, loc[l].todo[m].have, loc[l].rest)
                                 ELSE loc[l].rest
  BY <1>2, LowerValue
<1>7. PICK ids \in SUBSET Miners : ids = IF There(m) /\ ~Takes(m) THEN loc[l].ids \cup {m} ELSE loc[l].ids
  BY <1>2
<1>8. PICK mine : mine = Over(l, m, left, ids)
  OBVIOUS
<1>9. /\ IsLocal(mine) /\ mine.todo = Without(loc[l].todo, m) /\ mine.ids = ids /\ mine.rest = left
      /\ mine.fresh = loc[l].fresh /\ mine = Mine(m)
  BY <1>6, <1>7, <1>8, OverIs DEF Inv, Places
<1> HIDE DEF Mine, Cut, Takes
<1>10. /\ DOMAIN mine.todo = DOMAIN loc[l].todo \ {m}
       /\ \A n \in DOMAIN mine.todo : mine.todo[n] = loc[l].todo[n]
  BY <1>9 DEF Without, Restrict
<1>11. PICK v \in {"decrease", "save"} :
          /\ v = IF mine.rest <= 0 THEN "save" ELSE Past(mine.todo, "decrease", "save")
          /\ v = "decrease" <=> ~(mine.rest <= 0) /\ DOMAIN mine.todo # {}
  BY DEF Past
<1>12. Left(m, s, l, mine) /\ Goto(l, v)
  BY <1>1, <1>2, <1>4, <1>5, <1>9, <1>11, WriteEffect DEF Inv
<1>13. /\ pc[l] = "decrease" /\ Alive(l) /\ ~crashed
       /\ UNCHANGED <<state, minerIDs, overtaken, status, listener, crashed>>
  BY DEF Decrease, At, Alive, contractVars, loopUnchanged, listenerVars
<1>14. stale' = (stale \/ (~loc[l].fresh /\ GetAllocated(s) > GetAllocated(split[m])))
  BY <1>1, <1>4
<1>15. /\ forgotten'[c] <=> forgotten[c] \/ (mine.rest <= 0 /\ DOMAIN mine.todo # {})
       /\ \A d \in Contracts : d # c => forgotten'[d] = forgotten[d]
  BY <1>1, <1>2, <1>9 DEF Inv, Fields
<1>16. InOrder(s)'
  <2>1. doubled' \/ NoDuplicates(s)
    BY <1>12 DEF Left
  <2>2. ASSUME ~stale', ~doubled' PROVE AllPositive(s) /\ GetAllocated(s) <= Whole
    <3>1. NoDuplicates(split[m]) /\ AllPositive(split[m]) /\ GetAllocated(split[m]) <= Whole /\ ~doubled
      BY <1>2, <1>12, <1>14, <2>2 DEF InOrder, Left
    <3>2. GetAllocated(split[m]) \in Int /\ GetAllocated(s) \in Int /\ Whole \in Int
      BY <1>2, <1>5, TotalInt, PlanNumbers
    <3>3. GetAllocated(s) <= GetAllocated(split[m])
      <4>1. CASE ~loc[l].fresh
        <5>1. ~(GetAllocated(s) > GetAllocated(split[m]))
          BY <1>14, <2>2, <4>1
        <5> QED BY <3>2, <5>1
      <4>2. CASE ~There(m)
        BY <1>4, <3>2, <4>2 DEF Cut
      <4>3. CASE loc[l].fresh /\ There(m)
        <5>1. StillSo(split[m], c, loc[l].todo[m])
          BY <1>13, <3>1, <4>3 DEF Inv, Plans, PlanHolds, Adjusting
        <5>2. PICK i \in DOMAIN split[m] : split[m][i].id = c /\ split[m][i].pct = have
          BY <1>3, <5>1 DEF StillSo
        <5>3. rest > 0
          BY <1>3, <1>13 DEF Inv, Plans, PlanHolds
        <5> QED BY <1>5, <3>1, <5>2, <5>3
      <4> QED BY <4>1, <4>2, <4>3
    <3>4. AllPositive(s)
      BY <1>5, <3>1
    <3> QED BY <3>1, <3>2, <3>3, <3>4
  <2> QED BY <2>1, <2>2 DEF InOrder
<1>17. pc'[l] = v /\ loc'[l] = mine
  BY <1>12, ApartByWrite DEF Inv
<1>18. PlanHolds(l)'
  <2>1. ASSUME v = "decrease", mine.fresh, ~doubled', NEW n \in DOMAIN mine.todo, status'[n] # "gone"
        PROVE  StillSo(split'[n], c, mine.todo[n])
    <3>1. n \in Miners /\ n # m /\ n \in DOMAIN loc[l].todo
      BY <1>10, <2>1 DEF Inv, Places, IsLocal, IsTodo
    <3>2. split'[n] = split[n] /\ ~doubled /\ loc[l].fresh
      BY <1>9, <1>12, <2>1, <3>1 DEF Left
    <3>3. StillSo(split[n], c, loc[l].todo[n])
      BY <1>13, <2>1, <3>1, <3>2 DEF Inv, Plans, PlanHolds, There, Adjusting
    <3> QED BY <1>10, <2>1, <3>2, <3>3
  <2>2. v = "decrease" => mine.rest > 0
    BY <1>6, <1>9, <1>11
  <2> QED BY <1>11, <1>17, <2>1, <2>2 DEF PlanHolds, Adjusting, There, StillSo
<1>19. Clear(c)' /\ Own(l) => Own(l)'
  <2> SUFFICES ASSUME Clear(c)', Own(l) PROVE Own(l)'
    OBVIOUS
  <2>1. Held(c)' \subseteq Held(c)
    BY <1>2, <1>5, <1>12, HeldAfter
  <2>2. NoDuplicates(split[m])
    BY <1>2, <1>12 DEF Clear, InOrder, Left
  <2>3. m \in Held(c)' => m \in ids
    <3>1. CASE c \notin Holders(s)
      BY <1>2, <1>12, <3>1, HeldAfter
    <3>2. CASE c \in Holders(s)
      <4>1. There(m)
        BY <1>2, <1>5, <3>2 DEF There
      <4> QED BY <1>5, <1>7, <2>2, <3>2, <4>1
    <3> QED BY <3>1, <3>2
  <2>4. v = "save" => DOMAIN mine.todo = {}
    BY <1>11, <1>15 DEF Clear
  <2>5. loc[l].ids \subseteq ids
    BY <1>7
  <2> QED BY <1>9, <1>10, <1>11, <1>13, <1>17, <2>1, <2>3, <2>4, <2>5 DEF Own, Knows, Active, Adjusting
<1>20. v \in PCs /\ v # "off" /\ (v \in Busy => DOMAIN mine.todo # {}) /\ v \in Active /\ pc[l] \in Active
  BY <1>11, <1>13 DEF PCs, Busy, Active
<1>21. stale' \in BOOLEAN /\ (stale => stale') /\ crashed' \in BOOLEAN /\ (crashed' => doubled')
  BY <1>13, <1>14 DEF Inv, Shares
<1>22. Holders(s) \subseteq Holders(split[m]) \cup {c} /\ (status[m] # "vetted" => Holders(s) = {})
  BY <1>2, <1>5
<1> QED
  BY <1>2, <1>5, <1>9, <1>12, <1>13, <1>15, <1>16, <1>18, <1>19, <1>20, <1>21, <1>22, WriteStep

LEMMA DeallocateKeeps ==
  ASSUME Inv, NEW l \in Loops, DeallocateByLoop(l)
  PROVE  Workings'
<1> DEFINE c == l[1]
           Mine(m) == Local(Without(loc[l].todo, m), 0, {})
<1>1. PICK m \in DOMAIN loc[l].todo :
         /\ Write(m, IF There(m) THEN Deallocated(split[m], c).now ELSE split[m], l, Mine(m))
         /\ crashed' = (There(m) /\ Deallocated(split[m], c).panic)
         /\ Goto(l, Past(Mine(m).todo, "dealloc", "closeout"))
  BY DEF DeallocateByLoop
<1>2. /\ m \in Miners /\ split[m] \in Splits(Contracts) /\ InOrder(split[m]) /\ c \in Contracts
      /\ status[m] # "vetted" => Holders(split[m]) = {}
  BY TodoMiner
<1>3. PICK r : r = Deallocated(split[m], c)
  OBVIOUS
<1>4. PICK s : s = IF There(m) THEN r.now ELSE split[m]
  OBVIOUS
<1>5. /\ s \in Splits(Contracts) /\ Holders(s) \subseteq Holders(split[m]) /\ r.panic \in BOOLEAN
      /\ NoDuplicates(split[m]) => ~r.panic /\ NoDuplicates(s) /\ c \notin Holders(s)
      /\ NoDuplicates(split[m]) /\ AllPositive(split[m])
            => AllPositive(s) /\ GetAllocated(s) <= GetAllocated(split[m])
  <2>1. /\ r.now \in Splits(Contracts) /\ Holders(r.now) \subseteq Holders(split[m]) /\ r.panic \in BOOLEAN
    BY <1>2, <1>3, DeallocateType
  <2>2. NoDuplicates(split[m]) =>
           /\ ~r.panic /\ NoDuplicates(r.now) /\ c \notin Holders(r.now)
           /\ AllPositive(split[m]) => AllPositive(r.now) /\ GetAllocated(r.now) <= GetAllocated(split[m])
    BY <1>2, <1>3, DeallocateEffect
  <2>3. GetAllocated(split[m]) \in Int
    BY <1>2, TotalInt
  <2>4. ~There(m) => c \notin Holders(split[m])
    BY <1>2 DEF There
  <2> QED BY <1>2, <1>4, <2>1, <2>2, <2>3, <2>4
<1>6. PICK t : t = Without(loc[l].todo, m)
  OBVIOUS
<1>7. IsTodo(t) /\ DOMAIN t = DOMAIN loc[l].todo \ {m}
  <2>1. IsTodo(loc[l].todo)
    BY DEF Inv, Places, IsLocal
  <2> QED BY <1>6, <2>1 DEF IsTodo, Without, Restrict
<1>8. PICK mine : mine = Local(t, 0, {})
  OBVIOUS
<1>9. IsLocal(mine) /\ mine.todo = t /\ mine = Mine(m)
  BY <1>6, <1>7, <1>8 DEF IsLocal, Local
<1> HIDE DEF Mine
<1>10. PICK v \in {"dealloc", "closeout"} : v = Past(t, "dealloc", "closeout")
  BY DEF Past
<1>11. Left(m, s, l, mine) /\ Goto(l, v)
  BY <1>1, <1>2, <1>3, <1>4, <1>5, <1>9, <1>10, WriteEffect DEF Inv
<1>12. /\ pc[l] = "dealloc" /\ Alive(l)
       /\ UNCHANGED <<state, minerIDs, stale, forgotten, overtaken, status, listener>>
  BY DEF DeallocateByLoop, At, Alive, contractVars, listenerVars
<1>13. crashed' \in BOOLEAN /\ (crashed' => doubled')
  BY <1>1, <1>2, <1>3, <1>5, <1>11 DEF InOrder, Left, There
<1>14. InOrder(s)'
  <2>1. GetAllocated(split[m]) \in Int /\ GetAllocated(s) \in Int /\ Whole \in Int
    BY <1>2, <1>5, TotalInt, PlanNumbers
  <2>2. doubled' \/ NoDuplicates(s)
    BY <1>11 DEF Left
  <2>3. ASSUME ~stale, ~doubled' PROVE AllPositive(s) /\ GetAllocated(s) <= Whole
    <3>1. NoDuplicates(split[m]) /\ AllPositive(split[m]) /\ GetAllocated(split[m]) <= Whole
      BY <1>2, <1>11, <2>3 DEF InOrder, Left
    <3> QED BY <1>5, <2>1, <3>1
  <2> QED BY <1>12, <2>2, <2>3 DEF InOrder
<1>15. pc'[l] = v /\ loc'[l] = mine
  BY <1>11, ApartByWrite DEF Inv
<1>16. PlanHolds(l)'
  BY <1>10, <1>15 DEF PlanHolds, Adjusting
<1>17. Clear(c)' /\ Own(l) => Own(l)'
  <2> SUFFICES ASSUME Clear(c)', Own(l) PROVE Own(l)'
    OBVIOUS
  <2>1. NoDuplicates(split[m])
    BY <1>2, <1>11 DEF Clear, InOrder, Left
  <2>2. Held(c)' \subseteq Held(c) /\ m \notin Held(c)'
    BY <1>2, <1>5, <1>11, <2>1, HeldAfter
  <2>3. v = "closeout" => DOMAIN t = {}
    BY <1>10 DEF Past
  <2> QED BY <1>7, <1>9, <1>10, <1>12, <1>15, <2>2, <2>3 DEF Own, Knows, Active, Adjusting
<1>18. v \in PCs /\ v # "off" /\ (v \in Busy => DOMAIN mine.todo # {}) /\ (v \in Active <=> pc[l] \in Active)
  BY <1>9, <1>10, <1>12 DEF PCs, Busy, Active, Past
<1>19. stale' \in BOOLEAN /\ (stale => stale')
  BY <1>12 DEF Inv, Shares
<1>20. Holders(s) \subseteq Holders(split[m]) \cup {c} /\ (status[m] # "vetted" => Holders(s) = {})
  BY <1>2, <1>5
<1> QED
  BY <1>2, <1>5, <1>9, <1>11, <1>12, <1>13, <1>14, <1>16, <1>17, <1>18, <1>19, <1>20, WriteStep
-----------------------------------------------------------------------------
(* External steps and those of the listener.                                *)

LEMMA NothingMoved ==
  ASSUME Inv, UNCHANGED <<split, status, state, minerIDs, listener, pc, loc, crashed, historyVars>>
  PROVE  Workings'
<1>1. Places' /\ Shares'
  BY SharesKept DEF Inv, Places, historyVars
<1>2. Plans'
  BY DEF Inv, Plans, PlanHolds, There, historyVars
<1>3. Alone'
  BY AloneKept DEF Inv, historyVars
<1>4. Known'
  BY DEF Inv, Known, Clear, KnownIn, Knows, Held, historyVars
<1> QED
  BY <1>1, <1>2, <1>3, <1>4 DEF Workings

\* A miner is vetted, or leaves.
LEMMA MinersChange ==
  ASSUME Inv, NEW m \in Miners, MinerVetted(m) \/ MinerGone(m)
  PROVE  Workings'
<1>0. UNCHANGED <<state, minerIDs, listener, pc, loc, crashed, stale, doubled, forgotten, overtaken>>
  BY DEF MinerVetted, MinerGone, extUnchanged, contractVars, listenerVars, historyVars
<1>1. PICK w \in {"vetted", "gone"} : status' = [status EXCEPT ![m] = w] /\ (w = "vetted" => status[m] = "unvetted")
  BY DEF MinerVetted, MinerGone
<1>2. \A n \in Miners : status'[n] = IF n = m THEN w ELSE status[n]
  BY <1>1 DEF Inv, World
<1>3. PICK none : none = <<>>
  OBVIOUS
<1>4. /\ none \in Splits(Contracts) /\ Holders(none) = {} /\ NoDuplicates(none) /\ AllPositive(none)
      /\ GetAllocated(none) <= Whole
  <2>1. GetAllocated(none) = 0
    BY <1>3, TotalEmpty
  <2>2. none \in Splits(Contracts) /\ DOMAIN none = {}
    BY <1>3 DEF Splits
  <2> QED BY <2>1, <2>2, PlanNumbers DEF Holders, NoDuplicates, AllPositive
<1>5. /\ split' \in [Miners -> Splits(Contracts)]
      /\ \A n \in Miners : split'[n] = split[n] \/ (n = m /\ w = "gone" /\ split'[n] = none)
      /\ w = "gone" => split'[m] = none
  <2>1. CASE MinerVetted(m)
    BY <1>1, <2>1 DEF MinerVetted, Inv, Shares, World
  <2>2. CASE MinerGone(m)
    <3>1. split' = [split EXCEPT ![m] = none]
      BY <1>3, <2>2 DEF MinerGone
    <3>2. status' = [status EXCEPT ![m] = "gone"]
      BY <2>2 DEF MinerGone
    <3>3. w = "gone"
      BY <1>2, <3>2 DEF Inv, World
    <3> QED BY <1>4, <3>1, <3>3 DEF Inv, Shares
  <2> QED BY <2>1, <2>2
<1>6. Shares'
  <2>1. ASSUME NEW n \in Miners
        PROVE  InOrder(split[n])' /\ (status'[n] # "vetted" => Holders(split'[n]) = {})
    <3>1. InOrder(split[n]) /\ (status[n] # "vetted" => Holders(split[n]) = {})
      BY DEF Inv, Shares
    <3>2. CASE split'[n] = none
      BY <1>4, <3>2 DEF InOrder
    <3>3. CASE split'[n] # none
      <4>1. split'[n] = split[n] /\ (status'[n] # "vetted" => status[n] # "vetted")
        BY <1>2, <1>5, <3>3
      <4> QED BY <1>0, <3>1, <4>1 DEF InOrder
    <3> QED BY <3>2, <3>3
  <2> QED BY <1>0, <1>5, <2>1 DEF Inv, Shares
<1>7. Places'
  BY <1>0 DEF Inv, Places
<1>8. Plans'
  <2>1. \A n \in Miners : /\ status'[n] = "unvetted" => status[n] = "unvetted"
                          /\ status'[n] # "gone" => status[n] # "gone" /\ split'[n] = split[n]
    BY <1>1, <1>2, <1>5
  <2> QED BY <1>0, <2>1, PlanKept DEF Inv, Plans
<1>9. Alone'
  BY <1>0, AloneKept DEF Inv
<1>10. Known'
  <2>1. ASSUME NEW d \in Contracts PROVE Held(d)' \subseteq Held(d)
    BY <1>4, <1>5 DEF Held
  <2>2. ASSUME NEW d \in Contracts, Clear(d)' PROVE KnownIn(d)'
    BY <1>0, <2>1, <2>2, KnownElsewhere DEF Inv
  <2> QED BY <2>2 DEF Known
<1> QED
  BY <1>6, <1>7, <1>8, <1>9, <1>10 DEF Workings

\* A loop is started, by the subscription or by a purchase.
LEMMA LoopStarts ==
  ASSUME Inv, NEW c \in Contracts, NEW l \in LoopsOf(c), pc[l] = "off",
         NEW v \in {"boot", "start", "done"}, Goto(l, v),
         UNCHANGED <<split, status, state, minerIDs, loc, crashed, stale, doubled, forgotten>>,
         \A d \in Contracts : d # c => listener'[d] = listener[d] /\ overtaken'[d] = overtaken[d],
         overtaken[c] => overtaken'[c], listener'[c] = "listen",
         ~overtaken'[c] => \A k \in LoopsOf(c) : ~Alive(k)
  PROVE  Workings'
<1>0. l \in Loops /\ l[1] = c
  BY LoopsOfOne
<1>1. Apart(l) /\ pc'[l] = v /\ loc'[l] = loc[l]
  BY <1>0, ApartByMove DEF Inv
<1>2. v \in PCs /\ v \notin Busy /\ v \notin Active /\ v # "off" /\ v \notin Adjusting
  BY DEF PCs, Busy, Active, Adjusting
<1>3. Places'
  BY <1>0, <1>1, <1>2, PlacesNext DEF Inv, Places
<1>4. Shares'
  BY SharesKept DEF Inv
<1>5. Plans'
  <2>1. PlanHolds(l)'
    BY <1>1, <1>2 DEF PlanHolds, Adjusting
  <2> QED BY <1>0, <1>1, <2>1, PlansNext DEF Inv
<1>6. Alone'
  <2>1. ASSUME NEW d \in Contracts, ~overtaken'[d] PROVE AloneIn(d)'
    <3>1. CASE d = c
      <4>1. AloneIn(c) /\ (\A k \in LoopsOf(c) : k \in Loops /\ pc[k] \in {"off", "done"})
        BY <2>1, <3>1, LoopsOfOne DEF Inv, Alone, Alive
      <4>2. \A k \in LoopsOf(c) : pc'[k] \notin Active /\ (pc'[k] \notin {"off", "done"} => k = l)
        BY <1>1, <1>2, <4>1 DEF Apart, Active
      <4>3. state'[c] = "available"
        BY <4>1 DEF AloneIn, Active
      <4> QED BY <3>1, <4>1, <4>2, <4>3 DEF AloneIn, Alive
    <3>2. CASE d # c
      <4>1. AloneIn(d) /\ \A k \in LoopsOf(d) : k \in Loops /\ k # l
        BY <1>0, <2>1, <3>2, LoopsOfOne DEF Inv, Alone
      <4>2. \A k \in LoopsOf(d) : pc'[k] = pc[k]
        BY <1>1, <4>1 DEF Apart
      <4> QED BY <3>2, <4>1, <4>2 DEF AloneIn, Alive
    <3> QED BY <3>1, <3>2
  <2>2. ASSUME NEW d \in Contracts, listener'[d] = "start", NEW k \in LoopsOf(d) PROVE pc'[k] = "off"
    <3>1. d # c /\ listener[d] = "start" /\ k \in Loops /\ k[1] = d
      BY <2>2, LoopsOfOne
    <3> QED BY <1>0, <1>1, <3>1 DEF Inv, Alone, Apart
  <2> QED BY <2>1, <2>2 DEF Alone
<1>7. Known'
  <2>0. \A d \in Contracts : Held(d)' = Held(d)
    BY DEF Held
  <2>1. ASSUME NEW d \in Contracts, Clear(d)' PROVE KnownIn(d)'
    <3>1. CASE d = c
      <4>1. Clear(c) /\ \A k \in LoopsOf(c) : k \in Loops /\ pc[k] \in {"off", "done"}
        BY <2>1, <3>1, LoopsOfOne DEF Inv, Clear, Alive
      <4>2. Held(c) = {}
        BY <4>1 DEF Inv, Known, KnownIn, Active
      <4>3. \A k \in LoopsOf(c) : pc'[k] \in {"off", "boot", "start", "done"}
        BY <1>1, <4>1 DEF Apart
      <4>4. \A k \in LoopsOf(c) : Knows(k)'
        BY <4>3 DEF Knows, Adjusting
      <4> QED BY <2>0, <3>1, <4>2, <4>4 DEF KnownIn
    <3>2. CASE d # c
      <4>1. \A k \in LoopsOf(d) : k \in Loops /\ k # l
        BY <1>0, <3>2, LoopsOfOne
      <4>2. \A k \in LoopsOf(d) : pc'[k] = pc[k] /\ loc'[k].todo = loc[k].todo /\ loc'[k].ids = loc[k].ids
        BY <1>1, <4>1 DEF Apart
      <4> QED BY <2>0, <2>1, <3>2, <4>2, KnownElsewhere DEF Inv
    <3> QED BY <3>1, <3>2
  <2> QED BY <2>1 DEF Known
<1> QED
  BY <1>3, <1>4, <1>5, <1>6, <1>7 DEF Workings

LEMMA SubscribeKeeps ==
  ASSUME Inv, NEW c \in Contracts, Subscribe(c)
  PROVE  Workings'
<1>1. <<c, 0>> \in LoopsOf(c)
  <2>1. 0 \in 0..MaxTerms
    BY BoundsAssumption
  <2> QED BY <2>1 DEF LoopsOf
<1>a. PICK l \in LoopsOf(c) : l = <<c, 0>>
  BY <1>1
<1>2. PICK v \in {"boot", "start", "done"} : v = IF data[c] = 0 THEN "done" ELSE "boot"
  OBVIOUS
<1>3. /\ listener[c] = "start" /\ listener' = [listener EXCEPT ![c] = "listen"] /\ Goto(l, v)
      /\ UNCHANGED <<split, status, state, minerIDs, loc, crashed, stale, doubled, forgotten, overtaken>>
  BY <1>a, <1>2 DEF Subscribe, ListenerAt, contractVars, listenerUnchanged
<1>4. listener'[c] = "listen" /\ \A d \in Contracts : d # c => listener'[d] = listener[d]
  BY <1>3 DEF Inv, Fields
<1>5. pc[l] = "off" /\ \A k \in LoopsOf(c) : ~Alive(k)
  BY <1>3 DEF Inv, Alone, Alive
<1> QED
  BY <1>3, <1>4, <1>5, LoopStarts

LEMMA PurchasedKeeps ==
  ASSUME Inv, NEW c \in Contracts, Purchased(c)
  PROVE  Workings'
<1>1. PICK i \in 1..MaxTerms : pc[<<c, i>>] = "off" /\ Goto(<<c, i>>, "start")
  BY DEF Purchased
<1>2. <<c, i>> \in LoopsOf(c)
  <2>1. i \in 0..MaxTerms
    BY BoundsAssumption
  <2> QED BY <2>1 DEF LoopsOf
<1>3. PICK l \in LoopsOf(c) : l = <<c, i>>
  BY <1>2
<1>4. PICK v \in {"boot", "start", "done"} : v = "start"
  OBVIOUS
<1>5. /\ UNCHANGED <<split, status, state, minerIDs, loc, crashed, stale, doubled, forgotten, listener>>
      /\ overtaken' = [overtaken EXCEPT ![c] = overtaken[c] \/ \E k \in LoopsOf(c) : Alive(k)]
  BY DEF Purchased, listenerVars, listenerUnchanged
<1>6. listener[c] = "listen"
  BY DEF Purchased, Take, ListenerAt
<1>7. /\ \A d \in Contracts : d # c => overtaken'[d] = overtaken[d]
      /\ overtaken'[c] <=> overtaken[c] \/ \E k \in LoopsOf(c) : Alive(k)
  BY <1>5 DEF Inv, Fields
<1> QED
  BY <1>1, <1>3, <1>4, <1>5, <1>6, <1>7, LoopStarts

LEMMA ClosedKeeps ==
  ASSUME Inv, NEW c \in Contracts, Closed(c)
  PROVE  Workings'
<1>0. UNCHANGED <<split, status, minerIDs, pc, loc, crashed, stale, doubled, forgotten>>
  BY DEF Closed, listenerUnchanged
<1>1. CASE state[c] = "available"
  <2>1. UNCHANGED <<state, listener, overtaken>>
    BY <1>1 DEF Closed, listenerVars
  <2> QED BY <1>0, <2>1, NothingMoved DEF historyVars
<1>2. CASE state[c] # "available"
  <2>1. /\ state' = [state EXCEPT ![c] = "available"]
        /\ listener' = [listener EXCEPT ![c] = IF minerIDs[c] = {} THEN listener[c] ELSE "dealloc"]
        /\ overtaken' = [overtaken EXCEPT ![c] = overtaken[c] \/ \E l \in LoopsOf(c) : Alive(l)]
        /\ listener[c] = "listen"
    BY <1>2 DEF Closed, Take, ListenerAt
  <2>2. /\ \A d \in Contracts : d # c => /\ state'[d] = state[d] /\ listener'[d] = listener[d]
                                         /\ overtaken'[d] = overtaken[d]
        /\ listener'[c] # "start"
        /\ overtaken'[c] <=> overtaken[c] \/ \E l \in LoopsOf(c) : Alive(l)
    BY <2>1 DEF Inv, Fields
  <2>3. overtaken'[c]
    <3>1. ~overtaken[c] => \E l \in LoopsOf(c) : pc[l] \in Active
      BY <1>2 DEF Inv, Alone, AloneIn
    <3> QED BY <2>2, <3>1 DEF Alive, Active
  <2>4. Places' /\ Shares'
    BY <1>0, SharesKept DEF Inv, Places
  <2>5. Plans'
    BY <1>0 DEF Inv, Plans, PlanHolds, There
  <2>6. Alone'
    <3>1. ASSUME NEW d \in Contracts
          PROVE  /\ listener'[d] = "start" => \A l \in LoopsOf(d) : pc'[l] = "off"
                 /\ ~overtaken'[d] => AloneIn(d)'
      <4>1. CASE d = c
        BY <2>2, <2>3, <4>1
      <4>2. CASE d # c
        BY <1>0, <2>2, <4>2 DEF Inv, Alone, AloneIn, Alive
      <4> QED BY <4>1, <4>2
    <3> QED BY <3>1 DEF Alone
  <2>7. Known'
    <3>1. ASSUME NEW d \in Contracts, Clear(d)' PROVE KnownIn(d)'
      <4>1. d # c /\ overtaken'[d] = overtaken[d] /\ Held(d)' = Held(d)
        BY <1>0, <2>2, <2>3, <3>1 DEF Clear, Held
      <4> QED BY <1>0, <3>1, <4>1, KnownElsewhere DEF Inv
    <3> QED BY <3>1 DEF Known
  <2> QED BY <2>4, <2>5, <2>6, <2>7 DEF Workings
<1> QED
  BY <1>1, <1>2

LEMMA ListenerDeallocates ==
  ASSUME Inv, NEW c \in Contracts, DeallocateByListener(c)
  PROVE  Workings'
<1>1. PICK m \in stopping[c] :
         /\ Write(m, IF There(m) THEN Deallocated(split[m], c).now ELSE split[m], <<c>>, NoLocal)
         /\ crashed' = (There(m) /\ Deallocated(split[m], c).panic)
         /\ listener' = [listener EXCEPT ![c] = IF stopping[c] = {m} THEN "listen" ELSE listener[c]]
  BY DEF DeallocateByListener
<1>2. /\ m \in Miners /\ split[m] \in Splits(Contracts) /\ InOrder(split[m])
      /\ status[m] # "vetted" => Holders(split[m]) = {}
  BY DEF Inv, Fields, Shares
<1>3. PICK r : r = Deallocated(split[m], c)
  OBVIOUS
<1>4. PICK s : s = IF There(m) THEN r.now ELSE split[m]
  OBVIOUS
<1>5. /\ s \in Splits(Contracts) /\ Holders(s) \subseteq Holders(split[m]) /\ r.panic \in BOOLEAN
      /\ NoDuplicates(split[m]) => ~r.panic /\ NoDuplicates(s)
      /\ NoDuplicates(split[m]) /\ AllPositive(split[m])
            => AllPositive(s) /\ GetAllocated(s) <= GetAllocated(split[m])
  <2>1. /\ r.now \in Splits(Contracts) /\ Holders(r.now) \subseteq Holders(split[m]) /\ r.panic \in BOOLEAN
    BY <1>2, <1>3, DeallocateType
  <2>2. NoDuplicates(split[m]) =>
           /\ ~r.panic /\ NoDuplicates(r.now)
           /\ AllPositive(split[m]) => AllPositive(r.now) /\ GetAllocated(r.now) <= GetAllocated(split[m])
    BY <1>2, <1>3, DeallocateEffect
  <2>3. GetAllocated(split[m]) \in Int
    BY <1>2, TotalInt
  <2> QED BY <1>2, <1>4, <2>1, <2>2, <2>3
<1>6. PICK me : me = <<c>>
  OBVIOUS
<1>7. PICK mine : mine = NoLocal
  OBVIOUS
<1>8. IsLocal(mine) /\ \A l \in Loops : l # me
  BY <1>6, <1>7, NothingToDo, ListenerIsNoLoop
<1>9. Left(m, s, me, mine)
  BY <1>1, <1>2, <1>3, <1>4, <1>5, <1>6, <1>7, <1>8, WriteEffect DEF Inv
<1>10. /\ listener[c] = "dealloc"
       /\ UNCHANGED <<state, minerIDs, stale, forgotten, overtaken, status, pc>>
  BY DEF DeallocateByListener, ListenerAt, contractVars
<1>11. /\ \A d \in Contracts : d # c => listener'[d] = listener[d]
       /\ listener'[c] # "start" /\ overtaken[c]
  BY <1>1, <1>10 DEF Inv, Fields, Alone, AloneIn
<1>12. \A l \in Loops : /\ IsLocal(loc'[l]) /\ loc'[l].todo = loc[l].todo
                        /\ loc'[l].rest = loc[l].rest /\ loc'[l].ids = loc[l].ids
                        /\ pc[l] \in Adjusting /\ loc'[l].fresh => loc[l].fresh /\ s = split[m]
  BY <1>8, <1>9 DEF Left
<1>13. doubled => doubled'
  BY <1>9 DEF Left
<1>14. Places'
  BY <1>9, <1>10, <1>12 DEF Inv, Places, Left
<1>15. Shares'
  <2>1. crashed' \in BOOLEAN /\ (crashed' => doubled')
    BY <1>1, <1>2, <1>3, <1>5, <1>9 DEF InOrder, Left, There
  <2>2. GetAllocated(split[m]) \in Int /\ GetAllocated(s) \in Int /\ Whole \in Int
    BY <1>2, <1>5, TotalInt, PlanNumbers
  <2>3. InOrder(s)'
    <3>1. doubled' \/ NoDuplicates(s)
      BY <1>9 DEF Left
    <3>2. ASSUME ~stale, ~doubled' PROVE AllPositive(s) /\ GetAllocated(s) <= Whole
      <4>1. NoDuplicates(split[m]) /\ AllPositive(split[m]) /\ GetAllocated(split[m]) <= Whole
        BY <1>2, <1>9, <3>2 DEF InOrder, Left
      <4> QED BY <1>5, <2>2, <4>1
    <3> QED BY <1>10, <3>1, <3>2 DEF InOrder
  <2>4. stale' \in BOOLEAN /\ (stale => stale')
    BY <1>10 DEF Inv, Shares
  <2> QED BY <1>2, <1>5, <1>9, <1>10, <2>1, <2>3, <2>4, SharesWritten DEF Inv
<1>16. Plans'
  <2>1. ASSUME NEW k \in Loops PROVE PlanHolds(k)'
    <3>1. pc[k] \in Adjusting /\ loc'[k].fresh /\ ~doubled'
            => /\ loc[k].fresh /\ ~doubled
               /\ \A n \in Miners : status'[n] # "gone" => status[n] # "gone" /\ split'[n] = split[n]
      BY <1>9, <1>10, <1>12, <1>13 DEF Left
    <3> QED BY <1>10, <1>12, <3>1, PlanKept DEF Inv, Plans
  <2> QED BY <2>1 DEF Plans
<1>17. Alone'
  <2>1. ASSUME NEW d \in Contracts
        PROVE  /\ listener'[d] = "start" => \A l \in LoopsOf(d) : pc'[l] = "off"
               /\ ~overtaken'[d] => AloneIn(d)'
    <3>1. CASE d = c
      BY <1>10, <1>11, <3>1
    <3>2. CASE d # c
      BY <1>10, <1>11, <3>2 DEF Inv, Alone, AloneIn, Alive
    <3> QED BY <3>1, <3>2
  <2> QED BY <2>1 DEF Alone
<1>18. Known'
  <2>1. ASSUME NEW d \in Contracts, Clear(d)' PROVE KnownIn(d)'
    <3>1. Held(d)' \subseteq Held(d)
      <4>1. d \in Holders(s) => d \in Holders(split[m])
        BY <1>5
      <4> QED BY <1>2, <1>9, <4>1, HeldAfter
    <3>2. \A k \in LoopsOf(d) : pc'[k] = pc[k] /\ loc'[k].todo = loc[k].todo /\ loc'[k].ids = loc[k].ids
      BY <1>10, <1>12, LoopsOfOne
    <3> QED BY <1>10, <1>13, <2>1, <3>1, <3>2, KnownElsewhere DEF Inv
  <2> QED BY <2>1 DEF Known
<1> QED
  BY <1>14, <1>15, <1>16, <1>17, <1>18 DEF Workings
-----------------------------------------------------------------------------
LEMMA InvKept == Inv /\ [Next]_vars => Inv'
<1> SUFFICES ASSUME Inv, [Next]_vars PROVE Inv'
  OBVIOUS
<1>1. ASSUME UNCHANGED <<split, status, state, minerIDs, listener, pc, loc, crashed, historyVars>>
      PROVE  Workings'
  BY <1>1, NothingMoved
<1>2. ASSUME External PROVE Workings'
  <2>1. ASSUME NEW c \in Contracts, Purchase(c) \/ Cancel(c) \/ TermEnds(c) \/ UpdatePurchaseInformation(c)
        PROVE  Workings'
    BY <1>1, <2>1 DEF Purchase, Cancel, TermEnds, UpdatePurchaseInformation, extUnchanged,
                      contractVars, listenerVars
  <2> QED BY <1>2, <2>1, MinersChange DEF External
<1>3. ASSUME NEW l \in Loops, LoopStep(l) PROVE Workings'
  BY <1>3, BootKeeps, FulfillKeeps, PlanKeeps, AllocateKeeps, SaveKeeps, CheckKeeps, IncreaseKeeps,
     DecreaseKeeps, StopByLoopKeeps, DeallocateKeeps, CloseoutKeeps DEF LoopStep
<1>4. ASSUME NEW c \in Contracts, Listen(c) PROVE Workings'
  <2>1. CASE Updated(c) \/ LoadFails(c)
    BY <1>1, <2>1 DEF Updated, LoadFails, contractVars, listenerVars, listenerUnchanged, historyVars
  <2> QED BY <1>4, <2>1, SubscribeKeeps, PurchasedKeeps, ClosedKeeps, ListenerDeallocates DEF Listen
<1>5. CASE Next
  <2>1. World' /\ Fields'
    BY <1>5, WorldKept, FieldsKept DEF Inv
  <2>2. Workings'
    BY <1>2, <1>3, <1>4, <1>5 DEF Next
  <2> QED BY <2>1, <2>2 DEF Inv, Workings
<1>6. CASE UNCHANGED vars
  <2>1. Workings'
    BY <1>1, <1>6 DEF vars, contractVars, listenerVars
  <2>2. World' /\ Fields'
    BY <1>6 DEF Inv, World, Fields, vars, chainVars, contractVars, listenerVars, historyVars
  <2> QED BY <2>1, <2>2 DEF Inv, Workings
<1> QED
  BY <1>5, <1>6

LEMMA Invariance == Spec => []Inv
BY InitInv, InvKept, PTL DEF Spec

\* What the state of a contract, a loop, a miner may be.
THEOREM FulfilmentTypeCorrect == Spec => []TypeOK
<1>1. Inv => TypeOK
  <2> SUFFICES ASSUME Inv PROVE TypeOK
    OBVIOUS
  <2>1. split \in [Miners -> Seq([id : Contracts, pct : Int])]
    BY DEF Inv, Shares, Splits
  <2>2. \A l \in Loops : /\ DOMAIN loc[l].todo \subseteq Miners /\ loc[l].ids \subseteq Miners
                         /\ loc[l].rest \in Int /\ loc[l].fresh \in BOOLEAN
                         /\ pc[l] \in {"allocate", "increase", "decrease", "dealloc"}
                              => DOMAIN loc[l].todo # {}
    BY DEF Inv, Places, IsLocal, IsTodo, Busy
  <2> QED BY <2>1, <2>2 DEF TypeOK, Inv, World, Fields, Places, Shares
<1> QED
  BY <1>1, Invariance, PTL

\* No miner is divided beyond its whole and no goroutine panics, whatever the order
\* in which contracts are purchased, adjusted and stopped, unless a share was raised
\* from an outdated snapshot or a miner was given two shares of a contract.
THEOREM SharesStaySound == Spec => []SharesSound
<1>1. Inv => SharesSound
  BY DEF Inv, Shares, InOrder, SharesSound
<1> QED
  BY <1>1, Invariance, PTL

\* Between two adjustments minerIDs names every miner that serves the contract.
THEOREM MinersTracked == Spec => []TracksMiners
<1>1. Inv => TracksMiners
  <2> SUFFICES ASSUME Inv, NEW c \in Contracts, NEW l \in LoopsOf(c), pc[l] \in {"check", "stop"}, Clear(c)
               PROVE  Held(c) \subseteq minerIDs[c]
    BY DEF TracksMiners, Clear
  <2>1. Knows(l) /\ l[1] = c
    BY LoopsOfOne DEF Inv, Known, KnownIn
  <2> QED BY <2>1 DEF Knows
<1> QED
  BY <1>1, Invariance, PTL

\* A contract that nobody works on any more has left every miner.
THEOREM StopLeavesNone == Spec => []StopReleases
<1>1. Inv => StopReleases
  <2> SUFFICES ASSUME Inv, NEW c \in Contracts, Quiet(c), Clear(c) PROVE Held(c) = {}
    BY DEF StopReleases, Clear
  <2>1. KnownIn(c) /\ \A l \in LoopsOf(c) : pc[l] \in {"off", "done"}
    BY DEF Inv, Known, Quiet, Alive
  <2> QED BY <2>1 DEF KnownIn, Active
<1> QED
  BY <1>1, Invariance, PTL
-----------------------------------------------------------------------------
(* The calls on a miner are those of AtomicSplit, of which only the operators are used: a   *)
(* call is one step here, so none is ever under way.                                        *)

Calls == INSTANCE AtomicSplit WITH Callers <- Loops, Shares <- Int,
            call <- [l \in Loops |-> [st |-> "none"]], regular <- ~doubled

\* Those who call for contract c on miner m: a loop of c that has it still to go over, or
\* the listener of c while it stops the contract.
Calling(c, m) == \/ \E l \in LoopsOf(c) : pc[l] \in Busy /\ m \in DOMAIN loc[l].todo
                 \/ listener[c] = "dealloc" /\ m \in stopping[c]

Called(m, s) == \E o \in Calls!Requests : Calling(o.id, m) /\ s = Calls!Effect(o, split[m])
Leaves(m) == status[m] # "gone" /\ status'[m] = "gone" /\ split'[m] = <<>>

OneCall == \A m \in Miners : split'[m] # split[m] =>
              /\ \A n \in Miners \ {m} : split'[n] = split[n]
              /\ doubled \/ Leaves(m) \/ Called(m, split'[m])

\* An instance has operators of its own, the same as those of DestSplit.
LEMMA SameOperations ==
  ASSUME NEW s, NEW id, NEW p
  PROVE  /\ Calls!adjustPercentage(p) = adjustPercentage(p)
         /\ Calls!GetUnallocated(s) = GetUnallocated(s)
         /\ Calls!insert(s, id, p) = insert(s, id, p)
         /\ \A room : Calls!Refused(p, room) <=> Refused(p, room)
         /\ Calls!IncreaseAllocation(s, id, p) = IncreaseAllocation(s, id, p)
         /\ Calls!SetFractionByID(s, id, p) = SetFractionByID(s, id, p)
         /\ Calls!RemoveByID(s, id) = RemoveByID(s, id)
<1>1. Calls!adjustPercentage(p) = adjustPercentage(p)
  BY DEF Calls!adjustPercentage, adjustPercentage
<1>2. Calls!GetUnallocated(s) = GetUnallocated(s)
  BY DEF Calls!GetUnallocated, Calls!GetAllocated, GetUnallocated, GetAllocated
<1>3. Calls!insert(s, id, p) = insert(s, id, p)
  BY DEF Calls!insert, Calls!Share, insert, Share
<1>4. \A room : Calls!Refused(p, room) <=> Refused(p, room)
  BY DEF Calls!Refused, Refused
<1>5. Calls!IndexFrom(s, id, 1) = IndexFrom(s, id, 1)
  BY DEF Calls!IndexFrom, Calls!SelectInSubSeq, Calls!Min, IndexFrom, SelectInSubSeq, Min
<1>6. \A i : Calls!RemoveAt(s, i) = RemoveAt(s, i)
  BY DEF Calls!RemoveAt, RemoveAt
<1>7. Calls!IncreaseAllocation(s, id, p) = IncreaseAllocation(s, id, p)
  BY <1>5 DEF Calls!IncreaseAllocation, IncreaseAllocation
<1>8. Calls!SetFractionByID(s, id, p) = SetFractionByID(s, id, p)
  BY <1>5 DEF Calls!SetFractionByID, SetFractionByID
<1>9. Calls!RemoveByID(s, id) = RemoveByID(s, id)
  BY <1>5, <1>6 DEF Calls!RemoveByID, RemoveByID
<1> QED
  BY <1>1, <1>2, <1>3, <1>4, <1>7, <1>8, <1>9

LEMMA RequestsAre ==
  ASSUME NEW id \in Contracts, NEW p \in Int
  PROVE  /\ Calls!Waiting("allocate", id, adjustPercentage(p)) \in Calls!Requests
         /\ Calls!Waiting("increase", id, p) \in Calls!Requests
         /\ Calls!Waiting("set", id, p) \in Calls!Requests
         /\ Calls!Waiting("remove", id, 0) \in Calls!Requests
<1>1. Calls!Waiting("allocate", id, Calls!adjustPercentage(p)) \in Calls!Requests
  BY DEF Calls!Requests
<1>2. \A k \in {"increase", "set"} : Calls!Waiting(k, id, p) \in Calls!Requests
  BY DEF Calls!Requests
<1>3. Calls!Waiting("remove", id, 0) \in Calls!Requests
  BY DEF Calls!Requests
<1> QED
  BY <1>1, <1>2, <1>3, SameOperations

LEMMA EffectsAre ==
  ASSUME NEW id, NEW p, NEW s
  PROVE  /\ Calls!Effect(Calls!Waiting("allocate", id, p), s)
              = IF Refused(p, GetUnallocated(s)) THEN s ELSE insert(s, id, p)
         /\ Calls!Effect(Calls!Waiting("increase", id, p), s) = IncreaseAllocation(s, id, p)
         /\ Calls!Effect(Calls!Waiting("set", id, p), s) = SetFractionByID(s, id, p)
         /\ Calls!Effect(Calls!Waiting("remove", id, p), s) = RemoveByID(s, id)
<1>1. \A k : /\ Calls!Waiting(k, id, p).kind = k /\ Calls!Waiting(k, id, p).id = id
             /\ Calls!Waiting(k, id, p).pct = p
  BY DEF Calls!Waiting
<1> QED
  BY <1>1, SameOperations DEF Calls!Effect

\* What the writes of this module make of a split is what a call makes of it.
LEMMA CallMade ==
  ASSUME NEW m, NEW id \in Contracts, NEW p \in Int, Calling(id, m), NEW s,
         \/ s = Allocated(split[m], id, p)
         \/ s = IncreaseAllocation(split[m], id, p)
         \/ s = SetFractionByID(split[m], id, p)
         \/ s = RemoveByID(split[m], id)
  PROVE  Called(m, s)
<1> DEFINE q == adjustPercentage(p)
<1>1. \A kind, r : Calls!Waiting(kind, id, r).id = id
  BY DEF Calls!Waiting
<1>2. CASE s = Allocated(split[m], id, p)
  <2>1. s = Calls!Effect(Calls!Waiting("allocate", id, q), split[m])
    BY <1>2, EffectsAre DEF Allocated
  <2> QED BY <1>1, <2>1, RequestsAre DEF Called
<1>3. CASE s = IncreaseAllocation(split[m], id, p)
  BY <1>1, <1>3, RequestsAre, EffectsAre DEF Called
<1>4. CASE s = SetFractionByID(split[m], id, p)
  BY <1>1, <1>4, RequestsAre, EffectsAre DEF Called
<1>5. CASE s = RemoveByID(split[m], id)
  BY <1>1, <1>5, RequestsAre, EffectsAre DEF Called
<1> QED
  BY <1>2, <1>3, <1>4, <1>5

\* A decrease is one removal or one change of a share.
LEMMA DecreaseIsCall ==
  ASSUME NEW I, NEW s \in Splits(I), NoDuplicates(s), NEW id, NEW m \in Miners,
         NEW have \in Int, NEW rest \in Int
  PROVE  \/ Decreased(s, id, m, have, rest) = RemoveByID(s, id)
         \/ \E p \in Int : Decreased(s, id, m, have, rest) = SetFractionByID(s, id, p)
<1> DEFINE gone == RemoveByID(s, id)
           new == NewFraction(m, have, rest)
<1>1. new \in Int
  BY LowerValue
<1>2. gone \in Splits(I) /\ id \notin Holders(gone)
  BY RemoveEffect
<1> HIDE DEF gone, new
<1>3. SetFractionByID(gone, id, new) = gone
  BY <1>1, <1>2, FractionEffect
<1> QED
  BY <1>1, <1>3 DEF Decreased, gone, new

LEMMA OneWritten ==
  ASSUME Inv, NEW m \in Miners, NEW s, NEW me, NEW mine, Write(m, s, me, mine),
         doubled \/ s = split[m] \/ Called(m, s)
  PROVE  OneCall
<1>1. split'[m] = s /\ \A n \in Miners : n # m => split'[n] = split[n]
  BY DEF Write, Inv, Shares
<1> QED
  BY <1>1 DEF OneCall

\* Every write of a loop is a call for its contract.
LEMMA LoopCalls ==
  ASSUME Inv, NEW l \in Loops, LoopStep(l)
  PROVE  OneCall
<1> DEFINE c == l[1]
<1>1. c \in Contracts /\ l \in LoopsOf(c)
  BY LoopShape
<1>2. ASSUME NEW m \in DOMAIN loc[l].todo
      PROVE  /\ m \in Miners /\ split[m] \in Splits(Contracts)
             /\ doubled \/ NoDuplicates(split[m])
             /\ loc[l].todo[m].have \in Int /\ loc[l].todo[m].room \in Int /\ loc[l].rest \in Int
             /\ pc[l] \in Busy => Calling(c, m)
  BY <1>1, TodoMiner DEF InOrder, Calling
<1>3. CASE UNCHANGED split
  BY <1>3 DEF OneCall
<1>4. CASE AllocateMiner(l)
  <2>1. PICK m, s, mine :
           /\ m \in DOMAIN loc[l].todo
           /\ Write(m, s, l, mine)
           /\ s = split[m] \/ s = Allocated(split[m], c, loc[l].todo[m].have)
    BY <1>4 DEF AllocateMiner
  <2>2. Calling(c, m)
    BY <1>2, <1>4, <2>1 DEF AllocateMiner, At, Busy
  <2>3. s = split[m] \/ Called(m, s)
    BY <1>1, <1>2, <2>1, <2>2, CallMade
  <2> QED BY <1>2, <2>1, <2>3, OneWritten
<1>5. CASE Increase(l)
  <2>1. PICK m, s, mine, add :
           /\ m \in DOMAIN loc[l].todo
           /\ Write(m, s, l, mine)
           /\ add = 0 \/ add = ToAdd(m, loc[l].todo[m].have, loc[l].todo[m].room, loc[l].rest)
           /\ s = IF add = 0 THEN split[m] ELSE IncreaseAllocation(split[m], c, add)
    BY <1>5 DEF Increase
  <2>2. add \in Int
    BY <1>2, <2>1, AddValue
  <2>3. Calling(c, m)
    BY <1>2, <1>5, <2>1 DEF Increase, At, Busy
  <2>4. s = split[m] \/ Called(m, s)
    BY <1>1, <1>2, <2>1, <2>2, <2>3, CallMade
  <2> QED BY <1>2, <2>1, <2>4, OneWritten
<1>6. CASE Decrease(l)
  <2>1. PICK m, s, mine :
           /\ m \in DOMAIN loc[l].todo
           /\ Write(m, s, l, mine)
           /\ \/ s = split[m]
              \/ s = Decreased(split[m], c, m, loc[l].todo[m].have, loc[l].rest)
    BY <1>6 DEF Decrease, SortedFirst
  <2>2. Calling(c, m)
    BY <1>2, <1>6, <2>1 DEF Decrease, At, Busy
  <2>3. doubled \/ s = split[m] \/ Called(m, s)
    BY <1>1, <1>2, <2>1, <2>2, DecreaseIsCall, CallMade
  <2> QED BY <1>2, <2>1, <2>3, OneWritten
<1>7. CASE DeallocateByLoop(l)
  <2>1. PICK m, s, mine :
           /\ m \in DOMAIN loc[l].todo
           /\ Write(m, s, l, mine)
           /\ (s = split[m] \/ s = Deallocated(split[m], c).now)
    BY <1>7 DEF DeallocateByLoop
  <2>2. Calling(c, m)
    BY <1>2, <1>7, <2>1 DEF DeallocateByLoop, At, Busy
  <2>3. doubled \/ s = split[m] \/ s = RemoveByID(split[m], c)
    BY <1>2, <2>1, DeallocateEffect
  <2>4. doubled \/ s = split[m] \/ Called(m, s)
    BY <1>1, <2>2, <2>3, CallMade
  <2> QED BY <1>2, <2>1, <2>4, OneWritten
<1>8. CASE Boot(l) \/ Fulfill(l) \/ Plan(l) \/ Save(l) \/ Check(l) \/ StopByLoop(l) \/ Closeout(l)
  BY <1>3, <1>8 DEF Boot, Fulfill, Plan, Save, Check, StopByLoop, Closeout, localUnchanged
<1> QED
  BY <1>4, <1>5, <1>6, <1>7, <1>8 DEF LoopStep

\* So is every write of a listener; no other step touches a split but that by which a miner
\* leaves.
LEMMA ListenerCalls ==
  ASSUME Inv, NEW c \in Contracts, Listen(c)
  PROVE  OneCall
<1>1. CASE DeallocateByListener(c)
  <2>1. PICK m, s :
           /\ m \in stopping[c]
           /\ Write(m, s, <<c>>, NoLocal)
           /\ (s = split[m] \/ s = Deallocated(split[m], c).now)
    BY <1>1 DEF DeallocateByListener
  <2>2. m \in Miners /\ split[m] \in Splits(Contracts) /\ (doubled \/ NoDuplicates(split[m]))
    BY <2>1 DEF Inv, Fields, Shares, InOrder
  <2>3. Calling(c, m)
    BY <1>1, <2>1 DEF DeallocateByListener, ListenerAt, Calling
  <2>4. doubled \/ s = split[m] \/ s = RemoveByID(split[m], c)
    BY <2>1, <2>2, DeallocateEffect
  <2>5. doubled \/ s = split[m] \/ Called(m, s)
    BY <2>3, <2>4, CallMade
  <2> QED BY <2>1, <2>2, <2>5, OneWritten
<1>2. CASE ~DeallocateByListener(c)
  BY <1>2 DEF Listen, Subscribe, Purchased, Updated, LoadFails, Closed, listenerUnchanged, OneCall
<1> QED
  BY <1>1, <1>2

LEMMA StepsCall == Inv /\ [Next]_vars => OneCall
<1> SUFFICES ASSUME Inv, [Next]_vars PROVE OneCall
  OBVIOUS
<1>1. CASE External
  <2>1. CASE \E m \in Miners : MinerGone(m)
    <3>1. PICK m \in Miners : MinerGone(m)
      BY <2>1
    <3>2. /\ \A n \in Miners : n # m => split'[n] = split[n]
          /\ split'[m] = <<>> /\ status[m] # "gone" /\ status'[m] = "gone"
      BY <3>1 DEF MinerGone, Inv, World, Shares
    <3> QED BY <3>2 DEF OneCall, Leaves
  <2>2. CASE ~\E m \in Miners : MinerGone(m)
    BY <1>1, <2>2 DEF External, Purchase, Cancel, TermEnds, UpdatePurchaseInformation, MinerVetted, OneCall
  <2> QED BY <2>1, <2>2
<1>2. CASE UNCHANGED vars
  BY <1>2 DEF vars, OneCall
<1> QED
  BY <1>1, <1>2, LoopCalls, ListenerCalls DEF Next

\* Whoever divides a miner does it by one call at a time, made for a contract that has the
\* miner still to go over, and what the call makes of the split is what AtomicSplit, and with
\* it the scheduler, promises; once a miner has had two shares of one contract, Deallocate
\* and a decrease that finds both are no single call any more
\* (global_scheduler_service.go:149-335, on_demand_miner_scheduler.go:106-138).
THEOREM DividedByCalls == Spec => [][OneCall]_vars
BY Invariance, StepsCall, PTL DEF Spec
=============================================================================
