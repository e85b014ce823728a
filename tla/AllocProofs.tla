----------------------------- MODULE AllocProofs -----------------------------
(***************************************************************************)
(* Lemmas the other proof modules share: how the sums and folds of the     *)
(* allocation come out.  They are recursive functions, so each fact is     *)
(* proved by induction; the principle is stated for a set of               *)
(* counterexamples, which has a least element.                             *)
(***************************************************************************)
EXTENDS DestSplit, ClosestSubset, TLAPS, WellFoundedInduction, FiniteSetTheorems, SequenceTheorems

\* A non-empty set of naturals has a least element.
LEMMA Least ==
  ASSUME NEW T \in SUBSET Nat, T # {}
  PROVE  \E x \in T : \A y \in T : x <= y
<1> DEFINE R == OpToRel(<, Nat)
<1>1. IsWellFoundedOn(R, Nat)
  BY NatLessThanWellFounded
<1>2. \A x, y \in Nat : y < x => <<y, x>> \in R
  BY DEF OpToRel
<1> HIDE DEF R
<1>3. PICK x \in T : \A y \in T : ~(<<y, x>> \in R)
  BY <1>1, WFMin
<1>4. \A y \in T : y \in Nat /\ ~(y < x)
  BY <1>2, <1>3
<1> QED
  BY <1>3, <1>4

\* A set that holds 0, and n + 1 with every n < m, holds 0..m.
LEMMA Induction ==
  ASSUME NEW m \in Nat, NEW H, 0 \in H,
         \A n \in 0..m : n \in H /\ n < m => n + 1 \in H
  PROVE  0..m \subseteq H /\ m \in H
<1> DEFINE T == (0..m) \ H
<1>0. m \in 0..m
  OBVIOUS
<1> SUFFICES ASSUME T # {} PROVE FALSE
  BY <1>0
<1>1. PICK x \in T : \A y \in T : x <= y
  <2>1. T \in SUBSET Nat
    OBVIOUS
  <2> HIDE DEF T
  <2> QED BY <2>1, Least
<1>2. x \in 1..m /\ x - 1 \in 0..m /\ x - 1 \notin T
  BY <1>1
<1> QED
  BY <1>1, <1>2
-----------------------------------------------------------------------------
(* Sums over finite sets.                                                   *)

\* The element a sum over a set begins with, and the sums over its subsets.
Some(s) == CHOOSE y \in s : TRUE
Rest(s) == s \ {Some(s)}
SumTable(f, S) ==
    CHOOSE g : g = [s \in SUBSET S |-> IF s = {} THEN 0 ELSE f[Some(s)] + g[Rest(s)]]

LEMMA SumIsTable ==
  ASSUME NEW f, NEW S
  PROVE  SumFunctionOnSet(f, S) = SumTable(f, S)[S]
BY DEF SumFunctionOnSet, FoldFunctionOnSet, MapThenFoldSet, SumTable, Rest, Some

LEMMA RestSmaller ==
  ASSUME NEW s, s # {}, IsFiniteSet(s)
  PROVE  /\ Some(s) \in s /\ Rest(s) \subseteq s /\ s = Rest(s) \cup {Some(s)}
         /\ Some(s) \notin Rest(s) /\ IsFiniteSet(Rest(s))
         /\ Cardinality(s) \in Nat /\ Cardinality(Rest(s)) = Cardinality(s) - 1
         /\ Cardinality(Rest(s)) \in Nat
<1>1. Some(s) \in s
  BY DEF Some
<1>2. Cardinality(s) \in Nat /\ IsFiniteSet(Rest(s)) /\ Cardinality(Rest(s)) = Cardinality(s) - 1
  BY <1>1, FS_RemoveElement, FS_CardinalityType DEF Rest
<1> QED
  BY <1>1, <1>2, FS_CardinalityType DEF Rest

\* The sums over subsets of at most n elements.
Small(S, n) == {s \in SUBSET S : Cardinality(s) <= n}
SumsUpTo(g, f, S, n) ==
    /\ g \in [Small(S, n) -> Int]
    /\ \A s \in Small(S, n) : g[s] = IF s = {} THEN 0 ELSE f[Some(s)] + g[Rest(s)]

LEMMA SmallRest ==
  ASSUME NEW S, IsFiniteSet(S), NEW n \in Nat, NEW s \in Small(S, n), s # {}
  PROVE  /\ n # 0 /\ Rest(s) \in Small(S, n) /\ Rest(s) \in Small(S, n - 1) /\ Some(s) \in S
<1>1. s \subseteq S /\ IsFiniteSet(s) /\ Cardinality(s) <= n
  BY FS_Subset DEF Small
<1>2. /\ Some(s) \in s /\ Rest(s) \subseteq s /\ Cardinality(s) \in Nat
      /\ Cardinality(Rest(s)) = Cardinality(s) - 1 /\ Cardinality(Rest(s)) \in Nat
  BY <1>1, RestSmaller
<1> QED
  BY <1>1, <1>2 DEF Small

LEMMA SumsExist ==
  ASSUME NEW S, IsFiniteSet(S), NEW f, \A y \in S : f[y] \in Int, NEW n \in Nat
  PROVE  \E g : SumsUpTo(g, f, S, n)
<1> DEFINE Without == {k \in Nat : ~\E g : SumsUpTo(g, f, S, k)}
<1>1. SUFFICES Without = {}
  BY <1>1
<1>2. SUFFICES ASSUME NEW m \in Without, \A k \in Without : m <= k PROVE FALSE
  BY Least
<1>3. m \in Nat /\ ~\E g : SumsUpTo(g, f, S, m)
  OBVIOUS
<1>4. CASE m = 0
  <2> DEFINE g == [s \in Small(S, 0) |-> 0]
  <2>1. \A s \in Small(S, 0) : s = {}
    BY SmallRest
  <2>2. SumsUpTo(g, f, S, 0)
    BY <2>1 DEF SumsUpTo
  <2> QED BY <1>3, <1>4, <2>2
<1>5. CASE m # 0
  <2>1. m - 1 \in Nat /\ m - 1 \notin Without
    BY <1>2, <1>3, <1>5
  <2>2. PICK g : SumsUpTo(g, f, S, m - 1)
    BY <2>1
  <2> DEFINE h == [s \in Small(S, m) |-> IF s = {} THEN 0 ELSE f[Some(s)] + g[Rest(s)]]
  <2>3. \A t \in Small(S, m - 1) : t \in Small(S, m) /\ h[t] = g[t]
    <3>1. \A t \in Small(S, m - 1) : t \in Small(S, m)
      <4>1. \A t \in SUBSET S : Cardinality(t) \in Nat
        BY FS_Subset, FS_CardinalityType
      <4> QED BY <1>3, <4>1 DEF Small
    <3>2. \A t \in Small(S, m - 1) : g[t] = IF t = {} THEN 0 ELSE f[Some(t)] + g[Rest(t)]
      BY <2>2 DEF SumsUpTo
    <3> QED BY <3>1, <3>2
  <2>4. \A s \in Small(S, m) : s # {} => /\ Rest(s) \in Small(S, m - 1) /\ Some(s) \in S
    BY <1>3, SmallRest
  <2>5. h \in [Small(S, m) -> Int]
    BY <2>2, <2>4 DEF SumsUpTo
  <2>6. \A s \in Small(S, m) : h[s] = IF s = {} THEN 0 ELSE f[Some(s)] + h[Rest(s)]
    BY <2>3, <2>4
  <2>7. SumsUpTo(h, f, S, m)
    BY <2>5, <2>6 DEF SumsUpTo
  <2> QED BY <1>3, <2>7
<1> QED
  BY <1>4, <1>5

LEMMA TableSums ==
  ASSUME NEW S, IsFiniteSet(S), NEW f, \A y \in S : f[y] \in Int
  PROVE  /\ SumTable(f, S) \in [SUBSET S -> Int]
         /\ \A s \in SUBSET S :
               SumTable(f, S)[s] = IF s = {} THEN 0 ELSE f[Some(s)] + SumTable(f, S)[Rest(s)]
<1> DEFINE n == Cardinality(S)
<1>1. n \in Nat /\ Small(S, n) = SUBSET S
  <2>1. \A s \in SUBSET S : Cardinality(s) <= n
    BY FS_Subset
  <2> QED BY <2>1, FS_CardinalityType DEF Small
<1>2. PICK g : SumsUpTo(g, f, S, n)
  BY <1>1, SumsExist
<1>3. g \in [SUBSET S -> Int]
      /\ \A s \in SUBSET S : g[s] = IF s = {} THEN 0 ELSE f[Some(s)] + g[Rest(s)]
  BY <1>1, <1>2 DEF SumsUpTo
<1> DEFINE Rec(h) == h = [s \in SUBSET S |-> IF s = {} THEN 0 ELSE f[Some(s)] + h[Rest(s)]]
<1>4. Rec(g)
  BY <1>3
<1> DEFINE t == SumTable(f, S)
<1>5. t = CHOOSE h : Rec(h)
  BY DEF SumTable
<1>6. Rec(t)
  BY <1>4, <1>5
<1>7. t = [s \in SUBSET S |-> IF s = {} THEN 0 ELSE f[Some(s)] + t[Rest(s)]]
  BY <1>6
<1> HIDE DEF t
<1>8. \A s \in SUBSET S : t[s] = IF s = {} THEN 0 ELSE f[Some(s)] + t[Rest(s)]
  BY <1>7
<1> DEFINE Wrong == {k \in Nat : \E s \in SUBSET S : Cardinality(s) = k /\ t[s] # g[s]}
<1>9. Wrong = {}
  <2> SUFFICES ASSUME NEW m \in Wrong, \A k \in Wrong : m <= k PROVE FALSE
    BY Least
  <2>1. PICK s \in SUBSET S : Cardinality(s) = m /\ t[s] # g[s]
    OBVIOUS
  <2>2. s # {}
    BY <1>3, <1>8, <2>1
  <2>3. /\ Rest(s) \subseteq S /\ Cardinality(Rest(s)) = m - 1 /\ m - 1 \in Nat
    BY <2>1, <2>2, RestSmaller, FS_Subset
  <2>4. m - 1 \notin Wrong
    BY <2>3
  <2>5. t[Rest(s)] = g[Rest(s)]
    BY <2>3, <2>4
  <2> QED BY <1>3, <1>8, <2>1, <2>2, <2>5
<1>10. ASSUME NEW s \in SUBSET S PROVE t[s] = g[s]
  <2>1. Cardinality(s) \in Nat
    BY FS_Subset, FS_CardinalityType
  <2> QED BY <1>9, <2>1
<1>11. t \in [SUBSET S -> Int]
  <2>1. DOMAIN t = SUBSET S /\ t = [s \in SUBSET S |-> t[s]]
    BY <1>7
  <2>2. \A s \in SUBSET S : t[s] \in Int
    BY <1>3, <1>10
  <2> QED BY <2>1, <2>2
<1> QED
  BY <1>8, <1>11 DEF t

\* A subset's sum does not depend on the set whose table it is taken from.
LEMMA SameSums ==
  ASSUME NEW S, IsFiniteSet(S), NEW f, \A y \in S : f[y] \in Int, NEW T \in SUBSET S
  PROVE  SumTable(f, S)[T] = SumFunctionOnSet(f, T)
<1> DEFINE a == SumTable(f, S)
           b == SumTable(f, T)
<1>1. IsFiniteSet(T) /\ \A y \in T : f[y] \in Int
  BY FS_Subset
<1>2. /\ \A s \in SUBSET T : a[s] = IF s = {} THEN 0 ELSE f[Some(s)] + a[Rest(s)]
      /\ \A s \in SUBSET T : b[s] = IF s = {} THEN 0 ELSE f[Some(s)] + b[Rest(s)]
  BY <1>1, TableSums
<1> HIDE DEF a, b
<1> DEFINE Wrong == {k \in Nat : \E s \in SUBSET T : Cardinality(s) = k /\ a[s] # b[s]}
<1>3. Wrong = {}
  <2> SUFFICES ASSUME NEW m \in Wrong, \A k \in Wrong : m <= k PROVE FALSE
    BY Least
  <2>1. PICK s \in SUBSET T : Cardinality(s) = m /\ a[s] # b[s]
    OBVIOUS
  <2>2. s # {}
    BY <1>2, <2>1
  <2>3. /\ Rest(s) \subseteq T /\ Cardinality(Rest(s)) = m - 1 /\ m - 1 \in Nat
    BY <1>1, <2>1, <2>2, RestSmaller, FS_Subset
  <2>4. m - 1 \notin Wrong
    BY <2>3
  <2>5. a[Rest(s)] = b[Rest(s)]
    BY <2>3, <2>4
  <2> QED BY <1>2, <2>1, <2>2, <2>5
<1>4. Cardinality(T) \in Nat
  BY <1>1, FS_CardinalityType
<1>5. a[T] = b[T]
  BY <1>3, <1>4
<1> QED
  BY <1>5, SumIsTable DEF a, b

LEMMA SumType ==
  ASSUME NEW S, IsFiniteSet(S), NEW f, \A y \in S : f[y] \in Int
  PROVE  SumFunctionOnSet(f, S) \in Int
BY TableSums, SumIsTable

LEMMA SumEmpty ==
  ASSUME NEW f
  PROVE  SumFunctionOnSet(f, {}) = 0
<1>1. SumTable(f, {})[{}] = 0
  BY TableSums, FS_EmptySet
<1> QED
  BY <1>1, SumIsTable

LEMMA SumRest ==
  ASSUME NEW S, IsFiniteSet(S), NEW f, \A y \in S : f[y] \in Int, S # {}
  PROVE  SumFunctionOnSet(f, S) = f[Some(S)] + SumFunctionOnSet(f, Rest(S))
<1>1. Rest(S) \in SUBSET S
  BY DEF Rest
<1>2. SumTable(f, S)[S] = f[Some(S)] + SumTable(f, S)[Rest(S)]
  BY TableSums
<1> QED
  BY <1>1, <1>2, SameSums, SumIsTable

\* Whatever element the sum begins with, one more element adds its value.
LEMMA SumAdd ==
  ASSUME NEW S, IsFiniteSet(S), NEW f, \A y \in S : f[y] \in Int,
         NEW T \in SUBSET S, NEW v \in S \ T
  PROVE  SumFunctionOnSet(f, T \cup {v}) = f[v] + SumFunctionOnSet(f, T)
<1> DEFINE Sum(s) == SumFunctionOnSet(f, s)
           Adds(s) == \A w \in S \ s : Sum(s \cup {w}) = f[w] + Sum(s)
<1>1. ASSUME NEW s \in SUBSET S
      PROVE  IsFiniteSet(s) /\ Sum(s) \in Int /\ Cardinality(s) \in Nat
  BY FS_Subset, FS_CardinalityType, SumType
<1>2. ASSUME NEW s \in SUBSET S, s # {}
      PROVE  /\ Some(s) \in s /\ Sum(s) = f[Some(s)] + Sum(Rest(s)) /\ Rest(s) \in SUBSET S
             /\ s = Rest(s) \cup {Some(s)} /\ Some(s) \notin Rest(s)
             /\ Cardinality(Rest(s)) = Cardinality(s) - 1
  BY <1>1, <1>2, SumRest, RestSmaller
<1> DEFINE Wrong == {k \in Nat : \E s \in SUBSET S : Cardinality(s) = k /\ ~Adds(s)}
<1>3. Wrong = {}
  <2> SUFFICES ASSUME NEW m \in Wrong, \A k \in Wrong : m <= k PROVE FALSE
    BY Least
  <2>1. PICK s \in SUBSET S : Cardinality(s) = m /\ ~Adds(s)
    OBVIOUS
  <2>2. PICK w \in S \ s : Sum(s \cup {w}) # f[w] + Sum(s)
    BY <2>1
  <2> DEFINE u == s \cup {w}
             q == Some(u)
             r == s \ {q}
  <2>3. u \in SUBSET S /\ u # {} /\ q \in u /\ Sum(u) = f[q] + Sum(Rest(u)) /\ Rest(u) = u \ {q}
    BY <1>2, ZenonT(30) DEF Rest
  <2>4. CASE q = w
    <3>1. Rest(u) = s
      BY <2>3, <2>4
    <3> QED BY <2>2, <2>3, <2>4, <3>1
  <2>5. CASE q # w
    <3>1. q \in s /\ Rest(u) = r \cup {w} /\ w \in S \ r /\ q \in S \ r /\ s = r \cup {q}
      BY <2>3, <2>5
    <3>2. r \in SUBSET S /\ Cardinality(r) = m - 1 /\ m - 1 \in Nat
      <4>1. r \in SUBSET S /\ IsFiniteSet(s)
        BY <1>1, <3>1
      <4>2. Cardinality(r) = Cardinality(s) - 1 /\ Cardinality(r) \in Nat /\ Cardinality(s) \in Nat
        <5>1. \A z \in s : Cardinality(s \ {z}) = Cardinality(s) - 1
          BY <4>1, FS_RemoveElement
        <5>2. Cardinality(r) = Cardinality(s) - 1
          BY <3>1, <5>1
        <5> HIDE DEF r
        <5> QED BY <1>1, <4>1, <5>2
      <4> QED BY <2>1, <4>1, <4>2
    <3>3. Adds(r)
      <4>1. m - 1 \notin Wrong
        BY <3>2
      <4> QED BY <3>2, <4>1
    <3>4. Sum(r \cup {w}) = f[w] + Sum(r) /\ Sum(r \cup {q}) = f[q] + Sum(r)
      BY <3>1, <3>3
    <3>5. Sum(r) \in Int /\ f[w] \in Int /\ f[q] \in Int
      BY <1>1, <3>1, <3>2
    <3>6. Sum(u) = f[q] + (f[w] + Sum(r)) /\ Sum(s) = f[q] + Sum(r)
      BY <2>3, <3>1, <3>4
    <3> QED BY <2>2, <3>5, <3>6
  <2> QED BY <2>4, <2>5
<1>4. Adds(T)
  BY <1>1, <1>3
<1> QED
  BY <1>4

\* Sums over two sets without a common element add up.
LEMMA SumUnion ==
  ASSUME NEW S, IsFiniteSet(S), NEW f, \A y \in S : f[y] \in Int,
         NEW A \in SUBSET S, NEW B \in SUBSET S, A \cap B = {}
  PROVE  SumFunctionOnSet(f, A \cup B) = SumFunctionOnSet(f, A) + SumFunctionOnSet(f, B)
<1> DEFINE Sum(s) == SumFunctionOnSet(f, s)
           Wrong == {k \in Nat : \E t \in SUBSET B : /\ Cardinality(t) = k
                                                     /\ Sum(A \cup t) # Sum(A) + Sum(t)}
<1>1. ASSUME NEW s \in SUBSET S
      PROVE  IsFiniteSet(s) /\ Sum(s) \in Int /\ Cardinality(s) \in Nat
  BY FS_Subset, FS_CardinalityType, SumType
<1>2. Wrong = {}
  <2> SUFFICES ASSUME NEW m \in Wrong, \A k \in Wrong : m <= k PROVE FALSE
    BY Least
  <2>1. PICK t \in SUBSET B : Cardinality(t) = m /\ Sum(A \cup t) # Sum(A) + Sum(t)
    OBVIOUS
  <2>2. t # {}
    <3> SUFFICES ASSUME t = {} PROVE FALSE
      OBVIOUS
    <3>1. Sum(t) = 0 /\ A \cup t = A
      BY SumEmpty
    <3>2. Sum(A) \in Int
      BY <1>1
    <3> HIDE DEF Sum
    <3> QED BY <2>1, <3>1, <3>2
  <2>3. PICK w \in t : TRUE
    BY <2>2
  <2> DEFINE r == t \ {w}
  <2>4. /\ r \in SUBSET B /\ r \in SUBSET S /\ A \cup r \in SUBSET S
        /\ t = r \cup {w} /\ A \cup t = (A \cup r) \cup {w}
        /\ w \in S \ r /\ w \in S \ (A \cup r)
    BY <2>3
  <2>5. Cardinality(r) = m - 1 /\ m - 1 \in Nat
    <3>1. Cardinality(t \ {w}) = Cardinality(t) - 1
      BY <1>1, <2>3, FS_RemoveElement
    <3> QED BY <1>1, <2>1, <2>4, <3>1
  <2>6. Sum(A \cup r) = Sum(A) + Sum(r)
    <3>1. m - 1 \notin Wrong
      BY <2>5
    <3> QED BY <2>4, <2>5, <3>1
  <2> HIDE DEF r
  <2>7. Sum(t) = f[w] + Sum(r) /\ Sum(A \cup t) = f[w] + Sum(A \cup r)
    BY <2>4, SumAdd
  <2>8. Sum(A) \in Int /\ Sum(r) \in Int /\ f[w] \in Int
    BY <1>1, <2>4
  <2> HIDE DEF Sum, Wrong
  <2> QED BY <2>1, <2>6, <2>7, <2>8
<1> QED
  BY <1>1, <1>2

LEMMA SumMono ==
  ASSUME NEW S, IsFiniteSet(S), NEW f, \A y \in S : f[y] \in Nat, NEW T \in SUBSET S
  PROVE  SumFunctionOnSet(f, T) <= SumFunctionOnSet(f, S)
<1> DEFINE Total(s) == SumFunctionOnSet(f, s)
           Wrong == {k \in Nat : \E s \in SUBSET S : Cardinality(S \ s) = k /\ ~(Total(s) <= Total(S))}
<1>1. ASSUME NEW s \in SUBSET S
      PROVE  Total(s) \in Int /\ IsFiniteSet(S \ s) /\ Cardinality(S \ s) \in Nat
  <2>1. IsFiniteSet(s) /\ IsFiniteSet(S \ s) /\ \A y \in s : f[y] \in Int
    BY FS_Subset, FS_Difference
  <2> QED BY <2>1, FS_CardinalityType, SumType
<1>2. Wrong = {}
  <2> SUFFICES ASSUME NEW m \in Wrong, \A k \in Wrong : m <= k PROVE FALSE
    BY Least
  <2>1. PICK s \in SUBSET S : Cardinality(S \ s) = m /\ ~(Total(s) <= Total(S))
    OBVIOUS
  <2>2. PICK w \in S \ s : TRUE
    <3>1. s # S
      BY <1>1, <2>1, SMTT(30)
    <3> QED BY <3>1
  <2>3. s \cup {w} \in SUBSET S /\ S \ (s \cup {w}) = (S \ s) \ {w}
    BY <2>2
  <2>4. Cardinality((S \ s) \ {w}) = m - 1
    BY <1>1, <2>1, <2>2, FS_RemoveElement
  <2>5. Cardinality(S \ (s \cup {w})) = m - 1 /\ m - 1 \in Nat
    BY <1>1, <2>3, <2>4
  <2>6. Total(s \cup {w}) <= Total(S)
    <3>1. m - 1 \notin Wrong
      BY <2>5, SMTT(30)
    <3> QED BY <2>3, <2>5, <3>1
  <2>7. Total(s \cup {w}) = f[w] + Total(s)
    BY <2>2, SumAdd
  <2>8. /\ Total(s) \in Int /\ Total(S) \in Int /\ Total(s \cup {w}) \in Int /\ f[w] \in Nat
    BY <1>1, <2>2, <2>3
  <2> HIDE DEF Total
  <2> QED BY <2>1, <2>6, <2>7, <2>8
<1> QED
  BY <1>1, <1>2
-----------------------------------------------------------------------------
(* Finite sets of integers, images, and functions as sequences.             *)

\* A finite set of integers has a least element.
LEMMA LeastInteger ==
  ASSUME NEW S \in SUBSET Int, IsFiniteSet(S), S # {}
  PROVE  \E x \in S : \A y \in S : x <= y
<1> DEFINE Below(y) == {z \in S : z < y}
           Counts == {Cardinality(Below(y)) : y \in S}
<1>1. \A y \in S : IsFiniteSet(Below(y)) /\ Cardinality(Below(y)) \in Nat
  BY FS_Subset, FS_CardinalityType
<1>2. PICK m \in Counts : \A k \in Counts : m <= k
  <2>1. Counts \in SUBSET Nat /\ Counts # {}
    BY <1>1
  <2> HIDE DEF Counts
  <2> QED BY <2>1, Least
<1>3. PICK w \in S : m = Cardinality(Below(w))
  BY <1>2
<1>4. ASSUME NEW y \in S PROVE w <= y
  <2> SUFFICES ASSUME y < w PROVE FALSE
    OBVIOUS
  <2>0. \A z \in S : z \in Int
    OBVIOUS
  <2>1. Below(y) \subseteq Below(w) /\ y \in Below(w) /\ y \notin Below(y)
    <3>1. ASSUME NEW z \in Below(y) PROVE z \in Below(w)
      BY <2>0
    <3>2. y \in Below(w)
      BY <2>0
    <3>3. ~(y < y)
      BY <2>0
    <3> QED BY <3>1, <3>2, <3>3
  <2>2. Below(y) # Below(w)
    BY <2>1
  <2>3. Cardinality(Below(y)) < Cardinality(Below(w))
    <3> HIDE DEF Below
    <3> QED BY <1>1, <2>1, <2>2, FS_Subset
  <2>4. Cardinality(Below(y)) \in Counts
    OBVIOUS
  <2> HIDE DEF Counts, Below
  <2> QED BY <1>1, <1>2, <1>3, <2>3, <2>4
<1> QED
  BY <1>4

\* How many elements of a set are smaller: each rank up to the last is somebody's, and of
\* one element only.
Rank(T, v) == Cardinality({u \in T : u < v})

LEMMA Ranks ==
  ASSUME NEW T \in SUBSET Int, IsFiniteSet(T)
  PROVE  /\ Cardinality(T) \in Nat
         /\ \A v \in T : Rank(T, v) \in 0..(Cardinality(T) - 1)
         /\ \A v, w \in T : v < w => Rank(T, v) < Rank(T, w)
         /\ \A k \in 0..(Cardinality(T) - 1) : \E v \in T : Rank(T, v) = k
<1> DEFINE Below(v) == {u \in T : u < v}
           n == Cardinality(T)
<1>1. /\ n \in Nat
      /\ \A v \in T : IsFiniteSet(Below(v)) /\ Cardinality(Below(v)) \in Nat
  BY FS_Subset, FS_CardinalityType
<1>2. \A v \in T : Rank(T, v) = Cardinality(Below(v)) /\ v \in Int
  BY DEF Rank
<1>3. ASSUME NEW v \in T PROVE Cardinality(Below(v)) < n
  <2>1. Below(v) \in SUBSET T /\ v \notin Below(v)
    BY <1>2
  <2> HIDE DEF Below
  <2> QED BY <1>1, <2>1, FS_Subset
<1>4. ASSUME NEW v \in T, NEW w \in T, v < w PROVE Cardinality(Below(v)) < Cardinality(Below(w))
  <2>1. Below(v) \in SUBSET Below(w) /\ v \in Below(w) /\ v \notin Below(v)
    <3>1. \A z \in T : z \in Int
      OBVIOUS
    <3>2. ASSUME NEW z \in Below(v) PROVE z \in Below(w)
      BY <1>4, <3>1
    <3>3. v \in Below(w) /\ v \notin Below(v)
      BY <1>4, <3>1
    <3> QED BY <3>2, <3>3
  <2> HIDE DEF Below
  <2> QED BY <1>1, <2>1, FS_Subset
<1> DEFINE H == {k \in 0..n : k = n \/ \E v \in T : Cardinality(Below(v)) = k}
<1>5. 0 \in H
  <2>1. CASE T = {}
    BY <1>1, <2>1, FS_EmptySet
  <2>2. CASE T # {}
    <3>1. PICK v \in T : \A u \in T : v <= u
      BY <2>2, LeastInteger
    <3>2. Below(v) = {}
      <4>1. \A z \in T : z \in Int /\ ~(z < v)
        BY <3>1
      <4> QED BY <4>1
    <3> QED BY <1>1, <3>2, FS_EmptySet
  <2> QED BY <2>1, <2>2
<1>6. ASSUME NEW k \in 0..n, k \in H, k < n PROVE k + 1 \in H
  <2>1. PICK v \in T : Cardinality(Below(v)) = k
    BY <1>6
  <2> DEFINE Above == {u \in T : u > v}
             upTo == Below(v) \cup {v}
  <2>2. upTo \in SUBSET T /\ IsFiniteSet(upTo) /\ Cardinality(upTo) = k + 1
    <3>1. v \notin Below(v)
      BY <1>2
    <3> HIDE DEF Below
    <3>2. IsFiniteSet(upTo) /\ Cardinality(upTo) = k + 1
      BY <1>1, <2>1, <3>1, FS_AddElement
    <3> QED BY <3>2 DEF Below
  <2>3. CASE Above = {}
    <3>1. upTo = T
      <4>1. ASSUME NEW z \in T PROVE z \in upTo
        <5>1. z \in Int /\ v \in Int /\ z \notin Above
          BY <2>3
        <5> QED BY <5>1
      <4> QED BY <4>1
    <3> QED BY <2>2, <3>1
  <2>4. CASE Above # {}
    <3>1. PICK w \in Above : \A u \in Above : w <= u
      <4>1. Above \in SUBSET Int /\ IsFiniteSet(Above)
        BY FS_Subset
      <4> HIDE DEF Above
      <4> QED BY <2>4, <4>1, LeastInteger
    <3>2. Below(w) = upTo
      <4>1. w \in T /\ w \in Int /\ v \in Int /\ v < w
        BY <3>1
      <4>2. ASSUME NEW z \in T PROVE z < w <=> z < v \/ z = v
        <5>1. z \in Int /\ (z > v => w <= z)
          BY <3>1
        <5> QED BY <4>1, <5>1
      <4> QED BY <4>2
    <3>3. k + 1 \in 0..n
      BY <1>1, <1>6
    <3> QED BY <2>2, <3>1, <3>2, <3>3
  <2> QED BY <2>3, <2>4
<1>7. 0..n \subseteq H
  <2>1. \A k \in 0..n : k \in H /\ k < n => k + 1 \in H
    BY <1>6
  <2> HIDE DEF H, n
  <2> QED BY <1>1, <1>5, <2>1, Induction
<1>8. ASSUME NEW k \in 0..(n - 1) PROVE \E v \in T : Cardinality(Below(v)) = k
  <2>1. k \in H /\ k # n
    BY <1>1, <1>7
  <2> QED BY <2>1
<1> HIDE DEF Below, H, n
<1>9. \A v \in T : Rank(T, v) \in 0..(n - 1)
  BY <1>1, <1>2, <1>3
<1> QED
  BY <1>1, <1>2, <1>4, <1>8, <1>9 DEF n

\* The image of a finite set is finite.
LEMMA FiniteImage ==
  ASSUME NEW S, IsFiniteSet(S), NEW f
  PROVE  IsFiniteSet({f[x] : x \in S})
<1> DEFINE T == {f[x] : x \in S}
           g == [x \in S |-> f[x]]
<1>1. g \in Surjection(S, T)
  BY DEF Surjection
<1> HIDE DEF g
<1> QED
  BY <1>1, FS_Surjection

\* A function on 1..m is a sequence of m elements.
LEMMA LenOfFunction ==
  ASSUME NEW m \in Nat, NEW f, f = [k \in 1..m |-> f[k]]
  PROVE  Len(f) = m
<1> DEFINE S == {f[k] : k \in 1..m}
<1>1. f \in [1..m -> S]
  OBVIOUS
<1> HIDE DEF S
<1>2. f \in Seq(S) /\ DOMAIN f = 1..m
  BY <1>1, SeqDef
<1>3. Len(f) \in Nat /\ DOMAIN f = 1..Len(f)
  BY <1>2, LenProperties
<1> QED
  BY <1>2, <1>3
-----------------------------------------------------------------------------
(* Folds.                                                                   *)

\* A finite set of naturals has a largest element.
LEMMA MaxOfFinite ==
  ASSUME NEW S \in SUBSET Nat, IsFiniteSet(S), S # {}
  PROVE  Max(S) \in S
<1> DEFINE Above(y) == {z \in S : z > y}
           Counts == {Cardinality(Above(y)) : y \in S}
<1>1. \A y \in S : IsFiniteSet(Above(y)) /\ Cardinality(Above(y)) \in Nat
  BY FS_Subset, FS_CardinalityType
<1>2. PICK m \in Counts : \A k \in Counts : m <= k
  <2>1. Counts \in SUBSET Nat /\ Counts # {}
    BY <1>1
  <2> HIDE DEF Counts
  <2> QED BY <2>1, Least
<1>3. PICK w \in S : m = Cardinality(Above(w))
  BY <1>2
<1>4. ASSUME NEW y \in S PROVE w >= y
  <2> SUFFICES ASSUME y > w PROVE FALSE
    OBVIOUS
  <2>0. \A z \in S : z \in Nat
    OBVIOUS
  <2>1. Above(y) \subseteq Above(w) /\ y \in Above(w) /\ y \notin Above(y)
    <3>1. ASSUME NEW z \in Above(y) PROVE z \in Above(w)
      BY <2>0
    <3>2. y \in Above(w)
      BY <2>0
    <3>3. ~(y > y)
      BY <2>0
    <3> QED BY <3>1, <3>2, <3>3
  <2>2. Above(y) # Above(w)
    BY <2>1
  <2>3. Cardinality(Above(y)) < Cardinality(Above(w))
    <3> HIDE DEF Above
    <3> QED BY <1>1, <2>1, <2>2, FS_Subset
  <2>4. Cardinality(Above(y)) \in Counts
    OBVIOUS
  <2> HIDE DEF Counts, Above
  <2> QED BY <1>1, <1>2, <1>3, <2>3, <2>4
<1> HIDE DEF Counts, Above
<1> QED
  BY <1>3, <1>4 DEF Max

LEMMA MaxOfSome ==
  ASSUME NEW n \in Nat, NEW S \in SUBSET (1..n), S # {}
  PROVE  Max(S) \in S
<1>1. IsFiniteSet(1..n) /\ S \in SUBSET Nat
  BY FS_Interval
<1>2. IsFiniteSet(S)
  BY <1>1, FS_Subset
<1> QED
  BY <1>1, <1>2, MaxOfFinite

\* A fold over a finite set as a function on its subsets; TLA+ only chooses one, so there
\* has to be one.
TableUpTo(g, step, base, last, M, S, n) ==
    /\ g \in [Small(S, n) -> M]
    /\ \A s \in Small(S, n) :
          g[s] = IF s = {} THEN base ELSE step[<<g[s \ {last[s]}], last[s]>>]

LEMMA SmallWithout ==
  ASSUME NEW S, IsFiniteSet(S), NEW n \in Nat, NEW s \in Small(S, n), NEW y \in s
  PROVE  n # 0 /\ s \ {y} \in Small(S, n) /\ s \ {y} \in Small(S, n - 1) /\ y \in S
<1>1. s \subseteq S /\ IsFiniteSet(s) /\ Cardinality(s) <= n
  BY FS_Subset DEF Small
<1>2. /\ Cardinality(s) \in Nat /\ Cardinality(s \ {y}) = Cardinality(s) - 1
      /\ Cardinality(s \ {y}) \in Nat
  <2>1. \A z \in s : Cardinality(s \ {z}) = Cardinality(s) - 1
    BY <1>1, FS_RemoveElement
  <2>2. IsFiniteSet(s \ {y})
    BY <1>1, FS_Subset
  <2> QED BY <1>1, <2>1, <2>2, FS_CardinalityType
<1> QED
  BY <1>1, <1>2 DEF Small

LEMMA TableExists ==
  ASSUME NEW S, IsFiniteSet(S), NEW M, NEW base \in M,
         NEW last, \A s \in SUBSET S : s # {} => last[s] \in s,
         NEW step, \A m \in M, y \in S : step[<<m, y>>] \in M, NEW n \in Nat
  PROVE  \E g : TableUpTo(g, step, base, last, M, S, n)
<1> DEFINE Table(g, k) == TableUpTo(g, step, base, last, M, S, k)
           Without == {k \in Nat : ~\E g : Table(g, k)}
<1>1. SUFFICES Without = {}
  BY <1>1
<1>2. SUFFICES ASSUME NEW m \in Without, \A k \in Without : m <= k PROVE FALSE
  BY Least
<1>3. m \in Nat /\ ~\E g : Table(g, m)
  OBVIOUS
<1>4. CASE m = 0
  <2> DEFINE g == [s \in Small(S, 0) |-> base]
  <2>1. \A s \in Small(S, 0) : s = {}
    <3>1. \A s \in Small(S, 0) : \A y : y \notin s
      BY SmallWithout
    <3> QED BY <3>1
  <2>2. Table(g, 0)
    BY <2>1 DEF TableUpTo
  <2> QED BY <1>3, <1>4, <2>2
<1>5. CASE m # 0
  <2>1. m - 1 \in Nat /\ m - 1 \notin Without
    BY <1>2, <1>3, <1>5
  <2>2. PICK g : Table(g, m - 1)
    BY <2>1
  <2> DEFINE h == [s \in Small(S, m) |-> IF s = {} THEN base
                                         ELSE step[<<g[s \ {last[s]}], last[s]>>]]
  <2>3. \A t \in Small(S, m - 1) : t \in Small(S, m) /\ h[t] = g[t]
    <3>1. \A t \in Small(S, m - 1) : t \in Small(S, m)
      <4>1. \A t \in SUBSET S : Cardinality(t) \in Nat
        BY FS_Subset, FS_CardinalityType
      <4> QED BY <1>3, <4>1 DEF Small
    <3>2. \A t \in Small(S, m - 1) :
             g[t] = IF t = {} THEN base ELSE step[<<g[t \ {last[t]}], last[t]>>]
      BY <2>2 DEF TableUpTo
    <3> QED BY <3>1, <3>2
  <2>4. \A s \in Small(S, m) : s # {} => /\ s \ {last[s]} \in Small(S, m - 1) /\ last[s] \in S
    <3>1. \A s \in Small(S, m) : s # {} => last[s] \in s
      BY DEF Small
    <3> QED BY <1>3, <3>1, SmallWithout
  <2>5. h \in [Small(S, m) -> M]
    BY <2>2, <2>4 DEF TableUpTo
  <2>6. \A s \in Small(S, m) :
           h[s] = IF s = {} THEN base ELSE step[<<h[s \ {last[s]}], last[s]>>]
    BY <2>3, <2>4
  <2>7. Table(h, m)
    BY <2>5, <2>6 DEF TableUpTo
  <2> QED BY <1>3, <2>7
<1> QED
  BY <1>4, <1>5

Agree(t, tr, n) == /\ t[{}] = tr[0]
                   /\ \A k \in 1..n : t[1..(k - 1)] = tr[k - 1] => t[1..k] = tr[k]

LEMMA AlongPrefixes ==
  ASSUME NEW n \in Nat, NEW t, NEW tr, Agree(t, tr, n)
  PROVE  t[1..n] = tr[n]
<1> DEFINE Wrong == {k \in Nat : k <= n /\ t[1..k] # tr[k]}
<1>1. Wrong = {}
  <2> SUFFICES ASSUME NEW m \in Wrong, \A k \in Wrong : m <= k PROVE FALSE
    BY Least
  <2>1. m \in Nat /\ m <= n /\ t[1..m] # tr[m]
    OBVIOUS
  <2>2. m # 0
    <3>1. 1..0 = {}
      OBVIOUS
    <3> QED BY <2>1, <3>1 DEF Agree
  <2>3. m - 1 \in Nat /\ m - 1 <= n /\ m - 1 \notin Wrong /\ m \in 1..n
    BY <2>1, <2>2
  <2>4. t[1..(m - 1)] = tr[m - 1]
    BY <2>3
  <2> QED BY <2>1, <2>3, <2>4 DEF Agree
<1> QED
  BY <1>1

LEMMA LastOfPrefix ==
  ASSUME NEW k \in Nat \ {0}
  PROVE  Max(1..k) = k /\ (1..k) \ {Max(1..k)} = 1..(k - 1)
<1>1. k \in 1..k /\ \A y \in 1..k : k >= y
  OBVIOUS
<1>2. \A z \in 1..k : (\A y \in 1..k : z >= y) => z = k
  BY <1>1
<1>3. Max(1..k) = k
  BY <1>1, <1>2 DEF Max
<1> QED
  BY <1>3

\* FoldLeft over a sequence of n elements is such a table for the sets of positions, taken
\* from their last one; `step` says what position k makes of the value reached before it.
ClosedOver(step, M, n) == \A m \in M, k \in 1..n : step[<<m, k>>] \in M
IsTable(g, step, base, M, n) ==
    /\ g \in [SUBSET (1..n) -> M]
    /\ \A s \in SUBSET (1..n) :
          g[s] = IF s = {} THEN base ELSE step[<<g[s \ {Max(s)}], Max(s)>>]
Follows(t, step, M, n) ==
    \A s \in SUBSET (1..n) :
       s # {} /\ t[s \ {Max(s)}] \in M => t[s] = step[<<t[s \ {Max(s)}], Max(s)>>]
IsTrace(tr, step, base, M, n) ==
    /\ tr \in [0..n -> M] /\ tr[0] = base
    /\ \A k \in 1..n : tr[k] = step[<<tr[k - 1], k>>]

LEMMA FoldTable ==
  ASSUME NEW n \in Nat, NEW M, NEW base \in M, NEW step, ClosedOver(step, M, n)
  PROVE  \E g : IsTable(g, step, base, M, n)
<1> DEFINE D == 1..n
           last == [s \in SUBSET D |-> Max(s)]
<1>1. \A s \in SUBSET D : s # {} => last[s] \in s
  BY MaxOfSome
<1>2. IsFiniteSet(D) /\ Cardinality(D) \in Nat /\ Small(D, Cardinality(D)) = SUBSET D
  <2>1. IsFiniteSet(D)
    BY FS_Interval
  <2>2. \A s \in SUBSET D : Cardinality(s) <= Cardinality(D)
    BY <2>1, FS_Subset
  <2> QED BY <2>1, <2>2, FS_CardinalityType DEF Small
<1>3. PICK g : TableUpTo(g, step, base, last, M, D, Cardinality(D))
  <2>1. \A m \in M, y \in D : step[<<m, y>>] \in M
    BY DEF ClosedOver
  <2> HIDE DEF D, last
  <2> QED BY <1>1, <1>2, <2>1, TableExists
<1>4. /\ g \in [SUBSET D -> M]
      /\ \A s \in SUBSET D : g[s] = IF s = {} THEN base ELSE step[<<g[s \ {last[s]}], last[s]>>]
  BY <1>2, <1>3 DEF TableUpTo
<1>5. IsTable(g, step, base, M, n)
  BY <1>4 DEF IsTable
<1> QED
  BY <1>5

LEMMA FoldAlong ==
  ASSUME NEW n \in Nat, NEW M, NEW step, NEW t, NEW tr, IsTrace(tr, step, t[{}], M, n),
         Follows(t, step, M, n)
  PROVE  t[1..n] = tr[n]
<1>1. ASSUME NEW k \in 1..n, t[1..(k - 1)] = tr[k - 1] PROVE t[1..k] = tr[k]
  <2>1. k \in Nat /\ 1 <= k /\ k <= n /\ k - 1 \in 0..n
    OBVIOUS
  <2>2. k \in 1..k /\ \A y \in 1..k : y \in 1..n
    BY <2>1
  <2>3. 1..k \in SUBSET (1..n) /\ 1..k # {}
    BY <2>2
  <2>4. Max(1..k) = k /\ (1..k) \ {Max(1..k)} = 1..(k - 1)
    <3>1. k \in Nat \ {0}
      BY <2>1
    <3> QED BY <3>1, LastOfPrefix
  <2>5. t[1..(k - 1)] \in M
    BY <1>1, <2>1 DEF IsTrace
  <2>6. t[1..k] = step[<<t[1..(k - 1)], k>>]
    BY <2>3, <2>4, <2>5 DEF Follows
  <2> QED BY <1>1, <2>6 DEF IsTrace
<1>2. Agree(t, tr, n)
  BY <1>1 DEF Agree, IsTrace
<1> QED
  BY <1>2, AlongPrefixes

\* The values reached position by position exist.
LEMMA TraceExists ==
  ASSUME NEW n \in Nat, NEW M, NEW base \in M, NEW step, ClosedOver(step, M, n)
  PROVE  \E tr : IsTrace(tr, step, base, M, n)
<1> DEFINE H == {j \in 0..n : \E tr \in [0..n -> M] :
                    tr[0] = base /\ \A k \in 1..j : tr[k] = step[<<tr[k - 1], k>>]}
<1>1. 0 \in H
  <2> DEFINE tr == [k \in 0..n |-> base]
  <2>1. tr \in [0..n -> M] /\ tr[0] = base /\ \A k \in 1..0 : tr[k] = step[<<tr[k - 1], k>>]
    OBVIOUS
  <2> HIDE DEF tr
  <2> QED BY <2>1
<1>2. ASSUME NEW j \in 0..n, j \in H, j < n PROVE j + 1 \in H
  <2>1. PICK tr \in [0..n -> M] :
           tr[0] = base /\ \A k \in 1..j : tr[k] = step[<<tr[k - 1], k>>]
    BY <1>2
  <2> DEFINE v == step[<<tr[j], j + 1>>]
             u == [tr EXCEPT ![j + 1] = v]
  <2>2. j + 1 \in 1..n /\ j + 1 \in 0..n /\ tr[j] \in M /\ (j + 1) - 1 = j
    BY <1>2
  <2>3. v \in M
    BY <2>2 DEF ClosedOver
  <2> HIDE DEF v
  <2>4. u \in [0..n -> M] /\ u[j + 1] = v /\ \A k \in 0..j : u[k] = tr[k]
    BY <2>2, <2>3
  <2> HIDE DEF u
  <2>5. ASSUME NEW k \in 1..(j + 1) PROVE u[k] = step[<<u[k - 1], k>>]
    <3>1. CASE k = j + 1
      BY <2>2, <2>4, <3>1 DEF v
    <3>2. CASE k # j + 1
      <4>1. k \in 1..j /\ k \in 0..j /\ k - 1 \in 0..j
        BY <3>2
      <4> QED BY <2>1, <2>4, <4>1
    <3> QED BY <3>1, <3>2
  <2>6. u[0] = base
    BY <2>1, <2>4
  <2> QED BY <2>2, <2>4, <2>5, <2>6
<1>3. n \in H
  <2>1. \A j \in 0..n : j \in H /\ j < n => j + 1 \in H
    BY <1>2
  <2> HIDE DEF H
  <2> QED BY <1>1, <2>1, Induction
<1> QED
  BY <1>3 DEF IsTrace

\* The two folds of ClosestSubset.
PickFold(a, B, order) == FoldLeft(LAMBDA u, v : Pick(u, v, a, B), {}, order)
ReplaceFold(a, B, mask, order) == FoldLeft(LAMBDA u, v : Replace(u, v, a, B), mask, order)

LEMMA FoldPicks ==
  ASSUME NEW a, NEW B, NEW n \in Nat, NEW ord \in [1..n -> DOMAIN a],
         NEW tr \in [0..n -> SUBSET DOMAIN a], tr[0] = {},
         \A k \in 1..n : tr[k] = Pick(tr[k - 1], ord[k], a, B)
  PROVE  PickFold(a, B, ord) = tr[n]
<1> DEFINE D == 1..n
           M == SUBSET DOMAIN a
           Rec(h) == h = [s \in SUBSET D |->
                            IF s = {} THEN {} ELSE Pick(h[s \ {Max(s)}], ord[Max(s)], a, B)]
           t == CHOOSE h : Rec(h)
           step == [q \in M \X D |-> Pick(q[1], ord[q[2]], a, B)]
<1>1. PickFold(a, B, ord) = t[D]
  BY DEF PickFold, FoldLeft, MapThenFoldSet
<1>2. \A m \in M, k \in D : step[<<m, k>>] = Pick(m, ord[k], a, B)
  OBVIOUS
<1>3. ClosedOver(step, M, n)
  <2>1. \A m \in M, k \in D : Pick(m, ord[k], a, B) \in M
    BY DEF Pick
  <2> HIDE DEF step
  <2> QED BY <1>2, <2>1 DEF ClosedOver
<1>4. \A s \in SUBSET D : s # {} => Max(s) \in D
  BY MaxOfSome
<1> HIDE DEF step
<1>5. PICK g : IsTable(g, step, {}, M, n)
  <2>1. PICK none \in M : none = {}
    OBVIOUS
  <2> HIDE DEF M
  <2>2. \E g : IsTable(g, step, none, M, n)
    BY <1>3, FoldTable
  <2> QED BY <2>1, <2>2
<1>6. Rec(g)
  <2>1. ASSUME NEW s \in SUBSET D, s # {} PROVE g[s] = Pick(g[s \ {Max(s)}], ord[Max(s)], a, B)
    BY <1>2, <1>4, <1>5, <2>1 DEF IsTable
  <2> QED BY <1>5, <2>1, ZenonT(30) DEF IsTable
<1>7. Rec(t)
  BY <1>6
<1> HIDE DEF t
<1>8. t[{}] = tr[0] /\ \A s \in SUBSET D : s # {} =>
                          t[s] = Pick(t[s \ {Max(s)}], ord[Max(s)], a, B)
  BY <1>7
<1>9. Follows(t, step, M, n)
  BY <1>2, <1>4, <1>8 DEF Follows
<1>10. IsTrace(tr, step, t[{}], M, n)
  <2>1. \A k \in D : k - 1 \in 0..n
    OBVIOUS
  <2>2. t[{}] = tr[0]
    BY <1>8
  <2> QED BY <1>2, <2>1, <2>2 DEF IsTrace
<1>11. t[D] = tr[n]
  <2> HIDE DEF M, Rec
  <2> QED BY <1>9, <1>10, FoldAlong
<1> QED
  BY <1>1, <1>11

\* Where miners are numbers, a replacement is one of them.
LEMMA ReplaceOffered ==
  ASSUME NEW a, NEW B, IsFiniteSet(DOMAIN a), DOMAIN a \subseteq Nat, NEW S \in SUBSET DOMAIN a, NEW i
  PROVE  Replace(S, i, a, B) \in SUBSET DOMAIN a
<1> DEFINE C == Candidates(S, i, a, B)
<1>1. C \subseteq DOMAIN a
  BY DEF Candidates
<1>2. ASSUME C # {} PROVE Max(C) \in C
  <2>1. IsFiniteSet(C) /\ C \in SUBSET Nat
    BY <1>1, FS_Subset
  <2> HIDE DEF C
  <2> QED BY <1>2, <2>1, MaxOfFinite
<1>3. Replace(S, i, a, B) = IF C = {} THEN S ELSE (S \ {i}) \cup {Max(C)}
  BY DEF Replace
<1> HIDE DEF C
<1> QED
  BY <1>1, <1>2, <1>3

LEMMA FoldReplaces ==
  ASSUME NEW a, NEW B, IsFiniteSet(DOMAIN a), DOMAIN a \subseteq Nat, NEW n \in Nat,
         NEW x0 \in SUBSET DOMAIN a, NEW ord \in [1..n -> DOMAIN a],
         NEW tr \in [0..n -> SUBSET DOMAIN a], tr[0] = x0,
         \A k \in 1..n : tr[k] = Replace(tr[k - 1], ord[k], a, B)
  PROVE  ReplaceFold(a, B, x0, ord) = tr[n]
<1> DEFINE D == 1..n
           M == SUBSET DOMAIN a
           Rec(h) == h = [s \in SUBSET D |->
                            IF s = {} THEN x0 ELSE Replace(h[s \ {Max(s)}], ord[Max(s)], a, B)]
           t == CHOOSE h : Rec(h)
           step == [q \in M \X D |-> Replace(q[1], ord[q[2]], a, B)]
<1>1. ReplaceFold(a, B, x0, ord) = t[D]
  BY DEF ReplaceFold, FoldLeft, MapThenFoldSet
<1>2. \A m \in M, k \in D : step[<<m, k>>] = Replace(m, ord[k], a, B)
  OBVIOUS
<1>3. ClosedOver(step, M, n)
  <2>1. \A m \in M, k \in D : Replace(m, ord[k], a, B) \in M
    BY ReplaceOffered
  <2> HIDE DEF step
  <2> QED BY <1>2, <2>1, ZenonT(30) DEF ClosedOver
<1>4. \A s \in SUBSET D : s # {} => Max(s) \in D
  BY MaxOfSome
<1> HIDE DEF step
<1>5. PICK g : IsTable(g, step, x0, M, n)
  <2> HIDE DEF M
  <2>1. x0 \in M
    BY DEF M
  <2> QED BY <1>3, <2>1, FoldTable
<1>6. Rec(g)
  <2>1. ASSUME NEW s \in SUBSET D, s # {}
        PROVE  g[s] = Replace(g[s \ {Max(s)}], ord[Max(s)], a, B)
    BY <1>2, <1>4, <1>5, <2>1 DEF IsTable
  <2> QED BY <1>5, <2>1 DEF IsTable
<1>7. Rec(t)
  BY <1>6
<1> HIDE DEF t
<1>8. t[{}] = tr[0] /\ \A s \in SUBSET D : s # {} =>
                          t[s] = Replace(t[s \ {Max(s)}], ord[Max(s)], a, B)
  BY <1>7
<1>9. Follows(t, step, M, n)
  BY <1>2, <1>4, <1>8 DEF Follows
<1>10. IsTrace(tr, step, t[{}], M, n)
  <2>1. \A k \in D : k - 1 \in 0..n
    OBVIOUS
  <2>2. t[{}] = tr[0]
    BY <1>8
  <2> QED BY <1>2, <2>1, <2>2 DEF IsTrace
<1>11. t[D] = tr[n]
  <2> HIDE DEF M, Rec
  <2> QED BY <1>9, <1>10, FoldAlong
<1> QED
  BY <1>1, <1>11

LEMMA FoldedPicks ==
  ASSUME NEW a, NEW B
  PROVE  Selections(a, B) = {PickFold(a, B, order) : order \in shuffle(DOMAIN a)}
BY DEF Selections, PickFold, FoldLeft, MapThenFoldSet

LEMMA FoldedReplaces ==
  ASSUME NEW a, NEW B
  PROVE  Outcomes(a, B) = UNION {{ReplaceFold(a, B, x0, order) : order \in shuffle(x0)} :
                                    x0 \in Selections(a, B)}
BY DEF Outcomes, ReplaceFold, FoldLeft, MapThenFoldSet

\* An order of some indices is a sequence of them.
LEMMA OrderShape ==
  ASSUME NEW T, IsFiniteSet(T), NEW ord \in shuffle(T)
  PROVE  \E n \in Nat : ord \in [1..n -> T]
<1>1. Cardinality(T) \in Nat
  BY FS_CardinalityType
<1> QED
  BY <1>1 DEF shuffle, SetToSeqs

\* The search selects among the miners offered.
LEMMA OutcomesOffered ==
  ASSUME NEW a, NEW B, IsFiniteSet(DOMAIN a), DOMAIN a \subseteq Nat, NEW mask \in Outcomes(a, B)
  PROVE  mask \in SUBSET DOMAIN a
<1> DEFINE M == SUBSET DOMAIN a
<1>1. ASSUME NEW order \in shuffle(DOMAIN a) PROVE PickFold(a, B, order) \in M
  <2>1. PICK n \in Nat : order \in [1..n -> DOMAIN a]
    BY OrderShape
  <2> DEFINE step == [q \in M \X (1..n) |-> Pick(q[1], order[q[2]], a, B)]
  <2>2. \A m \in M, k \in 1..n : step[<<m, k>>] = Pick(m, order[k], a, B)
    OBVIOUS
  <2> HIDE DEF step
  <2>3. ClosedOver(step, M, n)
    <3>1. \A m \in M, k \in 1..n : Pick(m, order[k], a, B) \in M
      BY <2>1 DEF Pick
    <3> QED BY <2>2, <3>1 DEF ClosedOver
  <2>4. PICK tr : IsTrace(tr, step, {}, M, n)
    <3>1. PICK none \in M : none = {}
      OBVIOUS
    <3> HIDE DEF M
    <3>2. \E tr : IsTrace(tr, step, none, M, n)
      BY <2>3, TraceExists
    <3> QED BY <3>1, <3>2
  <2>5. tr \in [0..n -> M] /\ tr[0] = {} /\ \A k \in 1..n : tr[k] = Pick(tr[k - 1], order[k], a, B)
    <3>1. \A k \in 1..n : k - 1 \in 0..n
      OBVIOUS
    <3> QED BY <2>2, <2>4, <3>1 DEF IsTrace
  <2>6. PickFold(a, B, order) = tr[n]
    BY <2>1, <2>5, FoldPicks
  <2> QED BY <2>1, <2>5, <2>6
<1>2. ASSUME NEW x0 \in M, NEW order \in shuffle(x0) PROVE ReplaceFold(a, B, x0, order) \in M
  <2>1. PICK n \in Nat : order \in [1..n -> DOMAIN a]
    <3>1. IsFiniteSet(x0)
      BY FS_Subset
    <3>2. PICK n \in Nat : order \in [1..n -> x0]
      BY <3>1, OrderShape
    <3> QED BY <3>2
  <2> DEFINE step == [q \in M \X (1..n) |-> Replace(q[1], order[q[2]], a, B)]
  <2>2. \A m \in M, k \in 1..n : step[<<m, k>>] = Replace(m, order[k], a, B)
    OBVIOUS
  <2> HIDE DEF step
  <2>3. ClosedOver(step, M, n)
    <3>1. \A m \in M, k \in 1..n : Replace(m, order[k], a, B) \in M
      BY <2>1, ReplaceOffered
    <3> QED BY <2>2, <3>1 DEF ClosedOver
  <2>4. PICK tr : IsTrace(tr, step, x0, M, n)
    <3> HIDE DEF M
    <3> QED BY <2>3, TraceExists
  <2>5. tr \in [0..n -> M] /\ tr[0] = x0 /\ \A k \in 1..n : tr[k] = Replace(tr[k - 1], order[k], a, B)
    <3>1. \A k \in 1..n : k - 1 \in 0..n
      OBVIOUS
    <3> QED BY <2>2, <2>4, <3>1 DEF IsTrace
  <2>6. ReplaceFold(a, B, x0, order) = tr[n]
    BY <2>1, <2>5, FoldReplaces
  <2> QED BY <2>1, <2>5, <2>6
<1>3. Selections(a, B) \subseteq M
  BY <1>1, FoldedPicks
<1>4. PICK x0 \in Selections(a, B) :
         mask \in {ReplaceFold(a, B, x0, order) : order \in shuffle(x0)}
  BY FoldedReplaces
<1> QED
  BY <1>2, <1>3, <1>4
-----------------------------------------------------------------------------
(* Splits.                                                                  *)

\* Running totals of any integers exist.
LEMMA RunningTotals ==
  ASSUME NEW m \in Nat, NEW p \in [1..m -> Int]
  PROVE  \E t \in [0..m -> Int] : t[0] = 0 /\ \A i \in 1..m : t[i] = t[i - 1] + p[i]
<1> DEFINE Adds(t, n) == t[0] = 0 /\ \A i \in 1..n : t[i] = t[i - 1] + p[i]
           H == {n \in 0..m : \E t \in [0..m -> Int] : Adds(t, n)}
<1>1. 0 \in H
  <2> DEFINE zero == [i \in 0..m |-> 0]
  <2>1. zero \in [0..m -> Int] /\ Adds(zero, 0)
    OBVIOUS
  <2> HIDE DEF zero, Adds
  <2> QED BY <2>1
<1>2. ASSUME NEW n \in 0..m, n \in H, n < m PROVE n + 1 \in H
  <2>1. PICK t \in [0..m -> Int] : Adds(t, n)
    BY <1>2
  <2> DEFINE u == [t EXCEPT ![n + 1] = t[n] + p[n + 1]]
  <2>2. n + 1 \in 1..m /\ p[n + 1] \in Int /\ t[n] \in Int
    BY <1>2
  <2>3. u \in [0..m -> Int]
    BY <2>2
  <2>4. u[0] = 0 /\ \A i \in 0..n : u[i] = t[i]
    BY <2>1, <2>2
  <2>5. u[n + 1] = u[n] + p[n + 1]
    BY <2>2, <2>4
  <2>6. \A i \in 1..n : u[i] = u[i - 1] + p[i]
    BY <2>1, <2>4
  <2>7. Adds(u, n + 1)
    <3> HIDE DEF u
    <3> QED BY <2>2, <2>4, <2>5, <2>6, SMTT(30)
  <2> HIDE DEF u, Adds
  <2> QED BY <2>2, <2>3, <2>7
<1>3. m \in H
  <2>1. \A n \in 0..m : n \in H /\ n < m => n + 1 \in H
    BY <1>2
  <2> HIDE DEF H
  <2> QED BY <1>1, <2>1, Induction
<1> QED
  BY <1>3

\* The running totals that GetAllocated computes.
Totals(s) == LET total[i \in 0..Len(s)] == IF i = 0 THEN 0 ELSE total[i - 1] + s[i].pct
             IN total

HasPct(s) == \A i \in 1..Len(s) : s[i].pct \in Int

\* total[0] is 0 and each next one adds a percentage.
LEMMA TotalsDef ==
  ASSUME NEW S, NEW s \in Seq(S), HasPct(s)
  PROVE  /\ GetAllocated(s) = Totals(s)[Len(s)]
         /\ Totals(s) \in [0..Len(s) -> Int]
         /\ Totals(s)[0] = 0
         /\ \A i \in 1..Len(s) : Totals(s)[i] = Totals(s)[i - 1] + s[i].pct
<1> DEFINE m == Len(s)
           p == [i \in 1..m |-> s[i].pct]
           step(t) == [i \in 0..m |-> IF i = 0 THEN 0 ELSE t[i - 1] + s[i].pct]
           T == Totals(s)
<1>1. m \in Nat /\ p \in [1..m -> Int]
  BY DEF HasPct
<1>2. PICK t \in [0..m -> Int] : t[0] = 0 /\ \A i \in 1..m : t[i] = t[i - 1] + p[i]
  <2> HIDE DEF m, p
  <2> QED BY <1>1, RunningTotals
<1>3. t = step(t)
  BY <1>1, <1>2
<1>4. T = step(T)
  BY <1>3 DEF Totals
<1> HIDE DEF T
<1>5. T[0] = 0 /\ \A i \in 1..m : T[i] = T[i - 1] + s[i].pct
  BY <1>1, <1>4
<1> DEFINE G == {n \in 0..m : T[n] \in Int}
<1>6. 0..m \subseteq G
  <2>1. 0 \in G
    BY <1>1, <1>5
  <2>2. \A n \in 0..m : n \in G /\ n < m => n + 1 \in G
    <3> SUFFICES ASSUME NEW n \in 0..m, T[n] \in Int, n < m PROVE T[n + 1] \in Int
      OBVIOUS
    <3>1. n + 1 \in 1..m /\ s[n + 1].pct \in Int
      BY <1>1 DEF HasPct
    <3>2. T[n + 1] = T[n] + s[n + 1].pct
      BY <1>5, <3>1
    <3> QED BY <3>1, <3>2
  <2> HIDE DEF G, m
  <2> QED BY <1>1, <2>1, <2>2, Induction
<1>7. T \in [0..m -> Int]
  <2>1. \A n \in 0..m : T[n] \in Int
    BY <1>6
  <2> QED BY <1>4, <2>1
<1>8. GetAllocated(s) = T[m]
  BY DEF GetAllocated, Totals, T
<1> QED
  BY <1>5, <1>7, <1>8 DEF T

Splits(I) == Seq([id : I, pct : Int])

\* GetAllocated is a number.
LEMMA TotalInt ==
  ASSUME NEW I, NEW s \in Splits(I)
  PROVE  /\ HasPct(s) /\ GetAllocated(s) \in Int
         /\ GetAllocated(s) = Totals(s)[Len(s)]
         /\ \A i \in 0..Len(s) : Totals(s)[i] \in Int
         /\ Totals(s)[0] = 0
         /\ \A i \in 1..Len(s) : Totals(s)[i] = Totals(s)[i - 1] + s[i].pct
<1> DEFINE R == [id : I, pct : Int]
<1>1. \A i \in 1..Len(s) : s[i] \in R
  <2>1. s \in Seq(R)
    BY DEF Splits
  <2> HIDE DEF R
  <2> QED BY <2>1
<1>2. HasPct(s) /\ Len(s) \in Nat
  BY <1>1 DEF HasPct, Splits
<1> QED
  BY <1>2, TotalsDef DEF Splits

\* Inserting a share in front adds its percentage.
LEMMA TotalInsert ==
  ASSUME NEW I, NEW s \in Splits(I), NEW id \in I, NEW p \in Int
  PROVE  /\ insert(s, id, p) \in Splits(I)
         /\ GetAllocated(insert(s, id, p)) = GetAllocated(s) + p
<1> DEFINE r == insert(s, id, p)
           m == Len(s)
           T == Totals(s)
           U == Totals(r)
           H == {n \in 0..m : U[n + 1] = T[n] + p}
<1>1. /\ r \in Splits(I) /\ m \in Nat /\ Len(r) = m + 1
      /\ r[1].pct = p /\ \A i \in 1..m : r[i + 1] = s[i]
  BY DEF insert, Share, Splits
<1> HIDE DEF r
<1>2. /\ T[0] = 0 /\ \A i \in 1..m : T[i] = T[i - 1] + s[i].pct
      /\ U[0] = 0 /\ \A i \in 1..(m + 1) : U[i] = U[i - 1] + r[i].pct
      /\ GetAllocated(s) = T[m] /\ GetAllocated(r) = U[m + 1]
      /\ \A i \in 0..m : T[i] \in Int
      /\ \A i \in 1..m : s[i].pct \in Int
  BY <1>1, TotalInt DEF HasPct
<1> HIDE DEF T, U, m
<1>3. 0 \in H
  BY <1>1, <1>2
<1>4. ASSUME NEW n \in 0..m, n \in H, n < m PROVE n + 1 \in H
  <2>1. n + 1 \in 1..m /\ n + 2 \in 1..(m + 1) /\ (n + 2) - 1 = n + 1 /\ (n + 1) - 1 = n
    BY <1>1, <1>4
  <2>2. U[n + 2] = U[n + 1] + r[n + 2].pct /\ T[n + 1] = T[n] + s[n + 1].pct
    BY <1>2, <2>1
  <2>3. r[(n + 1) + 1] = s[n + 1]
    BY <1>1, <2>1
  <2>4. U[(n + 1) + 1] = T[n + 1] + p
    BY <1>2, <1>4, <2>1, <2>2, <2>3
  <2> QED BY <2>1, <2>4
<1>5. m \in H
  <2>1. \A n \in 0..m : n \in H /\ n < m => n + 1 \in H
    BY <1>4
  <2> HIDE DEF H
  <2> QED BY <1>1, <1>3, <2>1, Induction
<1> QED
  BY <1>1, <1>2, <1>5 DEF r

\* Replacing a share changes the sum by the difference of the percentages.
LEMMA TotalReplace ==
  ASSUME NEW I, NEW s \in Splits(I), NEW j \in DOMAIN s, NEW x \in [id : I, pct : Int]
  PROVE  /\ [s EXCEPT ![j] = x] \in Splits(I)
         /\ GetAllocated([s EXCEPT ![j] = x]) = GetAllocated(s) - s[j].pct + x.pct
<1> DEFINE r == [s EXCEPT ![j] = x]
           m == Len(s)
           T == Totals(s)
           U == Totals(r)
           d == x.pct - s[j].pct
           H == {n \in 0..m : U[n] = T[n] + (IF n >= j THEN d ELSE 0)}
<1>1. /\ r \in Splits(I) /\ m \in Nat /\ Len(r) = m /\ j \in 1..m
      /\ r[j] = x /\ \A i \in 1..m : i # j => r[i] = s[i]
  BY DEF Splits
<1> HIDE DEF r
<1>2. /\ T[0] = 0 /\ \A i \in 1..m : T[i] = T[i - 1] + s[i].pct
      /\ U[0] = 0 /\ \A i \in 1..m : U[i] = U[i - 1] + r[i].pct
      /\ GetAllocated(s) = T[m] /\ GetAllocated(r) = U[m]
      /\ \A i \in 0..m : T[i] \in Int
      /\ \A i \in 1..m : s[i].pct \in Int
  BY <1>1, TotalInt DEF HasPct
<1> HIDE DEF T, U, m
<1>3. 0 \in H
  BY <1>1, <1>2
<1>4. ASSUME NEW n \in 0..m, n \in H, n < m PROVE n + 1 \in H
  <2>1. n + 1 \in 1..m /\ (n + 1) - 1 = n
    BY <1>1, <1>4
  <2>2. U[n + 1] = U[n] + r[n + 1].pct /\ T[n + 1] = T[n] + s[n + 1].pct
    BY <1>2, <2>1
  <2>3. x.pct \in Int /\ s[n + 1].pct \in Int /\ T[n] \in Int
    BY <1>2, <2>1
  <2>4. CASE n + 1 = j
    BY <1>1, <1>4, <2>1, <2>2, <2>3, <2>4
  <2>5. CASE n + 1 # j
    <3>1. r[n + 1] = s[n + 1] /\ (n + 1 >= j <=> n >= j)
      BY <1>1, <2>1, <2>5
    <3>2. d \in Int
      BY <1>1, <1>2
    <3> HIDE DEF d
    <3> QED BY <1>4, <2>1, <2>2, <2>3, <3>1, <3>2
  <2> QED BY <2>4, <2>5
<1>5. m \in H
  <2>1. \A n \in 0..m : n \in H /\ n < m => n + 1 \in H
    BY <1>4
  <2> HIDE DEF H
  <2> QED BY <1>1, <1>3, <2>1, Induction
<1>6. U[m] = T[m] + (x.pct - s[j].pct) /\ T[m] \in Int /\ s[j].pct \in Int /\ x.pct \in Int
  BY <1>1, <1>2, <1>5
<1> QED
  BY <1>1, <1>2, <1>6 DEF r

\* Cutting a share out takes its percentage away.
LEMMA TotalRemove ==
  ASSUME NEW I, NEW s \in Splits(I), NEW j \in DOMAIN s
  PROVE  /\ RemoveAt(s, j) \in Splits(I)
         /\ Len(RemoveAt(s, j)) = Len(s) - 1
         /\ \A i \in 1..(Len(s) - 1) : RemoveAt(s, j)[i] = IF i < j THEN s[i] ELSE s[i + 1]
         /\ GetAllocated(RemoveAt(s, j)) = GetAllocated(s) - s[j].pct
<1> DEFINE R == [id : I, pct : Int]
           r == RemoveAt(s, j)
           k == Len(s) - 1
           T == Totals(s)
           U == Totals(r)
           H == {n \in 0..k : U[n] = IF n < j THEN T[n] ELSE T[n + 1] - s[j].pct}
<1>1. /\ r \in Splits(I) /\ k \in Nat /\ Len(r) = k /\ j \in 1..(k + 1)
      /\ \A i \in 1..k : r[i] = IF i < j THEN s[i] ELSE s[i + 1]
  <2> DEFINE a == SubSeq(s, 1, j - 1)
             b == SubSeq(s, j + 1, Len(s))
  <2>1. s \in Seq(R)
    BY DEF Splits
  <2> HIDE DEF R
  <2>2. Len(s) \in Nat /\ k + 1 = Len(s) /\ j \in 1..Len(s) /\ k \in Nat
    BY <2>1
  <2>3. a \in Seq(R) /\ Len(a) = j - 1 /\ \A i \in 1..(j - 1) : a[i] = s[i]
    BY <2>1, <2>2
  <2>4. b \in Seq(R) /\ Len(b) = Len(s) - j /\ \A i \in 1..(Len(s) - j) : b[i] = s[j + i]
    BY <2>1, <2>2, SMTT(30)
  <2>5. r = a \o b
    BY DEF RemoveAt
  <2> HIDE DEF a, b, r
  <2>9. /\ r \in Seq(R) /\ Len(r) = Len(a) + Len(b)
         /\ \A i \in 1..(Len(a) + Len(b)) :
                r[i] = IF i <= Len(a) THEN a[i] ELSE b[i - Len(a)]
    BY <2>3, <2>4, <2>5, ConcatProperties
  <2>6. r \in Seq(R) /\ Len(r) = k
    BY <2>2, <2>3, <2>4, <2>9
  <2>7. ASSUME NEW i \in 1..k, i < j PROVE r[i] = s[i]
    BY <2>2, <2>3, <2>4, <2>9, <2>7, SMTT(30)
  <2>8. ASSUME NEW i \in 1..k, ~(i < j) PROVE r[i] = s[i + 1]
    <3>1. i - (j - 1) \in 1..(Len(s) - j) /\ j + (i - (j - 1)) = i + 1
      BY <2>2, <2>8
    <3>2. r[i] = b[i - (j - 1)]
      BY <2>2, <2>3, <2>4, <2>9, <2>8, SMTT(30)
    <3> QED BY <2>4, <3>1, <3>2
  <2> QED BY <2>2, <2>6, <2>7, <2>8 DEF Splits, R
<1> HIDE DEF r
<1>2. /\ Len(s) = k + 1
      /\ T[0] = 0 /\ \A i \in 1..(k + 1) : T[i] = T[i - 1] + s[i].pct
      /\ U[0] = 0 /\ \A i \in 1..k : U[i] = U[i - 1] + r[i].pct
      /\ GetAllocated(s) = T[k + 1] /\ GetAllocated(r) = U[k]
      /\ \A i \in 0..(k + 1) : T[i] \in Int
      /\ \A i \in 1..(k + 1) : s[i].pct \in Int
  <2>1. Len(s) = k + 1
    BY <1>1 DEF Splits
  <2> QED BY <1>1, <2>1, TotalInt DEF HasPct
<1> HIDE DEF T, U, k
<1>3. 0 \in H
  BY <1>1, <1>2
<1>4. ASSUME NEW n \in 0..k, n \in H, n < k PROVE n + 1 \in H
  <2>1. n + 1 \in 1..k /\ (n + 1) - 1 = n /\ n + 2 \in 1..(k + 1) /\ (n + 2) - 1 = n + 1
    BY <1>1, <1>4
  <2>2. /\ U[n + 1] = U[n] + r[n + 1].pct
        /\ T[n + 1] = T[n] + s[n + 1].pct /\ T[n + 2] = T[n + 1] + s[n + 2].pct
    BY <1>2, <2>1
  <2>3. /\ s[n + 1].pct \in Int /\ s[n + 2].pct \in Int /\ s[j].pct \in Int
        /\ T[n] \in Int /\ T[n + 1] \in Int
    BY <1>1, <1>2, <2>1
  <2>4. CASE n + 1 < j
    BY <1>1, <1>4, <2>1, <2>2, <2>3, <2>4
  <2>5. CASE n + 1 = j
    BY <1>1, <1>4, <2>1, <2>2, <2>3, <2>5, SMTT(30)
  <2>6. CASE n + 1 > j
    BY <1>1, <1>4, <2>1, <2>2, <2>3, <2>6
  <2> QED BY <1>1, <2>4, <2>5, <2>6
<1>5. k \in H
  <2>1. \A n \in 0..k : n \in H /\ n < k => n + 1 \in H
    BY <1>4
  <2> HIDE DEF H
  <2> QED BY <1>1, <1>3, <2>1, Induction
<1>6. U[k] = T[k + 1] - s[j].pct
  <2>1. CASE k < j
    <3>1. j = k + 1 /\ U[k] = T[k] /\ (k + 1) - 1 = k
      BY <1>1, <1>5, <2>1
    <3>2. T[k + 1] = T[k] + s[k + 1].pct /\ T[k] \in Int /\ s[k + 1].pct \in Int
      BY <1>1, <1>2, <3>1
    <3> QED BY <3>1, <3>2
  <2>2. CASE ~(k < j)
    BY <1>1, <1>5, <2>2
  <2> QED BY <2>1, <2>2
<1> QED
  BY <1>1, <1>2, <1>6 DEF r, k

\* Positive shares add up to at least nothing.
LEMMA TotalNonNegative ==
  ASSUME NEW I, NEW s \in Splits(I), AllPositive(s)
  PROVE  GetAllocated(s) >= 0
<1> DEFINE R == [id : I, pct : Int]
           m == Len(s)
           T == Totals(s)
           H == {n \in 0..m : T[n] >= 0}
<1>0. m \in Nat /\ DOMAIN s = 1..m
  <2>1. s \in Seq(R)
    BY DEF Splits
  <2> HIDE DEF R
  <2> QED BY <2>1
<1>1. /\ T[0] = 0 /\ \A i \in 1..m : T[i] = T[i - 1] + s[i].pct
      /\ GetAllocated(s) = T[m]
      /\ \A i \in 0..m : T[i] \in Int
      /\ \A i \in 1..m : s[i].pct \in Int /\ s[i].pct > 0
  <2>1. \A i \in 1..m : s[i].pct > 0
    BY <1>0 DEF AllPositive
  <2> QED BY <2>1, TotalInt DEF HasPct
<1> HIDE DEF T, m
<1>2. 0 \in H
  BY <1>0, <1>1
<1>3. ASSUME NEW n \in 0..m, n \in H, n < m PROVE n + 1 \in H
  <2>1. n + 1 \in 1..m /\ (n + 1) - 1 = n
    BY <1>0, <1>3
  <2>2. T[n + 1] = T[n] + s[n + 1].pct /\ T[n] \in Int /\ s[n + 1].pct \in Int
        /\ s[n + 1].pct > 0
    BY <1>1, <2>1
  <2> QED BY <1>3, <2>1, <2>2
<1>4. m \in H
  <2>1. \A n \in 0..m : n \in H /\ n < m => n + 1 \in H
    BY <1>3
  <2> HIDE DEF H
  <2> QED BY <1>0, <1>2, <2>1, Induction
<1> QED
  BY <1>0, <1>1, <1>4

\* Nothing is allocated of an empty split.
LEMMA TotalEmpty == GetAllocated(<<>>) = 0
<1>1. <<>> \in Splits({})
  BY DEF Splits
<1> QED
  BY <1>1, TotalInt

\* With the default destination added the shares are the whole miner; every
\* part is positive if the split did not exceed it.
LEMMA RemainingFillsWhole ==
  ASSUME NEW I, NEW s \in Splits(I), NEW id \in I, AllPositive(s)
  PROVE  /\ AllocateRemaining(s, id) \in Splits(I)
         /\ GetAllocated(AllocateRemaining(s, id)) = Whole
         /\ GetAllocated(s) <= Whole => AllPositive(AllocateRemaining(s, id))
<1> DEFINE rest == Whole - GetAllocated(s)
           r == insert(s, id, rest)
<1>1. GetAllocated(s) \in Int /\ GetAllocated(s) >= 0 /\ Whole \in Nat
  BY TotalInt, TotalNonNegative, WholeAssumption
<1>2. AllocateRemaining(s, id) = IF rest = 0 THEN s ELSE r
  BY <1>1 DEF AllocateRemaining, GetUnallocated, Refused
<1>3. r \in Splits(I) /\ GetAllocated(r) = Whole
  BY <1>1, TotalInsert
<1>4. GetAllocated(s) <= Whole /\ rest # 0 => AllPositive(r)
  BY <1>1 DEF AllPositive, insert, Share, Splits
<1> HIDE DEF r
<1> QED
  BY <1>1, <1>2, <1>3, <1>4
-----------------------------------------------------------------------------
\* Where a share is found by its id.
LEMMA FirstShare ==
  ASSUME NEW I, NEW s \in Splits(I), NEW id
  PROVE  /\ id \notin Holders(s) => IndexFrom(s, id, 1) = 0
         /\ id \in Holders(s) => /\ IndexFrom(s, id, 1) \in DOMAIN s
                                 /\ s[IndexFrom(s, id, 1)].id = id
                                 /\ IndexFrom(s, id, 1) # 0
<1> DEFINE T == {i \in 1..Len(s) : s[i].id = id}
<1>1. IndexFrom(s, id, 1) = IF T # {} THEN Min(T) ELSE 0
  BY DEF IndexFrom, SelectInSubSeq
<1>2. DOMAIN s = 1..Len(s) /\ Len(s) \in Nat
  BY DEF Splits
<1>3. T # {} <=> id \in Holders(s)
  BY <1>2 DEF Holders
<1>4. ASSUME T # {} PROVE Min(T) \in T
  <2>1. T \in SUBSET Nat
    OBVIOUS
  <2> HIDE DEF T
  <2>2. \E x \in T : \A y \in T : x <= y
    BY <1>4, <2>1, Least
  <2> QED BY <2>2 DEF Min
<1>5. \A i \in T : i \in DOMAIN s /\ s[i].id = id /\ i # 0
  BY <1>2
<1> HIDE DEF T
<1> QED
  BY <1>1, <1>3, <1>4, <1>5
=============================================================================
