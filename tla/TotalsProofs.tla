---------------------------- MODULE TotalsProofs ----------------------------
(***************************************************************************)
(* The facts the proofs about the contracts share: induction in first-     *)
(* order form, loops as iterations of their bodies, what Total does when   *)
(* entries of a table change, and the arithmetic of truncating division.   *)
(***************************************************************************)
EXTENDS Totals, FiniteSetTheorems, TLAPS

\* Every non-empty set of natural numbers has a least element: the first-
\* order form of induction that the proofs about loops use (the shortest
\* prefix of a batch for which a claim would fail).  It follows from the
\* well-foundedness of inclusion between the intervals 0..n.
LEMMA LeastNatural ==
  ASSUME NEW T, T \subseteq Nat, T # {}
  PROVE  \E n \in T : \A m \in T : n <= m
<1> DEFINE initial == {0..n : n \in T}
<1>1. ASSUME NEW n \in Nat PROVE 0..n \in FiniteSubsetsOf(Nat)
  <2>1. n \in Int /\ 0 \in Int
    OBVIOUS
  <2>2. IsFiniteSet(0..n)
    BY <2>1, FS_Interval
  <2> QED
    BY <2>2 DEF FiniteSubsetsOf
<1>2. initial \subseteq FiniteSubsetsOf(Nat) /\ initial # {}
  BY <1>1
<1>3. IsWellFoundedOn(StrictSubsetOrdering(Nat), FiniteSubsetsOf(Nat))
  BY FS_StrictSubsetOrderingWellFounded
<1>4. PICK I \in initial : \A J \in initial : ~(<<J, I>> \in StrictSubsetOrdering(Nat))
  <2> HIDE DEF initial
  <2> QED BY <1>2, <1>3, WFMin
<1>5. PICK n \in T : I = 0..n
  OBVIOUS
<1>6. ASSUME NEW m \in T, m < n PROVE FALSE
  <2>1. 0..m \in initial
    OBVIOUS
  <2>2. 0..m \subseteq 0..n /\ 0..m # 0..n
    BY <1>6
  <2>3. <<0..m, 0..n>> \in StrictSubsetOrdering(Nat)
    BY <2>2 DEF StrictSubsetOrdering
  <2> QED
    BY <1>4, <1>5, <2>1, <2>3
<1> QED
  BY <1>6

\* A loop that computes its i-th result from the one before has one result
\* after every round: this is what a recursive function of the rounds needs to
\* be more than a name.
Loops(g, N, start, step) == /\ g[0] = start
                            /\ \A i \in 1..N : g[i] = step[<<i, g[i - 1]>>]

LEMMA LoopRuns ==
  ASSUME NEW X, NEW start \in X, NEW N \in Nat, NEW step \in [(1..N) \X X -> X]
  PROVE  \E g \in [0..N -> X] : Loops(g, N, start, step)
<1> DEFINE Runs(g, n) == /\ g \in [0..n -> X]
                         /\ g[0] = start
                         /\ \A i \in 1..n : g[i] = step[<<i, g[i - 1]>>]
           Bad == {n \in 0..N : ~ \E g : Runs(g, n)}
<1> SUFFICES Bad = {}
  <2>1. N \in 0..N
    OBVIOUS
  <2> QED
    BY <2>1 DEF Loops
<1> SUFFICES ASSUME Bad # {} PROVE FALSE
  OBVIOUS
<1>1. PICK n \in Bad : \A m \in Bad : n <= m
  <2>1. Bad \subseteq Nat
    OBVIOUS
  <2> HIDE DEF Bad
  <2> QED
    BY <2>1, LeastNatural
<1>2. CASE n = 0
  <2> DEFINE g == [i \in 0..0 |-> start]
  <2>1. Runs(g, 0)
    OBVIOUS
  <2> QED
    BY <1>1, <1>2, <2>1
<1>3. CASE n # 0
  <2>1. n \in 1..N /\ n - 1 \in 0..N /\ n - 1 \notin Bad
    BY <1>1, <1>3
  <2>2. PICK h : Runs(h, n - 1)
    BY <2>1
  <2>3. h[n - 1] \in X /\ step[<<n, h[n - 1]>>] \in X
    BY <2>1, <2>2
  <2> DEFINE g == [i \in 0..n |-> IF i = n THEN step[<<n, h[n - 1]>>] ELSE h[i]]
  <2>4. \A i \in 0..(n - 1) : i \in 0..n /\ i # n /\ g[i] = h[i] /\ h[i] \in X
    BY <2>1, <2>2
  <2>5. g[n] = step[<<n, h[n - 1]>>] /\ g[n] \in X /\ g[n - 1] = h[n - 1] /\ 0 \in 0..(n - 1)
    BY <2>1, <2>3, <2>4
  <2>6. g \in [0..n -> X]
    BY <2>1, <2>2, <2>3
  <2> HIDE DEF g
  <2>7. \A i \in 1..n : g[i] = step[<<i, g[i - 1]>>]
    <3>1. ASSUME NEW i \in 1..n, i # n PROVE g[i] = step[<<i, g[i - 1]>>]
      <4>1. i \in 1..(n - 1) /\ i \in 0..(n - 1) /\ i - 1 \in 0..(n - 1)
        BY <2>1, <3>1
      <4> QED
        BY <2>2, <2>4, <4>1
    <3> QED
      BY <2>5, <3>1
  <2>8. Runs(g, n)
    BY <2>2, <2>4, <2>5, <2>6, <2>7
  <2> QED
    BY <1>1, <2>8
<1> QED
  BY <1>2, <1>3

\* Two runs that agree on a round whenever they agree on the one before.
InStep(f, g, N) == /\ f[0] = g[0]
                   /\ \A i \in 1..N : f[i - 1] = g[i - 1] => f[i] = g[i]

LEMMA LoopRunsAgree ==
  ASSUME NEW N \in Nat, NEW f, NEW g, InStep(f, g, N)
  PROVE  \A i \in 0..N : f[i] = g[i]
<1> DEFINE Bad == {i \in 0..N : f[i] # g[i]}
<1> SUFFICES ASSUME Bad # {} PROVE FALSE
  OBVIOUS
<1>1. PICK n \in Bad : \A m \in Bad : n <= m
  <2>1. Bad \subseteq Nat
    OBVIOUS
  <2> HIDE DEF Bad
  <2> QED
    BY <2>1, LeastNatural
<1>2. n \in 1..N /\ n - 1 \in 0..N /\ n - 1 \notin Bad
  BY <1>1 DEF InStep
<1> QED
  BY <1>1, <1>2 DEF InStep

\* The units of every entry but x.
OtherUnits(f, x) == UNION {{y} \X (1..f[y]) : y \in DOMAIN f \ {x}}

\* A finite table of natural numbers has finitely many units, so its total
\* is a natural number.
LEMMA UnitsFinite ==
  ASSUME NEW S, IsFiniteSet(S), NEW f \in [S -> Nat]
  PROVE  /\ IsFiniteSet(Units(f))
         /\ Total(f) \in Nat
<1> DEFINE block == [x \in S |-> {x} \X (1..f[x])]
           blocks == {block[x] : x \in S}
<1>1. block \in Surjection(S, blocks)
  BY DEF Surjection
<1>2. IsFiniteSet(blocks)
  BY <1>1, FS_Surjection
<1>3. ASSUME NEW B \in blocks PROVE IsFiniteSet(B)
  <2>1. PICK x \in S : B = {x} \X (1..f[x])
    OBVIOUS
  <2>2. IsFiniteSet({x})
    BY FS_Singleton
  <2>3. IsFiniteSet(1..f[x])
    <3>1. f[x] \in Int
      OBVIOUS
    <3> QED BY <3>1, FS_Interval
  <2> QED
    BY <2>1, <2>2, <2>3, FS_Product
<1>4. IsFiniteSet(UNION blocks)
  <2> HIDE DEF blocks
  <2> QED BY <1>2, <1>3, FS_UNION
<1>5. Units(f) = UNION blocks
  BY DEF Units
<1> QED
  BY <1>4, <1>5, FS_CardinalityType DEF Total

\* Splitting off one entry.
LEMMA TotalSplit ==
  ASSUME NEW S, IsFiniteSet(S), NEW f \in [S -> Nat],
         NEW x \in S
  PROVE  /\ IsFiniteSet(OtherUnits(f, x))
         /\ Cardinality(OtherUnits(f, x)) \in Nat
         /\ Total(f) = Cardinality(OtherUnits(f, x)) + f[x]
<1> DEFINE mine == {x} \X (1..f[x])
           others == OtherUnits(f, x)
<1>1. Units(f) = others \union mine /\ others \cap mine = {}
  BY DEF Units, OtherUnits
<1>2. IsFiniteSet(Units(f))
  BY UnitsFinite
<1>3. IsFiniteSet(others) /\ IsFiniteSet(mine)
  BY <1>1, <1>2, FS_Subset
<1>4. Cardinality(mine) = f[x]
  <2>1. IsFiniteSet({x}) /\ Cardinality({x}) = 1
    BY FS_Singleton
  <2>2. IsFiniteSet(1..f[x]) /\ Cardinality(1..f[x]) = f[x]
    BY FS_Interval
  <2>3. Cardinality({x} \X (1..f[x])) = Cardinality({x}) * Cardinality(1..f[x])
    BY <2>1, <2>2, FS_Product
  <2> QED
    BY <2>1, <2>2, <2>3
<1>5. Cardinality(others \union mine) = Cardinality(others) + Cardinality(mine) - 0
  BY <1>1, <1>3, FS_Union, FS_EmptySet
<1>6. Cardinality(others) \in Nat
  BY <1>3, FS_CardinalityType
<1> QED
  BY <1>1, <1>3, <1>4, <1>5, <1>6 DEF Total

\* Two tables that differ at most in entry x have totals that differ by as
\* much as that entry.
LEMMA TotalUpdate ==
  ASSUME NEW S, IsFiniteSet(S), NEW f \in [S -> Nat], NEW g \in [S -> Nat],
         NEW x \in S, \A y \in S \ {x} : g[y] = f[y]
  PROVE  Total(g) = Total(f) - f[x] + g[x]
<1>1. OtherUnits(g, x) = OtherUnits(f, x)
  BY DEF OtherUnits
<1>2. /\ Total(f) = Cardinality(OtherUnits(f, x)) + f[x]
      /\ Cardinality(OtherUnits(f, x)) \in Nat
  BY TotalSplit
<1>3. Total(g) = Cardinality(OtherUnits(g, x)) + g[x]
  BY TotalSplit
<1> QED
  BY <1>1, <1>2, <1>3

\* A table with one entry less.
LEMMA TotalWithout ==
  ASSUME NEW S, IsFiniteSet(S), NEW g \in [S -> Nat], NEW x \in S,
         NEW f \in [S \ {x} -> Nat], \A y \in S \ {x} : g[y] = f[y]
  PROVE  Total(g) = Total(f) + g[x]
<1>1. OtherUnits(g, x) = Units(f)
  BY DEF OtherUnits, Units
<1> QED
  BY <1>1, TotalSplit DEF Total

\* No entry exceeds the total, and no two entries do together.
LEMMA EntryAtMostTotal ==
  ASSUME NEW S, IsFiniteSet(S), NEW f \in [S -> Nat],
         NEW x \in S
  PROVE  f[x] <= Total(f)
BY TotalSplit

LEMMA PairAtMostTotal ==
  ASSUME NEW S, IsFiniteSet(S), NEW f \in [S -> Nat],
         NEW x \in S, NEW y \in S, x # y
  PROVE  f[x] + f[y] <= Total(f)
<1> DEFINE g == [f EXCEPT ![x] = 0]
<1>1. g \in [S -> Nat] /\ g[y] = f[y]
  OBVIOUS
<1>2. Total(g) = Total(f) - f[x] + 0
  <2>1. g[x] = 0 /\ \A z \in S \ {x} : g[z] = f[z]
    OBVIOUS
  <2> HIDE DEF g
  <2> QED BY <1>1, <2>1, TotalUpdate
<1>3. g[y] <= Total(g)
  <2> HIDE DEF g
  <2> QED BY <1>1, EntryAtMostTotal
<1>4. Total(f) \in Nat
  BY UnitsFinite
<1> QED
  BY <1>1, <1>2, <1>3, <1>4

\* A table of zeros has total zero.
LEMMA TotalOfZeros ==
  ASSUME NEW S
  PROVE  Total([x \in S |-> 0]) = 0
<1>1. Units([x \in S |-> 0]) = {}
  BY DEF Units
<1> QED
  BY <1>1, FS_EmptySet DEF Total

\* Moving n units between two different entries keeps the total.
LEMMA TotalMove ==
  ASSUME NEW S, IsFiniteSet(S), NEW f \in [S -> Nat], NEW g \in [S -> Nat],
         NEW x \in S, NEW y \in S, x # y, NEW n \in Nat,
         g[x] = f[x] - n, g[y] = f[y] + n,
         \A z \in S \ {x, y} : g[z] = f[z]
  PROVE  Total(g) = Total(f)
<1> DEFINE h == [f EXCEPT ![x] = g[x]]
<1>1. h \in [S -> Nat] /\ h[x] = g[x] /\ h[y] = f[y]
  OBVIOUS
<1>2. \A z \in S \ {x} : h[z] = f[z]
  OBVIOUS
<1>3. \A z \in S \ {y} : g[z] = h[z]
  OBVIOUS
<1> HIDE DEF h
<1>4. Total(h) = Total(f) - f[x] + h[x]
  BY <1>1, <1>2, TotalUpdate
<1>5. Total(g) = Total(h) - h[y] + g[y]
  BY <1>1, <1>3, TotalUpdate
<1>6. Total(f) \in Nat
  BY UnitsFinite
<1> QED
  BY <1>1, <1>4, <1>5, <1>6

-----------------------------------------------------------------------------
(* Facts about products and quotients of naturals. *)

\* A product of naturals is natural, and a positive factor cancels.
LEMMA ProductsNatural == \A a, b \in Nat : a * b \in Nat
OBVIOUS

LEMMA ProductCancels ==
  ASSUME NEW s \in Nat, s > 0, NEW a \in Nat, NEW b \in Nat
  PROVE  /\ s * a <= s * b => a <= b
         /\ s * a < s * b => a < b
<1>1. ASSUME a > b PROVE s * a >= s * b + s
  <2>1. PICK c \in Nat : a = b + 1 + c
    <3>1. a - b - 1 \in Nat /\ a = b + 1 + (a - b - 1)
      BY <1>1
    <3> QED
      BY <3>1
  <2>2. s * (b + 1 + c) = s * b + s + s * c /\ s * c \in Nat
    OBVIOUS
  <2> QED
    BY <2>1, <2>2
<1>2. a = b => s * a = s * b
  OBVIOUS
<1>3. s * a \in Int /\ s * b \in Int
  OBVIOUS
<1> QED
  BY <1>1, <1>2, <1>3

\* A quotient is the largest whose product with the divisor still fits.
LEMMA Quotient ==
  ASSUME NEW s \in Nat, s > 0, NEW n \in Nat
  PROVE  /\ n \div s \in Nat
         /\ s * (n \div s) <= n
         /\ n <= s * (n \div s) + (s - 1)
OBVIOUS
=============================================================================
