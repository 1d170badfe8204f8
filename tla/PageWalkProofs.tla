--------------------------- MODULE PageWalkProofs ---------------------------
(***************************************************************************)
(* Facts about lists, their order and their slices, and what a client that *)
(* reads a list slice by slice, while it changes, gets to see: the lemmas  *)
(* the proofs about the compliance contract and the registry share.        *)
(***************************************************************************)
EXTENDS PageWalk, TotalsProofs, SequenceTheorems

-----------------------------------------------------------------------------
(* Lists. *)

In(x, list) == \E k \in 1..Len(list) : list[k] = x

Distinct(list) == \A i, j \in 1..Len(list) : list[i] = list[j] => i = j

LEMMA EmptyList ==
  /\ \A S : <<>> \in Seq(S)
  /\ Len(<<>>) = 0 /\ Distinct(<<>>) /\ \A x : ~In(x, <<>>)
BY DEF Distinct, In

LEMMA AppendedList ==
  ASSUME NEW S, NEW list \in Seq(S), NEW x \in S
  PROVE  /\ Append(list, x) \in Seq(S)
         /\ Len(Append(list, x)) = Len(list) + 1
         /\ \A y : In(y, Append(list, x)) <=> (In(y, list) \/ y = x)
         /\ Distinct(list) /\ ~In(x, list) => Distinct(Append(list, x))
<1> DEFINE n == Len(list)
           more == Append(list, x)
<1>1. /\ n \in Nat /\ more \in Seq(S) /\ Len(more) = n + 1 /\ more[n + 1] = x
      /\ \A i \in 1..n : more[i] = list[i]
  BY AppendProperties, LenProperties
<1> HIDE DEF more, n
<1>2. \A y : In(y, more) <=> (\E k \in 1..(n + 1) : more[k] = y)
  BY <1>1 DEF In
<1>3. \A y : In(y, list) <=> (\E k \in 1..n : more[k] = y)
  BY <1>1 DEF In, n
<1>4. \A y : In(y, more) <=> (In(y, list) \/ y = x)
  BY <1>1, <1>2, <1>3
<1>5. ASSUME Distinct(list), ~In(x, list) PROVE Distinct(more)
  <2>1. \A i, j \in 1..n : more[i] = more[j] => i = j
    BY <1>1, <1>5 DEF Distinct, n
  <2>2. \A i \in 1..n : more[i] # x
    BY <1>3, <1>5
  <2> QED
    BY <1>1, <2>1, <2>2 DEF Distinct
<1> QED
  BY <1>1, <1>4, <1>5 DEF more, n

\* The first c items of a list.
First(list, c) == {list[k] : k \in 1..c}

LEMMA FirstSize ==
  ASSUME NEW S, NEW list \in Seq(S), Distinct(list), NEW c \in 0..Len(list)
  PROVE  IsFiniteSet(First(list, c)) /\ Cardinality(First(list, c)) = c
<1> DEFINE items == First(list, c)
           at == [k \in 1..c |-> list[k]]
<1>1. Len(list) \in Nat /\ c \in Nat /\ 1..c \subseteq 1..Len(list)
  <2>1. Len(list) \in Nat
    BY LenProperties
  <2> QED
    BY <2>1
<1>2. at \in Surjection(1..c, items)
  BY DEF Surjection, First
<1>3. at \in Injection(1..c, items)
  <2>1. at \in [1..c -> items] /\ \A i, j \in 1..c : at[i] = at[j] => i = j
    BY <1>1 DEF Distinct, First
  <2> HIDE DEF at, items
  <2> QED
    BY <2>1 DEF Injection, IsInjective
<1>4. IsFiniteSet(1..c) /\ Cardinality(1..c) = c
  BY <1>1, FS_Interval
<1> HIDE DEF at, items
<1>5. IsFiniteSet(items) /\ Cardinality(items) = Cardinality(1..c)
  BY <1>2, <1>3, <1>4, FS_Surjection
<1> QED
  BY <1>4, <1>5 DEF items

\* A list without repetition is as long as the set of its items is large.
LEMMA DistinctLength ==
  ASSUME NEW S, NEW list \in Seq(S), Distinct(list)
  PROVE  /\ IsFiniteSet({list[k] : k \in 1..Len(list)})
         /\ Cardinality({list[k] : k \in 1..Len(list)}) = Len(list)
<1>1. Len(list) \in 0..Len(list)
  BY LenProperties
<1> QED
  BY <1>1, FirstSize DEF First

LEMMA JoinedList ==
  ASSUME NEW S, NEW l \in Seq(S), NEW m \in Seq(S)
  PROVE  /\ l \o m \in Seq(S)
         /\ Len(l \o m) = Len(l) + Len(m)
         /\ \A x : In(x, l \o m) <=> (In(x, l) \/ In(x, m))
         /\ (/\ Distinct(l) /\ Distinct(m)
             /\ \A x : ~(In(x, l) /\ In(x, m))) => Distinct(l \o m)
<1> DEFINE c == l \o m
           n == Len(l)
           k == Len(m)
<1>1. /\ n \in Nat /\ k \in Nat /\ c \in Seq(S) /\ Len(c) = n + k
      /\ \A i \in 1..(n + k) : c[i] = IF i <= n THEN l[i] ELSE m[i - n]
  BY ConcatProperties, LenProperties
<1> HIDE DEF c, n, k
<1>2. \A x : In(x, c) <=> \E i \in 1..(n + k) : c[i] = x
  BY <1>1 DEF In
<1>3. \A x : In(x, l) <=> \E i \in 1..n : l[i] = x
  BY DEF In, n
<1>4. \A x : In(x, m) <=> \E i \in 1..k : m[i] = x
  BY DEF In, k
<1>5. ASSUME NEW x PROVE In(x, c) <=> (In(x, l) \/ In(x, m))
  <2>1. ASSUME In(x, l) PROVE In(x, c)
    BY <1>1, <1>2, <1>3, <2>1
  <2>2. ASSUME In(x, m) PROVE In(x, c)
    <3>1. PICK i \in 1..k : m[i] = x
      BY <1>4, <2>2
    <3>2. n + i \in 1..(n + k) /\ c[n + i] = m[i]
      BY <1>1
    <3> QED
      BY <1>2, <3>1, <3>2
  <2>3. ASSUME In(x, c) PROVE In(x, l) \/ In(x, m)
    <3>1. PICK i \in 1..(n + k) : c[i] = x
      BY <1>2, <2>3
    <3>2. i <= n => i \in 1..n
      BY <1>1
    <3>3. ~(i <= n) => i - n \in 1..k
      BY <1>1
    <3> QED
      BY <1>1, <1>3, <1>4, <3>1, <3>2, <3>3
  <2> QED
    BY <2>1, <2>2, <2>3
<1>6. ASSUME Distinct(l), Distinct(m), \A x : ~(In(x, l) /\ In(x, m)) PROVE Distinct(c)
  <2>1. ASSUME NEW i \in 1..(n + k), NEW j \in 1..(n + k), c[i] = c[j] PROVE i = j
    <3>1. CASE i <= n /\ j <= n
      BY <1>1, <1>6, <2>1, <3>1 DEF Distinct, n
    <3>2. CASE ~(i <= n) /\ ~(j <= n)
      <4>1. i - n \in 1..k /\ j - n \in 1..k /\ m[i - n] = m[j - n]
        BY <1>1, <2>1, <3>2
      <4>2. i - n = j - n
        BY <1>6, <4>1 DEF Distinct, k
      <4> QED
        BY <1>1, <4>2
    <3>3. CASE i <= n /\ ~(j <= n)
      <4>1. i \in 1..n /\ j - n \in 1..k /\ l[i] = m[j - n]
        BY <1>1, <2>1, <3>3
      <4> QED
        BY <1>3, <1>4, <1>6, <4>1
    <3>4. CASE ~(i <= n) /\ j <= n
      <4>1. j \in 1..n /\ i - n \in 1..k /\ l[j] = m[i - n]
        BY <1>1, <2>1, <3>4
      <4> QED
        BY <1>3, <1>4, <1>6, <4>1
    <3> QED
      BY <3>1, <3>2, <3>3, <3>4
  <2> QED
    BY <1>1, <2>1 DEF Distinct
<1> QED
  BY <1>1, <1>5, <1>6 DEF c, n, k

-----------------------------------------------------------------------------
(* Kept: the loop that copies some items of a list. *)

\* kept[i] is what the first i rounds copied.
Keeps(kept, list, keep) ==
    /\ kept[0] = <<>>
    /\ \A i \in 1..Len(list) :
          kept[i] = IF list[i] \in keep THEN Append(kept[i - 1], list[i]) ELSE kept[i - 1]
    /\ Kept(list, keep) = kept[Len(list)]

LEMMA KeptSteps ==
  ASSUME NEW S, NEW list \in Seq(S), NEW keep
  PROVE  \E kept \in [0..Len(list) -> Seq(S)] : Keeps(kept, list, keep)
<1> DEFINE N == Len(list)
           X == Seq(S)
           start == <<>>
           Round(i, l) == IF list[i] \in keep THEN Append(l, list[i]) ELSE l
           step == [t \in (1..N) \X X |-> Round(t[1], t[2])]
           IsRun(g) == g = [i \in 0..N |-> IF i = 0 THEN start ELSE Round(i, g[i - 1])]
           run == CHOOSE g : IsRun(g)
<1>1. N \in Nat /\ start \in X
  BY LenProperties
<1>2. ASSUME NEW i \in 1..N, NEW l \in X PROVE Round(i, l) \in X
  BY ElementOfSeq, AppendProperties
<1>3. Kept(list, keep) = run[N]
  BY DEF Kept
<1> HIDE DEF X, Round, start, N
<1>4. step \in [(1..N) \X X -> X]
  BY <1>2
<1>5. PICK g \in [0..N -> X] : Loops(g, N, start, step)
  <2> HIDE DEF step
  <2> QED
    BY <1>1, <1>4, LoopRuns
<1>6. ASSUME NEW i \in 1..N PROVE g[i] = Round(i, g[i - 1])
  <2>1. i - 1 \in 0..N
    BY <1>1
  <2>2. <<i, g[i - 1]>> \in (1..N) \X X
    BY <2>1
  <2> QED
    BY <1>5, <2>2 DEF Loops
<1>7. IsRun(g)
  <2>1. \A i \in 0..N : g[i] = IF i = 0 THEN start ELSE Round(i, g[i - 1])
    BY <1>1, <1>5, <1>6 DEF Loops
  <2> QED
    BY <2>1
<1>8. IsRun(run)
  <2> HIDE DEF IsRun
  <2> QED
    BY <1>7
<1> HIDE DEF run
<1>9. \A i \in 0..N : run[i] = g[i]
  <2>1. run[0] = start /\ \A i \in 1..N : run[i] = Round(i, run[i - 1])
    BY <1>1, <1>8
  <2>2. InStep(run, g, N)
    BY <1>5, <1>6, <2>1 DEF InStep, Loops
  <2> QED
    BY <1>1, <2>2, LoopRunsAgree
<1>10. run[N] = g[N]
  BY <1>1, <1>9
<1> QED
  BY <1>3, <1>5, <1>6, <1>10 DEF N, X, Round, start, Loops, Keeps

\* What is kept of a list: its items as far as they are to be kept, in their
\* order, none of them twice if none was there twice.
LEMMA KeptItems ==
  ASSUME NEW S, NEW list \in Seq(S), NEW keep
  PROVE  /\ Kept(list, keep) \in Seq(S)
         /\ Len(Kept(list, keep)) <= Len(list)
         /\ \A x : In(x, Kept(list, keep)) <=> (In(x, list) /\ x \in keep)
         /\ Distinct(list) => Distinct(Kept(list, keep))
<1> DEFINE N == Len(list)
<1>1. N \in Nat /\ \A i \in 1..N : list[i] \in S
  BY LenProperties, ElementOfSeq
<1>0. PICK kept \in [0..N -> Seq(S)] : Keeps(kept, list, keep)
  BY KeptSteps
<1>2. /\ kept[0] = <<>>
      /\ \A i \in 1..N :
            kept[i] = IF list[i] \in keep THEN Append(kept[i - 1], list[i]) ELSE kept[i - 1]
      /\ Kept(list, keep) = kept[N]
  BY <1>0 DEF Keeps
<1> DEFINE Upto(x, i) == \E k \in 1..i : list[k] = x
           Good(i) == /\ Len(kept[i]) <= i
                      /\ \A x : In(x, kept[i]) <=> (Upto(x, i) /\ x \in keep)
                      /\ Distinct(list) => Distinct(kept[i])
           Bad == {i \in 0..N : ~Good(i)}
<1>3. Good(0)
  BY <1>2, EmptyList
<1>4. ASSUME NEW i \in 1..N, Good(i - 1) PROVE Good(i)
  <2>1. kept[i - 1] \in Seq(S) /\ Len(kept[i - 1]) \in Nat
    <3>1. i - 1 \in 0..N
      BY <1>1
    <3> HIDE DEF N, Good
    <3>2. kept[i - 1] \in Seq(S)
      BY <3>1
    <3> QED
      BY <3>2, LenProperties
  <2>2. \A x : Upto(x, i) <=> (Upto(x, i - 1) \/ x = list[i])
    <3>1. 1..i = (1..(i - 1)) \union {i}
      BY <1>1
    <3> QED
      BY <3>1
  <2>3. Distinct(list) => ~Upto(list[i], i - 1)
    BY <1>1 DEF Distinct
  <2>4. /\ Len(kept[i - 1]) <= i - 1
        /\ \A x : In(x, kept[i - 1]) <=> (Upto(x, i - 1) /\ x \in keep)
        /\ Distinct(list) => Distinct(kept[i - 1])
    BY <1>4
  <2> HIDE DEF Upto, N
  <2>5. CASE list[i] \notin keep
    <3>1. kept[i] = kept[i - 1]
      BY <1>2, <2>5
    <3>2. Len(kept[i]) <= i
      BY <1>1, <2>1, <2>4, <3>1
    <3> QED
      BY <2>2, <2>4, <2>5, <3>1, <3>2
  <2>6. CASE list[i] \in keep
    <3> DEFINE old == kept[i - 1]
               y == list[i]
    <3>1. kept[i] = Append(old, y) /\ y \in S /\ old \in Seq(S)
      BY <1>1, <1>2, <2>1, <2>6
    <3> HIDE DEF old, y
    <3>2. /\ Len(kept[i]) = Len(old) + 1
          /\ \A x : In(x, kept[i]) <=> (In(x, old) \/ x = y)
          /\ Distinct(old) /\ ~In(y, old) => Distinct(kept[i])
      BY <3>1, AppendedList
    <3>3. Len(kept[i]) <= i
      BY <1>1, <2>1, <2>4, <3>2 DEF old
    <3> QED
      BY <2>2, <2>3, <2>4, <2>6, <3>2, <3>3 DEF old, y
  <2> QED
    BY <2>5, <2>6
<1>5. Bad = {}
  <2> SUFFICES ASSUME Bad # {} PROVE FALSE
    OBVIOUS
  <2> HIDE DEF Good
  <2>1. Bad \subseteq Nat
    OBVIOUS
  <2>2. PICK i \in Bad : \A j \in Bad : i <= j
    BY <2>1, LeastNatural
  <2>3. i \in 1..N /\ i - 1 \in 0..N /\ i - 1 \notin Bad
    BY <1>1, <1>3, <2>2
  <2>4. Good(i - 1)
    BY <2>3
  <2> QED
    BY <1>4, <2>2, <2>3, <2>4
<1>6. Good(N) /\ kept[N] \in Seq(S)
  <2>1. N \in 0..N
    BY <1>1
  <2> HIDE DEF Good, N
  <2> QED
    BY <1>5, <2>1
<1>7. \A x : Upto(x, N) <=> In(x, list)
  BY DEF In
<1> QED
  BY <1>2, <1>6, <1>7


LEMMA ItemsIn ==
  ASSUME NEW S, NEW list \in Seq(S)
  PROVE  /\ Items(list) = {list[k] : k \in 1..Len(list)} /\ Items(list) \subseteq S
         /\ \A x : x \in Items(list) <=> In(x, list)
<1>1. DOMAIN list = 1..Len(list) /\ \A k \in 1..Len(list) : list[k] \in S
  BY LenProperties, ElementOfSeq
<1> QED
  BY <1>1 DEF Items, In

LEMMA WithoutKeeps ==
  ASSUME NEW S, NEW list \in Seq(S), NEW gone
  PROVE  /\ Without(list, gone) \in Seq(S)
         /\ Len(Without(list, gone)) <= Len(list)
         /\ \A x : In(x, Without(list, gone)) <=> (In(x, list) /\ x \notin gone)
         /\ Distinct(list) => Distinct(Without(list, gone))
BY KeptItems, ItemsIn DEF Without

-----------------------------------------------------------------------------
(* Order. *)

Before(list, x, y) == \E i, j \in 1..Len(list) : i < j /\ list[i] = x /\ list[j] = y

LEMMA BeforeIn ==
  ASSUME NEW list, NEW x, NEW y, Before(list, x, y)
  PROVE  In(x, list) /\ In(y, list)
BY DEF Before, In

LEMMA EitherBefore ==
  ASSUME NEW S, NEW list \in Seq(S), NEW x, NEW y, In(x, list), In(y, list), x # y
  PROVE  Before(list, x, y) \/ Before(list, y, x)
<1>1. Len(list) \in Nat
  BY LenProperties
<1>2. PICK i \in 1..Len(list) : list[i] = x
  BY DEF In
<1>3. PICK j \in 1..Len(list) : list[j] = y
  BY DEF In
<1>4. i < j \/ j < i
  BY <1>1, <1>2, <1>3
<1> QED
  BY <1>2, <1>3, <1>4 DEF Before

LEMMA OneWay ==
  ASSUME NEW S, NEW list \in Seq(S), Distinct(list), NEW x, NEW y, Before(list, x, y)
  PROVE  x # y /\ ~Before(list, y, x)
<1>1. Len(list) \in Nat
  BY LenProperties
<1>2. PICK i \in 1..Len(list), j \in 1..Len(list) : i < j /\ list[i] = x /\ list[j] = y
  BY DEF Before
<1>3. ASSUME NEW k \in 1..Len(list), NEW l \in 1..Len(list), k < l, list[k] = y, list[l] = x
      PROVE  FALSE
  <2>1. k = j /\ l = i
    BY <1>2, <1>3 DEF Distinct
  <2> QED
    BY <1>1, <1>2, <1>3, <2>1
<1>4. x # y
  BY <1>1, <1>2 DEF Distinct
<1> QED
  BY <1>3, <1>4 DEF Before

LEMMA AppendedBefore ==
  ASSUME NEW S, NEW list \in Seq(S), NEW z \in S, NEW x, NEW y, Before(Append(list, z), x, y)
  PROVE  Before(list, x, y) \/ (In(x, list) /\ y = z)
<1> DEFINE n == Len(list)
           more == Append(list, z)
<1>1. n \in Nat /\ Len(more) = n + 1 /\ more[n + 1] = z /\ \A i \in 1..n : more[i] = list[i]
  BY AppendProperties, LenProperties
<1> HIDE DEF more
<1>2. PICK i \in 1..Len(more), j \in 1..Len(more) : i < j /\ more[i] = x /\ more[j] = y
  BY DEF Before, more
<1>3. i \in 1..n /\ list[i] = x
  BY <1>1, <1>2
<1>4. CASE j \in 1..n
  BY <1>1, <1>2, <1>3, <1>4 DEF Before
<1>5. CASE j = n + 1
  BY <1>1, <1>2, <1>3, <1>5 DEF In
<1> QED
  BY <1>1, <1>2, <1>4, <1>5

LEMMA JoinedBefore ==
  ASSUME NEW S, NEW l \in Seq(S), NEW m \in Seq(S), NEW x, NEW y, Before(l \o m, x, y)
  PROVE  Before(l, x, y) \/ (In(x, l) /\ In(y, m)) \/ Before(m, x, y)
<1> DEFINE n == Len(l)
           k == Len(m)
           c == l \o m
<1>1. /\ n \in Nat /\ k \in Nat /\ Len(c) = n + k
      /\ \A i \in 1..(n + k) : c[i] = IF i <= n THEN l[i] ELSE m[i - n]
  BY ConcatProperties, LenProperties
<1> HIDE DEF c
<1>2. PICK i \in 1..(n + k), j \in 1..(n + k) : i < j /\ c[i] = x /\ c[j] = y
  BY <1>1 DEF Before, c
<1> HIDE DEF n, k
<1>3. CASE j <= n
  <2>1. i \in 1..n /\ j \in 1..n /\ l[i] = x /\ l[j] = y
    BY <1>1, <1>2, <1>3
  <2> QED
    BY <1>2, <2>1 DEF Before, n
<1>4. CASE i <= n /\ ~(j <= n)
  <2>1. i \in 1..n /\ j - n \in 1..k /\ l[i] = x /\ m[j - n] = y
    BY <1>1, <1>2, <1>4
  <2> QED
    BY <2>1 DEF In, n, k
<1>5. CASE ~(i <= n) /\ ~(j <= n)
  <2>1. i - n \in 1..k /\ j - n \in 1..k /\ i - n < j - n /\ m[i - n] = x /\ m[j - n] = y
    BY <1>1, <1>2, <1>5
  <2> QED
    BY <2>1 DEF Before, k
<1> QED
  BY <1>1, <1>2, <1>3, <1>4, <1>5

\* What is kept keeps its order.
LEMMA KeptOrder ==
  ASSUME NEW S, NEW list \in Seq(S), NEW keep, NEW x, NEW y, Before(Kept(list, keep), x, y)
  PROVE  Before(list, x, y)
<1> DEFINE N == Len(list)
<1>1. N \in Nat /\ \A i \in 1..N : list[i] \in S
  BY LenProperties, ElementOfSeq
<1>2. PICK kept \in [0..N -> Seq(S)] : Keeps(kept, list, keep)
  BY KeptSteps
<1>3. /\ kept[0] = <<>>
      /\ \A i \in 1..N :
            kept[i] = IF list[i] \in keep THEN Append(kept[i - 1], list[i]) ELSE kept[i - 1]
      /\ Kept(list, keep) = kept[N]
  BY <1>2 DEF Keeps
<1> DEFINE Met(z, i) == \E k \in 1..i : list[k] = z
           Good(i) == /\ \A z : In(z, kept[i]) => Met(z, i)
                      /\ Before(kept[i], x, y) => Before(list, x, y)
           Bad == {i \in 0..N : ~Good(i)}
<1>4. Good(0)
  BY <1>3, EmptyList DEF Before, In
<1>5. ASSUME NEW i \in 1..N, Good(i - 1) PROVE Good(i)
  <2>1. kept[i - 1] \in Seq(S) /\ list[i] \in S
    <3>1. i - 1 \in 0..N
      BY <1>1
    <3> HIDE DEF N, Good
    <3> QED
      BY <1>1, <3>1
  <2>2. \A z : Met(z, i) <=> (Met(z, i - 1) \/ z = list[i])
    <3>1. 1..i = (1..(i - 1)) \union {i}
      BY <1>1
    <3> QED
      BY <3>1
  <2>3. Met(x, i - 1) => Before(list, x, list[i])
    <3>1. ASSUME NEW k \in 1..(i - 1), list[k] = x PROVE Before(list, x, list[i])
      <4>1. k \in 1..N /\ k < i
        BY <1>1
      <4> QED
        BY <3>1, <4>1 DEF Before
    <3> QED
      BY <3>1
  <2>4. /\ \A z : In(z, kept[i - 1]) => Met(z, i - 1)
        /\ Before(kept[i - 1], x, y) => Before(list, x, y)
    BY <1>5
  <2> HIDE DEF Met, N
  <2>5. CASE list[i] \notin keep
    <3>1. kept[i] = kept[i - 1]
      BY <1>3, <2>5
    <3> QED
      BY <2>2, <2>4, <3>1
  <2>6. CASE list[i] \in keep
    <3> DEFINE old == kept[i - 1]
               z == list[i]
    <3>1. kept[i] = Append(old, z) /\ z \in S /\ old \in Seq(S)
      BY <1>3, <2>1, <2>6
    <3> HIDE DEF old, z
    <3>2. \A u : In(u, kept[i]) <=> (In(u, old) \/ u = z)
      BY <3>1, AppendedList
    <3>3. Before(kept[i], x, y) => Before(old, x, y) \/ (In(x, old) /\ y = z)
      BY <3>1, AppendedBefore
    <3> QED
      BY <2>2, <2>3, <2>4, <3>2, <3>3 DEF old, z
  <2> QED
    BY <2>5, <2>6
<1>6. Bad = {}
  <2> SUFFICES ASSUME Bad # {} PROVE FALSE
    OBVIOUS
  <2> HIDE DEF Good
  <2>1. Bad \subseteq Nat
    OBVIOUS
  <2>2. PICK i \in Bad : \A j \in Bad : i <= j
    BY <2>1, LeastNatural
  <2>3. i \in 1..N /\ i - 1 \in 0..N /\ i - 1 \notin Bad
    BY <1>1, <1>4, <2>2
  <2>4. Good(i - 1)
    BY <2>3
  <2> QED
    BY <1>5, <2>2, <2>3, <2>4
<1>7. Good(N)
  <2>1. N \in 0..N
    BY <1>1
  <2> HIDE DEF Good, N
  <2> QED
    BY <1>6, <2>1
<1> QED
  BY <1>3, <1>7

\* Items of both lists are in one order.
SameOrder(l, m) == \A x, y : ~(Before(l, x, y) /\ Before(m, y, x))

\* Nothing new comes before an old item.
NewLast(l, m) == \A x, y : Before(m, y, x) /\ In(x, l) => In(y, l)

\* One list begins with the other.
Extends(l, m) == Len(l) <= Len(m) /\ \A k \in 1..Len(l) : m[k] = l[k]

LEMMA KeptSameOrder ==
  ASSUME NEW S, NEW list \in Seq(S), Distinct(list), NEW gone
  PROVE  SameOrder(list, Without(list, gone))
BY KeptOrder, OneWay DEF SameOrder, Without

LEMMA ExtendsOrder ==
  ASSUME NEW S, NEW l \in Seq(S), NEW m \in Seq(S), Distinct(m), Extends(l, m)
  PROVE  SameOrder(l, m) /\ NewLast(l, m) /\ Items(l) \subseteq Items(m)
<1>1. Len(l) \in Nat /\ Len(m) \in Nat
  BY LenProperties
<1>2. 1..Len(l) \subseteq 1..Len(m) /\ \A k \in 1..Len(l) : m[k] = l[k]
  BY <1>1 DEF Extends
<1>3. ASSUME NEW x, NEW y, Before(l, x, y) PROVE ~Before(m, y, x)
  <2>1. Before(m, x, y)
    BY <1>2, <1>3 DEF Before
  <2> QED
    BY <2>1, OneWay
<1>4. ASSUME NEW x, NEW y, Before(m, y, x), In(x, l) PROVE In(y, l)
  <2>1. PICK i \in 1..Len(m), j \in 1..Len(m) : i < j /\ m[i] = y /\ m[j] = x
    BY <1>4 DEF Before
  <2>2. PICK k \in 1..Len(l) : l[k] = x
    BY <1>4 DEF In
  <2>3. k = j
    BY <1>2, <2>1, <2>2 DEF Distinct
  <2>4. i \in 1..Len(l)
    BY <1>1, <2>1, <2>3
  <2> QED
    BY <1>2, <2>1, <2>4 DEF In
<1>5. \A x : In(x, l) => In(x, m)
  BY <1>2 DEF In
<1>6. Items(l) \subseteq Items(m)
  BY <1>5, ItemsIn
<1> QED
  BY <1>3, <1>4, <1>6 DEF SameOrder, NewLast

LEMMA ExtendsTransitive ==
  ASSUME NEW S, NEW l \in Seq(S), NEW m \in Seq(S), NEW n \in Seq(S), Extends(l, m), Extends(m, n)
  PROVE  Extends(l, n)
<1>1. Len(l) \in Nat /\ Len(m) \in Nat /\ Len(n) \in Nat
  BY LenProperties
<1> QED
  BY <1>1 DEF Extends

LEMMA JoinedExtends ==
  ASSUME NEW S, NEW l \in Seq(S), NEW m \in Seq(S), NEW n \in Seq(S)
  PROVE  Extends(l, l) /\ Extends(l, l \o m) /\ (Extends(m, n) => Extends(l \o m, l \o n))
<1> DEFINE a == Len(l)
           b == Len(m)
           d == Len(n)
           u == l \o m
           v == l \o n
<1>1. /\ a \in Nat /\ b \in Nat /\ d \in Nat /\ Len(u) = a + b /\ Len(v) = a + d
      /\ \A i \in 1..(a + b) : u[i] = IF i <= a THEN l[i] ELSE m[i - a]
      /\ \A i \in 1..(a + d) : v[i] = IF i <= a THEN l[i] ELSE n[i - a]
  BY ConcatProperties, LenProperties
<1> HIDE DEF u, v
<1>2. Extends(l, l)
  BY <1>1 DEF Extends
<1>3. Extends(l, u)
  BY <1>1 DEF Extends
<1>4. ASSUME Extends(m, n) PROVE Extends(u, v)
  <2>1. b <= d /\ \A k \in 1..b : n[k] = m[k]
    BY <1>4 DEF Extends
  <2> HIDE DEF a, b, d
  <2>2. ASSUME NEW i \in 1..(a + b) PROVE v[i] = u[i]
    <3>1. i \in 1..(a + d)
      BY <1>1, <2>1
    <3>2. ~(i <= a) => i - a \in 1..b
      BY <1>1
    <3> QED
      BY <1>1, <2>1, <3>1, <3>2
  <2> QED
    BY <1>1, <2>1, <2>2 DEF Extends
<1> QED
  BY <1>2, <1>3, <1>4 DEF u, v

-----------------------------------------------------------------------------
(* Lists of rising numbers. *)

Rising(list) == \A i, j \in 1..Len(list) : i < j => list[i] < list[j]

LEMMA RisingOrder ==
  ASSUME NEW list \in Seq(Nat), Rising(list)
  PROVE  Distinct(list) /\ \A x, y : Before(list, x, y) => x \in Nat /\ y \in Nat /\ x < y
<1>1. Len(list) \in Nat /\ \A i \in 1..Len(list) : list[i] \in Nat
  BY LenProperties, ElementOfSeq
<1>2. ASSUME NEW i \in 1..Len(list), NEW j \in 1..Len(list), list[i] = list[j] PROVE i = j
  <2>1. i < j \/ j < i \/ i = j
    BY <1>1
  <2> QED
    BY <1>1, <1>2, <2>1 DEF Rising
<1> QED
  BY <1>1, <1>2 DEF Rising, Distinct, Before

LEMMA RisingSameOrder ==
  ASSUME NEW l \in Seq(Nat), NEW m \in Seq(Nat), Rising(l), Rising(m)
  PROVE  SameOrder(l, m)
<1>1. ASSUME NEW x, NEW y, Before(l, x, y), Before(m, y, x) PROVE FALSE
  <2>1. x \in Nat /\ y \in Nat /\ x < y /\ y < x
    BY <1>1, RisingOrder
  <2> QED
    BY <2>1
<1> QED
  BY <1>1 DEF SameOrder

\* A rising list with greater numbers added is the old list with more at its
\* end: by induction, position by position.
LEMMA RisingExtends ==
  ASSUME NEW l \in Seq(Nat), NEW m \in Seq(Nat), Rising(l), Rising(m),
         \A x : In(x, l) => In(x, m),
         \A x, y : In(x, m) /\ ~In(x, l) /\ In(y, l) => y < x
  PROVE  Extends(l, m)
<1> DEFINE a == Len(l)
           b == Len(m)
           Same(k) == k \in 1..b /\ m[k] = l[k]
           Bad == {k \in 1..a : ~Same(k)}
<1>1. /\ a \in Nat /\ b \in Nat
      /\ \A k \in 1..a : l[k] \in Nat
      /\ \A k \in 1..b : m[k] \in Nat
  BY LenProperties, ElementOfSeq
<1>2. /\ \A i, j \in 1..a : i < j => l[i] < l[j]
      /\ \A i, j \in 1..b : i < j => m[i] < m[j]
  BY DEF Rising
<1>3. /\ \A k \in 1..a : \E j \in 1..b : m[j] = l[k]
      /\ \A j \in 1..b : (\E i \in 1..a : l[i] = m[j]) \/ \A k \in 1..a : l[k] < m[j]
  BY DEF In
<1> HIDE DEF a, b
<1>4. ASSUME NEW k \in 1..a, \A i \in 1..a : i < k => Same(i) PROVE Same(k)
  <2>1. PICK j \in 1..b : m[j] = l[k]
    BY <1>3
  <2>2. ~(j < k)
    <3> SUFFICES ASSUME j < k PROVE FALSE
      OBVIOUS
    <3>1. j \in 1..a
      BY <1>1
    <3>2. m[j] = l[j] /\ l[j] < l[k] /\ l[j] \in Nat /\ l[k] \in Nat
      BY <1>1, <1>2, <1>4, <3>1
    <3> QED
      BY <2>1, <3>2
  <2>3. k \in 1..b /\ m[k] \in Nat /\ m[j] \in Nat /\ l[k] \in Nat
    BY <1>1, <2>2
  <2>4. m[k] <= l[k]
    <3>1. k = j \/ k < j
      BY <1>1, <2>2
    <3> QED
      BY <1>2, <2>1, <2>3, <3>1
  <2>5. l[k] <= m[k]
    <3>1. CASE \A i \in 1..a : l[i] < m[k]
      BY <2>3, <3>1
    <3>2. ASSUME NEW i \in 1..a, l[i] = m[k] PROVE l[k] <= m[k]
      <4>1. CASE i < k
        <5>1. m[i] = l[i] /\ i \in 1..b
          BY <1>4, <4>1
        <5>2. m[i] < m[k]
          BY <1>2, <2>3, <4>1, <5>1
        <5> QED
          BY <2>3, <3>2, <5>1, <5>2
      <4>2. CASE ~(i < k)
        <5>1. i = k \/ k < i
          BY <1>1, <4>2
        <5> QED
          BY <1>1, <1>2, <2>3, <3>2, <5>1
      <4> QED
        BY <4>1, <4>2
    <3> QED
      BY <1>3, <2>3, <3>1, <3>2
  <2> QED
    BY <2>3, <2>4, <2>5
<1>5. Bad = {}
  <2> SUFFICES ASSUME Bad # {} PROVE FALSE
    OBVIOUS
  <2> HIDE DEF Same
  <2>1. Bad \subseteq Nat
    OBVIOUS
  <2>2. PICK k \in Bad : \A j \in Bad : k <= j
    BY <2>1, LeastNatural
  <2>3. k \in 1..a /\ ~Same(k)
    OBVIOUS
  <2>4. \A i \in 1..a : i < k => Same(i)
    BY <2>2
  <2> QED
    BY <1>4, <2>3, <2>4
<1>6. \A k \in 1..a : k \in 1..b /\ m[k] = l[k]
  BY <1>5
<1>7. a <= b
  BY <1>1, <1>6
<1> QED
  BY <1>6, <1>7 DEF Extends, a, b

LEMMA RisingEqual ==
  ASSUME NEW l \in Seq(Nat), NEW m \in Seq(Nat), Rising(l), Rising(m),
         \A x : In(x, l) <=> In(x, m)
  PROVE  l = m
<1>1. Extends(l, m)
  BY RisingExtends
<1>2. Extends(m, l)
  BY RisingExtends
<1>3. Len(l) \in Nat /\ Len(m) \in Nat
  BY LenProperties
<1> QED
  BY <1>1, <1>2, <1>3, SeqEqual DEF Extends

LEMMA KeptRising ==
  ASSUME NEW list \in Seq(Nat), Rising(list), NEW keep
  PROVE  /\ Rising(Kept(list, keep))
         /\ (\A x : In(x, list) => x \in keep) => Kept(list, keep) = list
<1> DEFINE kept == Kept(list, keep)
<1>1. kept \in Seq(Nat) /\ \A x : In(x, kept) <=> (In(x, list) /\ x \in keep)
  BY KeptItems
<1>2. Rising(kept)
  <2>1. ASSUME NEW i \in 1..Len(kept), NEW j \in 1..Len(kept), i < j PROVE kept[i] < kept[j]
    <3>1. Before(kept, kept[i], kept[j])
      BY <2>1 DEF Before
    <3>2. Before(list, kept[i], kept[j])
      BY <3>1, KeptOrder
    <3> QED
      BY <3>2, RisingOrder
  <2> QED
    BY <2>1 DEF Rising
<1> HIDE DEF kept
<1>3. ASSUME \A x : In(x, list) => x \in keep PROVE kept = list
  <2>1. \A x : In(x, kept) <=> In(x, list)
    BY <1>1, <1>3
  <2> QED
    BY <1>1, <1>2, <2>1, RisingEqual
<1> QED
  BY <1>2, <1>3 DEF kept

\* The numbers that follow a, n of them or none.
Following(a, n) == [k \in 1..n |-> a + k]

LEMMA FollowingRises ==
  ASSUME NEW a \in Nat, NEW n \in Int
  PROVE  /\ Following(a, n) \in Seq(Nat) /\ Rising(Following(a, n))
         /\ Len(Following(a, n)) = IF n >= 0 THEN n ELSE 0
         /\ \A k \in 1..n : Following(a, n)[k] = a + k
         /\ \A x : In(x, Following(a, n)) <=> x \in (a + 1)..(a + n)
<1> DEFINE l == Following(a, n)
           h == IF n >= 0 THEN n ELSE 0
<1>1. h \in Nat /\ 1..n = 1..h /\ (a + 1)..(a + n) = (a + 1)..(a + h)
  OBVIOUS
<1>2. l = [k \in 1..h |-> a + k]
  BY <1>1 DEF Following
<1> HIDE DEF l, h
<1>3. l \in [1..h -> Nat]
  BY <1>1, <1>2
<1>4. l \in Seq(Nat)
  BY <1>1, <1>3, IsASeq
<1>5. Len(l) = h /\ \A k \in 1..h : l[k] = a + k
  BY <1>1, <1>2, <1>3, <1>4, LenProperties
<1>6. Rising(l)
  BY <1>1, <1>5 DEF Rising
<1>7. ASSUME NEW x PROVE In(x, l) <=> x \in (a + 1)..(a + h)
  <2>1. ASSUME x \in (a + 1)..(a + h) PROVE x - a \in 1..h /\ l[x - a] = x
    BY <1>1, <1>5, <2>1
  <2> QED
    BY <1>1, <1>5, <2>1 DEF In
<1> QED
  BY <1>1, <1>4, <1>5, <1>6, <1>7 DEF l, h

LEMMA AllNumbers ==
  ASSUME NEW n \in Nat
  PROVE  /\ Following(0, n) \in Seq(Nat) /\ Rising(Following(0, n))
         /\ Len(Following(0, n)) = n
         /\ \A k \in 1..n : Following(0, n)[k] = k
         /\ \A x : In(x, Following(0, n)) <=> x \in 1..n
<1> DEFINE l == Following(0, n)
<1>1. n \in Int /\ 0 \in Nat
  OBVIOUS
<1>2. /\ l \in Seq(Nat) /\ Rising(l)
      /\ Len(l) = IF n >= 0 THEN n ELSE 0
      /\ \A k \in 1..n : l[k] = 0 + k
      /\ \A x : In(x, l) <=> x \in (0 + 1)..(0 + n)
  BY <1>1, FollowingRises
<1> HIDE DEF l
<1>3. (0 + 1)..(0 + n) = 1..n
  OBVIOUS
<1> QED
  BY <1>2, <1>3 DEF l

-----------------------------------------------------------------------------
(* Slices. *)

\* How much a list of n holds from position offset on, up to limit.
SliceLength(n, offset, limit) == IF offset >= n THEN 0 ELSE Least(limit, n - offset)

Slice(list, offset, limit) == SubSeq(list, offset + 1, Least(offset + limit, Len(list)))

\* The same, item by item.
IsSlice(reply, list, offset, limit) ==
    /\ Len(reply) = SliceLength(Len(list), offset, limit)
    /\ \A i \in 1..Len(reply) : reply[i] = list[offset + i]

\* The subsequence the client is promised is a slice, and there is no other.
LEMMA SliceUnique ==
  ASSUME NEW S, NEW list \in Seq(S), NEW offset \in Nat, NEW limit \in Nat
  PROVE  /\ Slice(list, offset, limit) \in Seq(S)
         /\ IsSlice(Slice(list, offset, limit), list, offset, limit)
         /\ \A reply \in Seq(S) :
               IsSlice(reply, list, offset, limit) => reply = Slice(list, offset, limit)
<1> DEFINE n == Len(list)
           a == offset + 1
           b == Least(offset + limit, n)
           sub == SubSeq(list, a, b)
           l == SliceLength(n, offset, limit)
<1>1. n \in Nat
  BY LenProperties
<1>2. /\ a \in Int /\ b \in Int /\ a..b \subseteq 1..n
      /\ l = IF a <= b THEN b - a + 1 ELSE 0
      /\ \A i \in 1..l : i \in 1..(b - a + 1) /\ offset + i = a + i - 1
  <2>1. l = IF offset >= n THEN 0 ELSE IF limit <= n - offset THEN limit ELSE n - offset
    BY DEF SliceLength, Least
  <2>2. b = IF offset + limit <= n THEN offset + limit ELSE n
    BY DEF Least
  <2> HIDE DEF n, b, l
  <2>3. /\ a \in Int /\ b \in Int /\ a..b \subseteq 1..n
        /\ l = IF a <= b THEN b - a + 1 ELSE 0
    BY <1>1, <2>1, <2>2
  <2> QED
    BY <1>1, <2>3
<1>3. a \in Int /\ b \in Int /\ \A i \in a..b : list[i] \in S
  BY <1>1, <1>2, ElementOfSeq
<1> HIDE DEF n, a, b, l
<1>4. /\ sub \in Seq(S)
      /\ Len(sub) = IF a <= b THEN b - a + 1 ELSE 0
      /\ \A i \in 1..(b - a + 1) : sub[i] = list[a + i - 1]
  BY <1>3, SubSeqProperties
<1> HIDE DEF sub
<1>5. Len(sub) = l /\ \A i \in 1..l : sub[i] = list[offset + i]
  BY <1>2, <1>4
<1>6. sub = Slice(list, offset, limit)
  BY DEF sub, a, b, n, Slice
<1>7. ASSUME NEW reply \in Seq(S), IsSlice(reply, list, offset, limit) PROVE reply = sub
  <2>1. Len(reply) = Len(sub) /\ \A i \in 1..Len(reply) : reply[i] = sub[i]
    BY <1>5, <1>7 DEF IsSlice, l, n
  <2> QED
    BY <1>4, <2>1, SeqEqual
<1>8. IsSlice(sub, list, offset, limit)
  BY <1>5 DEF IsSlice, l, n
<1> QED
  BY <1>4, <1>6, <1>7, <1>8

LEMMA SliceRises ==
  ASSUME NEW list \in Seq(Nat), Rising(list), NEW offset \in Nat, NEW limit \in Nat
  PROVE  /\ Slice(list, offset, limit) \in Seq(Nat) /\ Rising(Slice(list, offset, limit))
         /\ \A x : In(x, Slice(list, offset, limit)) => In(x, list)
<1> DEFINE reply == Slice(list, offset, limit)
           r == Len(reply)
           n == Len(list)
<1>1. reply \in Seq(Nat) /\ IsSlice(reply, list, offset, limit)
  BY SliceUnique
<1> HIDE DEF reply
<1>2. n \in Nat /\ r = SliceLength(n, offset, limit) /\ \A i \in 1..r : reply[i] = list[offset + i]
  BY <1>1, LenProperties DEF IsSlice
<1> HIDE DEF r, n
<1>3. r \in Nat /\ \A i \in 1..r : offset + i \in 1..n
  BY <1>2 DEF SliceLength, Least
<1>4. \A i, j \in 1..r : i < j => reply[i] < reply[j]
  <2> SUFFICES ASSUME NEW i \in 1..r, NEW j \in 1..r, i < j PROVE reply[i] < reply[j]
    OBVIOUS
  <2>0. offset + i < offset + j
    BY <1>3
  <2>1. offset + i \in 1..n /\ offset + j \in 1..n /\ offset + i < offset + j
    BY <1>3, <2>0
  <2>2. list[offset + i] < list[offset + j]
    BY <2>1 DEF Rising, n
  <2> QED
    BY <1>2, <2>2
<1>5. \A x : In(x, reply) => In(x, list)
  BY <1>2, <1>3 DEF In, r, n
<1> QED
  BY <1>1, <1>4, <1>5 DEF Rising, r, reply

-----------------------------------------------------------------------------
(* Counting. *)

LEMMA NoMoreThan ==
  ASSUME NEW A, NEW B, NEW C, IsFiniteSet(B), IsFiniteSet(C), A \subseteq B \union C
  PROVE  /\ IsFiniteSet(A) /\ Cardinality(A) \in Nat
         /\ Cardinality(B) \in Nat /\ Cardinality(C) \in Nat
         /\ Cardinality(A) <= Cardinality(B) + Cardinality(C)
<1>1. /\ IsFiniteSet(B \union C) /\ IsFiniteSet(B \intersect C)
      /\ Cardinality(B \union C) = Cardinality(B) + Cardinality(C) - Cardinality(B \intersect C)
  BY FS_Union, FS_Intersection
<1>2. IsFiniteSet(A) /\ Cardinality(A) <= Cardinality(B \union C)
  BY <1>1, FS_Subset
<1>3. /\ Cardinality(A) \in Nat /\ Cardinality(B) \in Nat /\ Cardinality(C) \in Nat
      /\ Cardinality(B \intersect C) \in Nat
  BY <1>1, <1>2, FS_CardinalityType
<1> QED
  BY <1>1, <1>2, <1>3

\* The items of a list from one position to another.
Stretch(list, a, b) == First(list, b) \ First(list, a)

LEMMA StretchSize ==
  ASSUME NEW S, NEW list \in Seq(S), Distinct(list),
         NEW a \in 0..Len(list), NEW b \in 0..Len(list), a <= b
  PROVE  IsFiniteSet(Stretch(list, a, b)) /\ Cardinality(Stretch(list, a, b)) = b - a
<1>1. Len(list) \in Nat
  BY LenProperties
<1>2. First(list, a) \subseteq First(list, b)
  BY <1>1 DEF First
<1>3. First(list, b) \intersect First(list, a) = First(list, a)
  BY <1>2
<1>4. IsFiniteSet(First(list, b)) /\ Cardinality(First(list, b)) = b /\ Cardinality(First(list, a)) = a
  BY FirstSize
<1>5. /\ IsFiniteSet(Stretch(list, a, b))
      /\ Cardinality(Stretch(list, a, b)) = Cardinality(First(list, b)) - Cardinality(First(list, a))
  <2> DEFINE A == First(list, a)
             B == First(list, b)
  <2>1. IsFiniteSet(B) /\ B \intersect A = A /\ Stretch(list, a, b) = B \ A
    BY <1>3, <1>4 DEF Stretch
  <2> HIDE DEF A, B
  <2>2. IsFiniteSet(B \ A) /\ Cardinality(B \ A) = Cardinality(B) - Cardinality(B \intersect A)
    BY <2>1, FS_Difference
  <2> QED
    BY <2>1, <2>2 DEF A, B
<1> QED
  BY <1>4, <1>5

\* Wherever a list is cut in two, the list it changes into can be cut so that
\* nothing that is in both changes sides; the cut moves back by no more than
\* left the list and on by no more than entered it.
LEMMA CutMoves ==
  ASSUME NEW S, NEW l \in Seq(S), NEW m \in Seq(S), Distinct(l), Distinct(m), SameOrder(l, m),
         NEW c \in 0..Len(l)
  PROVE  \E d \in 0..Len(m) :
            /\ \A x : In(x, l) /\ In(x, m) => (x \in First(l, c) <=> x \in First(m, d))
            /\ First(l, c) \subseteq First(m, d) \union (Items(l) \ Items(m))
            /\ First(m, d) \subseteq First(l, c) \union (Items(m) \ Items(l))
            /\ NewLast(l, m) => First(m, d) \subseteq First(l, c)
<1> DEFINE T == {k \in 1..Len(m) : m[k] \in First(l, c)}
           U == {d \in Nat : d <= Len(m) /\ \A k \in T : k <= d}
<1>1. Len(l) \in Nat /\ Len(m) \in Nat /\ c \in Nat /\ c <= Len(l)
  <2>1. Len(l) \in Nat /\ Len(m) \in Nat
    BY LenProperties
  <2> QED
    BY <2>1
<1>2. PICK d \in U : \A e \in U : d <= e
  <2>1. Len(m) \in U
    BY <1>1
  <2> HIDE DEF U
  <2>2. U \subseteq Nat
    BY DEF U
  <2> QED
    BY <2>1, <2>2, LeastNatural
<1>3. d \in 0..Len(m) /\ d \in Nat /\ \A k \in T : k <= d
  BY <1>1, <1>2
<1>4. d # 0 => d \in T
  <2> SUFFICES ASSUME d # 0, d \notin T PROVE FALSE
    OBVIOUS
  <2>1. \A k \in T : k <= d - 1
    BY <1>1, <1>3
  <2>2. d - 1 \in U
    BY <1>1, <1>3, <2>1
  <2> QED
    BY <1>2, <1>3, <2>2
<1> HIDE DEF U
<1>5. ASSUME NEW x, In(x, m), x \in First(l, c) PROVE x \in First(m, d)
  <2>1. PICK k \in 1..Len(m) : m[k] = x
    BY <1>5 DEF In
  <2>2. k \in T
    BY <1>5, <2>1
  <2>3. k \in 1..d
    BY <1>1, <1>3, <2>2
  <2> QED
    BY <2>1, <2>3 DEF First
<1>6. ASSUME NEW x, x \in First(m, d)
      PROVE  /\ In(x, l) => x \in First(l, c)
             /\ In(x, m) /\ (NewLast(l, m) => In(x, l))
  <2>1. PICK k \in 1..d : m[k] = x
    BY <1>6 DEF First
  <2>2. d \in T /\ d \in 1..Len(m) /\ k \in 1..Len(m) /\ (k = d \/ k < d)
    BY <1>1, <1>3, <1>4, <2>1
  <2>3. PICK j \in 1..c : l[j] = m[d]
    BY <2>2 DEF First
  <2>4. j \in 1..Len(l) /\ In(m[d], l)
    BY <1>1, <2>3 DEF In
  <2>5. In(x, m)
    BY <2>1, <2>2 DEF In
  <2>6. CASE k = d
    BY <2>1, <2>3, <2>4, <2>5, <2>6 DEF First
  <2>7. CASE k < d
    <3>1. Before(m, x, m[d])
      BY <2>1, <2>2, <2>7 DEF Before
    <3>2. NewLast(l, m) => In(x, l)
      BY <2>4, <3>1 DEF NewLast
    <3>3. ASSUME In(x, l) PROVE x \in First(l, c)
      <4>1. Before(l, x, m[d])
        <5>1. x # m[d] /\ ~Before(l, m[d], x)
          BY <3>1, OneWay DEF SameOrder
        <5> QED
          BY <2>4, <3>3, <5>1, EitherBefore
      <4>2. PICK i \in 1..Len(l), h \in 1..Len(l) : i < h /\ l[i] = x /\ l[h] = m[d]
        BY <4>1 DEF Before
      <4>3. h = j
        BY <2>3, <2>4, <4>2 DEF Distinct
      <4>4. i \in 1..c
        BY <1>1, <2>3, <4>2, <4>3
      <4> QED
        BY <4>2, <4>4 DEF First
    <3> QED
      BY <2>5, <3>2, <3>3
  <2> QED
    BY <2>2, <2>6, <2>7
<1>7. \A x \in First(l, c) : In(x, l)
  <2>1. 1..c \subseteq 1..Len(l)
    BY <1>1
  <2> QED
    BY <2>1 DEF First, In
<1>8. /\ \A x : x \in Items(l) <=> In(x, l)
      /\ \A x : x \in Items(m) <=> In(x, m)
  BY ItemsIn
<1> HIDE DEF T
<1>9. /\ \A x : In(x, l) /\ In(x, m) => (x \in First(l, c) <=> x \in First(m, d))
      /\ First(l, c) \subseteq First(m, d) \union (Items(l) \ Items(m))
      /\ First(m, d) \subseteq First(l, c) \union (Items(m) \ Items(l))
      /\ NewLast(l, m) => First(m, d) \subseteq First(l, c)
  BY <1>5, <1>6, <1>7, <1>8
<1> QED
  BY <1>3, <1>9
-----------------------------------------------------------------------------
(* Walks. *)

WalkOf(S) == [seen : Seq(S), replies : Nat, stayed : SUBSET S, left : Nat, entered : Nat,
              done : BOOLEAN]

LEMMA RepeatedItems ==
  ASSUME NEW S, NEW walk \in WalkOf(S)
  PROVE  Repeated(walk) = {x \in walk.stayed : Before(walk.seen, x, x)}
<1> DEFINE seen == walk.seen
           At(x) == {k \in DOMAIN seen : seen[k] = x}
<1>1. Len(seen) \in Nat /\ DOMAIN seen = 1..Len(seen)
  <2>1. seen \in Seq(S)
    BY DEF WalkOf
  <2> QED
    BY <2>1, LenProperties
<1>2. ASSUME NEW x PROVE Cardinality(At(x)) > 1 <=> Before(seen, x, x)
  <2>1. IsFiniteSet(At(x))
    <3>1. IsFiniteSet(1..Len(seen)) /\ At(x) \subseteq 1..Len(seen)
      BY <1>1, FS_Interval
    <3> QED
      BY <3>1, FS_Subset
  <2>2. \A k : k \in At(x) <=> k \in 1..Len(seen) /\ seen[k] = x
    BY <1>1
  <2> HIDE DEF At
  <2>3. Cardinality(At(x)) \in Nat
    BY <2>1, FS_CardinalityType
  <2>4. ASSUME Cardinality(At(x)) > 1 PROVE Before(seen, x, x)
    <3>1. PICK i : i \in At(x)
      BY <2>1, <2>4, FS_EmptySet
    <3>2. PICK j : j \in At(x) \ {i}
      <4>1. /\ IsFiniteSet(At(x) \ {i})
            /\ Cardinality(At(x) \ {i}) = Cardinality(At(x)) - 1
        BY <2>1, <3>1, FS_RemoveElement
      <4>2. Cardinality(At(x) \ {i}) # 0
        BY <2>3, <2>4, <4>1
      <4> QED
        BY <4>1, <4>2, FS_EmptySet
    <3>3. i < j \/ j < i
      BY <1>1, <2>2, <3>1, <3>2
    <3> QED
      BY <2>2, <3>1, <3>2, <3>3 DEF Before
  <2>5. ASSUME Before(seen, x, x) PROVE Cardinality(At(x)) > 1
    <3>1. PICK i \in At(x), j \in At(x) : i < j
      BY <2>2, <2>5 DEF Before
    <3>2. i # j
      BY <1>1, <2>2, <3>1
    <3>3. /\ IsFiniteSet({i}) /\ Cardinality({i}) = 1
          /\ IsFiniteSet({i} \union {j}) /\ Cardinality({i} \union {j}) = 2
      <4>1. IsFiniteSet({i}) /\ Cardinality({i}) = 1 /\ j \notin {i}
        BY <3>2, FS_Singleton
      <4>2. IsFiniteSet({i} \union {j}) /\ Cardinality({i} \union {j}) = Cardinality({i}) + 1
        BY <4>1, FS_AddElement
      <4> QED
        BY <4>1, <4>2
    <3>4. Cardinality({i} \union {j}) <= Cardinality(At(x))
      BY <2>1, <3>1, FS_Subset
    <3> QED
      BY <2>3, <3>3, <3>4
  <2> QED
    BY <2>4, <2>5
<1> QED
  BY <1>2 DEF Repeated

\* What is still owed to a bound: unless the count has reached most, it covers
\* k, and k with d more.
Allows(bound, most, k, d) == bound >= most \/ (k <= bound /\ k + d <= bound)

CountedUpTo(most, b, g) == IF b + g < most THEN b + g ELSE most

LEMMA AllowsAfterChange ==
  ASSUME NEW bound \in Nat, NEW most \in Nat, NEW k \in Nat, NEW d \in Int, NEW g \in Nat,
         Allows(bound, most, k, d), NEW j \in Nat, NEW e \in Int, j <= k, e <= d + g
  PROVE  Allows(CountedUpTo(most, bound, g), most, j, e)
BY DEF Allows, CountedUpTo

LEMMA AllowsLess ==
  ASSUME NEW bound \in Nat, NEW most \in Nat, NEW k \in Nat, NEW d \in Int,
         Allows(bound, most, k, d), NEW j \in Nat, NEW e \in Int,
         j <= k \/ j <= k + d, j + e <= k \/ j + e <= k + d
  PROVE  Allows(bound, most, j, e)
BY DEF Allows

\* A finished walk is covered by the two counts.
Settled(walk) ==
    /\ Cardinality(Missed(walk)) <= walk.left
    /\ Cardinality(Repeated(walk)) <= walk.entered

\* Items that stayed, stand before the cut and were not received.
Skipped(list, walk, c) == {x \in walk.stayed : x \in First(list, c) /\ ~In(x, walk.seen)}

\* An unfinished walk has in effect read the list up to some cut: of what
\* stayed, it received nothing from behind the cut; and the items it skipped
\* before the cut, or received twice, together with the distance between the
\* cut and the position the client will ask for, are covered by the counts.
CutAt(list, walk, c, most) ==
    /\ c \in 0..Len(list)
    /\ \A x \in walk.stayed : In(x, list) /\ (In(x, walk.seen) => x \in First(list, c))
    /\ Allows(walk.left, most, Cardinality(Skipped(list, walk, c)), Len(walk.seen) - c)
    /\ Allows(walk.entered, most, Cardinality(Repeated(walk)), c - Len(walk.seen))

\* The cut never gets ahead of the client: nothing is received twice.
NoneAhead(walk, c) == c <= Len(walk.seen) /\ Repeated(walk) = {}

LEMMA WalkFinite ==
  ASSUME NEW S, IsFiniteSet(S), NEW walk \in WalkOf(S), NEW list, NEW c
  PROVE  /\ Len(walk.seen) \in Nat /\ walk.seen \in Seq(S)
         /\ walk.left \in Nat /\ walk.entered \in Nat /\ walk.stayed \subseteq S
         /\ IsFiniteSet(walk.stayed) /\ Cardinality(walk.stayed) <= Cardinality(S)
         /\ IsFiniteSet(Skipped(list, walk, c)) /\ Cardinality(Skipped(list, walk, c)) \in Nat
         /\ IsFiniteSet(Repeated(walk)) /\ Cardinality(Repeated(walk)) \in Nat
         /\ Cardinality(Repeated(walk)) <= Cardinality(S)
         /\ Cardinality(S) \in Nat
<1>1. /\ walk.seen \in Seq(S) /\ walk.left \in Nat /\ walk.entered \in Nat
      /\ walk.stayed \in SUBSET S
  BY DEF WalkOf
<1>2. Skipped(list, walk, c) \in SUBSET S /\ Repeated(walk) \in SUBSET S
  BY <1>1 DEF Skipped, Repeated
<1>3. \A T \in SUBSET S : /\ IsFiniteSet(T) /\ Cardinality(T) <= Cardinality(S)
                          /\ Cardinality(T) \in Nat
  BY FS_Subset, FS_CardinalityType
<1> QED
  BY <1>1, <1>2, <1>3, LenProperties, FS_CardinalityType

LEMMA NewWalkCut ==
  ASSUME NEW S, IsFiniteSet(S), NEW list \in Seq(S), NEW most \in Nat
  PROVE  /\ NewWalk(list) \in WalkOf(S) /\ ~NewWalk(list).done
         /\ CutAt(list, NewWalk(list), 0, most) /\ NoneAhead(NewWalk(list), 0)
<1> DEFINE walk == NewWalk(list)
<1>1. /\ walk \in WalkOf(S) /\ walk.seen = <<>> /\ walk.stayed = Items(list)
      /\ walk.left = 0 /\ walk.entered = 0 /\ ~walk.done
  <2>1. Items(list) \subseteq S
    BY ItemsIn
  <2> QED
    BY <2>1 DEF NewWalk, WalkOf
<1> HIDE DEF walk
<1>2. Len(walk.seen) = 0 /\ \A x : ~In(x, walk.seen)
  BY <1>1, EmptyList
<1>3. Repeated(walk) = {}
  BY <1>1, <1>2, RepeatedItems, BeforeIn
<1>4. Skipped(list, walk, 0) = {}
  BY DEF Skipped, First
<1>5. 0 \in 0..Len(list) /\ \A x \in walk.stayed : In(x, list)
  BY <1>1, ItemsIn, LenProperties
<1>6. CutAt(list, walk, 0, most)
  <2>1. Cardinality(Skipped(list, walk, 0)) = 0 /\ Cardinality(Repeated(walk)) = 0
    BY <1>3, <1>4, FS_EmptySet
  <2>2. Allows(0, most, 0, 0 - 0)
    BY DEF Allows
  <2> QED
    BY <1>1, <1>2, <1>5, <2>1, <2>2 DEF CutAt
<1> QED
  BY <1>1, <1>2, <1>3, <1>6 DEF NoneAhead, walk

\* So far the counts cover an unfinished walk too.
LEMMA CutSettles ==
  ASSUME NEW S, IsFiniteSet(S), NEW most \in Nat, Cardinality(S) <= most,
         NEW walk \in WalkOf(S), ~walk.done, NEW list, NEW c, CutAt(list, walk, c, most)
  PROVE  Settled(walk)
<1> DEFINE q == Cardinality(Repeated(walk))
           s == Cardinality(S)
<1>1. q \in Nat /\ s \in Nat /\ q <= s /\ walk.left \in Nat /\ walk.entered \in Nat
  BY WalkFinite
<1>2. Allows(walk.entered, most, q, c - Len(walk.seen))
  BY DEF CutAt
<1>3. Cardinality(Missed(walk)) = 0
  BY FS_EmptySet DEF Missed
<1>4. s <= most
  OBVIOUS
<1> HIDE DEF q, s
<1>5. q <= walk.entered
  BY <1>1, <1>2, <1>4 DEF Allows
<1> QED
  BY <1>1, <1>3, <1>5 DEF Settled, q

\* The list changes under a walk, and its cut moves along.
LEMMA CutOvertaken ==
  ASSUME NEW S, IsFiniteSet(S), NEW most \in Nat,
         NEW l \in Seq(S), NEW m \in Seq(S), Distinct(l), Distinct(m), SameOrder(l, m),
         NEW walk \in WalkOf(S), ~walk.done, NEW c, CutAt(l, walk, c, most)
  PROVE  LET after == Overtaken(walk, l, m, most)
         IN  /\ after \in WalkOf(S) /\ ~after.done
             /\ \E d : /\ CutAt(m, after, d, most)
                       /\ NewLast(l, m) /\ NoneAhead(walk, c) => NoneAhead(after, d)
<1> DEFINE after == Overtaken(walk, l, m, most)
           gone == Items(l) \ Items(m)
           new == Items(m) \ Items(l)
           n == Len(walk.seen)
<1>0. c \in 0..Len(l) /\ c \in Nat
  BY DEF CutAt
<1>1. PICK d \in 0..Len(m) :
         /\ \A x : In(x, l) /\ In(x, m) => (x \in First(l, c) <=> x \in First(m, d))
         /\ First(l, c) \subseteq First(m, d) \union gone
         /\ First(m, d) \subseteq First(l, c) \union new
         /\ NewLast(l, m) => First(m, d) \subseteq First(l, c)
  BY <1>0, CutMoves
<1>2. /\ IsFiniteSet(gone) /\ Cardinality(gone) \in Nat
      /\ IsFiniteSet(new) /\ Cardinality(new) \in Nat
  <2>1. Items(l) \subseteq S /\ Items(m) \subseteq S
    BY ItemsIn
  <2>2. gone \in SUBSET S /\ new \in SUBSET S
    BY <2>1
  <2> QED
    BY <2>2, FS_Subset, FS_CardinalityType
<1>3. /\ c <= d + Cardinality(gone) /\ d <= c + Cardinality(new) /\ d \in Nat
      /\ NewLast(l, m) => d <= c
  <2>1. /\ IsFiniteSet(First(l, c)) /\ Cardinality(First(l, c)) = c
        /\ IsFiniteSet(First(m, d)) /\ Cardinality(First(m, d)) = d
    BY <1>0, FirstSize
  <2>2. d \in Nat
    OBVIOUS
  <2>3. NewLast(l, m) => Cardinality(First(m, d)) <= Cardinality(First(l, c))
    BY <1>1, <2>1, FS_Subset
  <2>4. Cardinality(First(l, c)) <= Cardinality(First(m, d)) + Cardinality(gone)
    BY <1>1, <1>2, <2>1, NoMoreThan
  <2>5. Cardinality(First(m, d)) <= Cardinality(First(l, c)) + Cardinality(new)
    BY <1>1, <1>2, <2>1, NoMoreThan
  <2> QED
    BY <2>1, <2>2, <2>3, <2>4, <2>5
<1>4. /\ after \in WalkOf(S) /\ ~after.done /\ after.seen = walk.seen
      /\ after.stayed = walk.stayed \ gone
      /\ after.left = CountedUpTo(most, walk.left, Cardinality(gone))
      /\ after.entered = CountedUpTo(most, walk.entered, Cardinality(new))
  <2>1. after = [walk EXCEPT !.stayed = walk.stayed \ gone,
                             !.left = CountedUpTo(most, walk.left, Cardinality(gone)),
                             !.entered = CountedUpTo(most, walk.entered, Cardinality(new))]
    BY DEF Overtaken, CountedUpTo
  <2>2. \A b \in Nat, g \in Nat : CountedUpTo(most, b, g) \in Nat
    BY DEF CountedUpTo
  <2> HIDE DEF after, gone, new
  <2> QED
    BY <1>2, <2>1, <2>2 DEF WalkOf
<1>5. /\ \A x : x \in Items(l) <=> In(x, l)
      /\ \A x : x \in Items(m) <=> In(x, m)
  BY ItemsIn
<1>6. ASSUME NEW x \in after.stayed
      PROVE  /\ x \in walk.stayed /\ In(x, l) /\ In(x, m)
             /\ In(x, after.seen) => x \in First(m, d)
  <2>1. x \in walk.stayed /\ In(x, l) /\ (In(x, walk.seen) => x \in First(l, c))
    BY <1>4 DEF CutAt
  <2>2. In(x, m)
    BY <1>4, <1>5, <2>1
  <2> QED
    BY <1>1, <1>4, <2>1, <2>2
<1> HIDE DEF after, gone, new
<1>7. Skipped(m, after, d) \subseteq Skipped(l, walk, c)
  BY <1>1, <1>4, <1>6 DEF Skipped
<1>8. Repeated(after) \subseteq Repeated(walk)
  BY <1>4, <1>6 DEF Repeated
<1>9. /\ Cardinality(Skipped(m, after, d)) <= Cardinality(Skipped(l, walk, c))
      /\ Cardinality(Repeated(after)) <= Cardinality(Repeated(walk))
  BY <1>7, <1>8, WalkFinite, FS_Subset
<1>10. n \in Nat /\ walk.left \in Nat /\ walk.entered \in Nat
       /\ Cardinality(Skipped(l, walk, c)) \in Nat /\ Cardinality(Skipped(m, after, d)) \in Nat
       /\ Cardinality(Repeated(walk)) \in Nat /\ Cardinality(Repeated(after)) \in Nat
  BY <1>4, WalkFinite
<1> HIDE DEF n
<1>11. Allows(after.left, most, Cardinality(Skipped(m, after, d)), n - d)
  <2>1. Allows(walk.left, most, Cardinality(Skipped(l, walk, c)), n - c)
    BY DEF CutAt, n
  <2>2. n - c \in Int /\ n - d \in Int /\ n - d <= (n - c) + Cardinality(gone)
    BY <1>0, <1>2, <1>3, <1>10
  <2> DEFINE b == walk.left
             k == Cardinality(Skipped(l, walk, c))
             j == Cardinality(Skipped(m, after, d))
             g == Cardinality(gone)
             e == n - c
             f == n - d
  <2>3. /\ b \in Nat /\ k \in Nat /\ j \in Nat /\ g \in Nat /\ e \in Int /\ f \in Int
        /\ Allows(b, most, k, e) /\ j <= k /\ f <= e + g
    BY <1>2, <1>9, <1>10, <2>1, <2>2
  <2> HIDE DEF b, k, j, g, e, f
  <2>4. Allows(CountedUpTo(most, b, g), most, j, f)
    BY <2>3, AllowsAfterChange
  <2> QED
    BY <1>4, <2>4 DEF b, j, g, f
<1>12. Allows(after.entered, most, Cardinality(Repeated(after)), d - n)
  <2>1. Allows(walk.entered, most, Cardinality(Repeated(walk)), c - n)
    BY DEF CutAt, n
  <2>2. c - n \in Int /\ d - n \in Int /\ d - n <= (c - n) + Cardinality(new)
    BY <1>0, <1>2, <1>3, <1>10
  <2> DEFINE b == walk.entered
             k == Cardinality(Repeated(walk))
             j == Cardinality(Repeated(after))
             g == Cardinality(new)
             e == c - n
             f == d - n
  <2>3. /\ b \in Nat /\ k \in Nat /\ j \in Nat /\ g \in Nat /\ e \in Int /\ f \in Int
        /\ Allows(b, most, k, e) /\ j <= k /\ f <= e + g
    BY <1>2, <1>9, <1>10, <2>1, <2>2
  <2> HIDE DEF b, k, j, g, e, f
  <2>4. Allows(CountedUpTo(most, b, g), most, j, f)
    BY <2>3, AllowsAfterChange
  <2> QED
    BY <1>4, <2>4 DEF b, j, g, f
<1>13. CutAt(m, after, d, most)
  BY <1>4, <1>6, <1>11, <1>12 DEF CutAt, n
<1>14. NewLast(l, m) /\ NoneAhead(walk, c) => NoneAhead(after, d)
  BY <1>0, <1>3, <1>4, <1>8, <1>10 DEF NoneAhead, n
<1> QED
  BY <1>4, <1>13, <1>14 DEF after
\* A reply in terms of positions: what the client gets, and where the walk
\* stands after it.
Replies(reply, S, list, offset, cap) ==
    /\ reply \in Seq(S) /\ Len(reply) \in Nat /\ Distinct(reply)
    /\ \A x : In(x, reply) <=> \E k \in (offset + 1)..(offset + Len(reply)) : list[k] = x
    /\ reply = <<>> => Len(list) <= offset
    /\ reply # <<>> => offset + Len(reply) <= Len(list)
    /\ Len(reply) = cap \/ offset + Len(reply) = Len(list) \/ reply = <<>>

LEMMA ReplyItems ==
  ASSUME NEW S, NEW list \in Seq(S), Distinct(list), NEW offset \in Nat, NEW cap \in Nat \ {0}
  PROVE  Replies(Slice(list, offset, cap), S, list, offset, cap)
<1> DEFINE reply == Slice(list, offset, cap)
           r == Len(reply)
           n == Len(list)
<1>1. reply \in Seq(S) /\ IsSlice(reply, list, offset, cap)
  BY SliceUnique
<1> HIDE DEF reply
<1>2. r \in Nat /\ n \in Nat /\ (reply = <<>> <=> r = 0)
  BY <1>1, LenProperties, EmptySeq
<1>3. r = SliceLength(n, offset, cap) /\ \A i \in 1..r : reply[i] = list[offset + i]
  BY <1>1 DEF IsSlice
<1> HIDE DEF r, n
<1>4. /\ r = 0 => n <= offset
      /\ r # 0 => offset + r <= n
      /\ r = cap \/ offset + r = n \/ r = 0
  BY <1>2, <1>3 DEF SliceLength, Least
<1>5. ASSUME NEW x PROVE In(x, reply) <=> \E k \in (offset + 1)..(offset + r) : list[k] = x
  <2>1. ASSUME NEW i \in 1..r, reply[i] = x
        PROVE  offset + i \in (offset + 1)..(offset + r) /\ list[offset + i] = x
    BY <1>2, <1>3, <2>1
  <2>2. ASSUME NEW k \in (offset + 1)..(offset + r), list[k] = x
        PROVE  k - offset \in 1..r /\ reply[k - offset] = x
    <3>1. k - offset \in 1..r /\ offset + (k - offset) = k
      BY <1>2
    <3> QED
      BY <1>3, <2>2, <3>1
  <2> QED
    BY <2>1, <2>2 DEF In, r
<1>6. Distinct(reply)
  <2>1. ASSUME NEW i \in 1..r, NEW j \in 1..r, reply[i] = reply[j] PROVE i = j
    <3>1. offset + i \in 1..n /\ offset + j \in 1..n
      BY <1>2, <1>4
    <3>2. list[offset + i] = list[offset + j]
      BY <1>3, <2>1
    <3>3. offset + i = offset + j
      BY <3>1, <3>2 DEF Distinct, n
    <3> QED
      BY <1>2, <3>3
  <2> QED
    BY <2>1 DEF Distinct, r
<1> QED
  BY <1>1, <1>2, <1>4, <1>5, <1>6 DEF r, n, reply, Replies

\* What the walk has received after one more reply.
Adds(after, walk, reply, S) ==
    /\ after \in WalkOf(S) /\ after.seen \in Seq(S) /\ after.stayed = walk.stayed
    /\ after.left = walk.left /\ after.entered = walk.entered
    /\ after.replies = walk.replies + 1
    /\ after.done <=> reply = <<>>
    /\ Len(after.seen) = Len(walk.seen) + Len(reply)
    /\ \A x : In(x, after.seen) <=> In(x, walk.seen) \/ In(x, reply)
    /\ \A x \in Repeated(after) :
          x \in Repeated(walk) \/ (x \in walk.stayed /\ In(x, walk.seen) /\ In(x, reply))

LEMMA SeenAfterReply ==
  ASSUME NEW S, NEW walk \in WalkOf(S), NEW reply \in Seq(S), Distinct(reply)
  PROVE  Adds(Received(walk, reply), walk, reply, S)
<1> DEFINE after == Received(walk, reply)
<1>1. /\ walk.seen \in Seq(S) /\ walk.replies \in Nat
  BY DEF WalkOf
<1>2. /\ walk.seen \o reply \in Seq(S)
      /\ Len(walk.seen \o reply) = Len(walk.seen) + Len(reply)
      /\ \A x : In(x, walk.seen \o reply) <=> (In(x, walk.seen) \/ In(x, reply))
  BY <1>1, JoinedList
<1>3. /\ after \in WalkOf(S) /\ after.seen = walk.seen \o reply /\ after.stayed = walk.stayed
      /\ after.left = walk.left /\ after.entered = walk.entered
      /\ after.replies = walk.replies + 1
      /\ after.done <=> reply = <<>>
  <2>1. after = [walk EXCEPT !.seen = walk.seen \o reply, !.replies = walk.replies + 1,
                             !.done = (reply = <<>>)]
    BY DEF Received
  <2> DEFINE s == walk.seen \o reply
             w == walk.replies + 1
             e == reply = <<>>
  <2>2. /\ after = [walk EXCEPT !.seen = s, !.replies = w, !.done = e]
        /\ s \in Seq(S) /\ w \in Nat /\ e \in BOOLEAN
    BY <1>1, <1>2, <2>1
  <2> HIDE DEF after, s, w, e
  <2>3. /\ after \in WalkOf(S) /\ after.seen = s /\ after.stayed = walk.stayed
        /\ after.left = walk.left /\ after.entered = walk.entered
        /\ after.replies = w /\ after.done = e
    BY <2>2 DEF WalkOf
  <2> QED
    BY <2>3 DEF s, w, e
<1> HIDE DEF after
<1>4. ASSUME NEW x \in Repeated(after), x \notin Repeated(walk)
      PROVE  x \in walk.stayed /\ In(x, walk.seen) /\ In(x, reply)
  <2>1. x \in walk.stayed /\ Before(walk.seen \o reply, x, x) /\ ~Before(walk.seen, x, x)
    BY <1>3, <1>4, RepeatedItems
  <2>2. ~Before(reply, x, x)
    BY OneWay
  <2> QED
    BY <1>1, <2>1, <2>2, JoinedBefore
<1> QED
  BY <1>2, <1>3, <1>4 DEF after, Adds

\* A reply, which follows what the client has, moves the cut forward to the
\* end of the reply, if it is not further on already; the last reply settles
\* the walk.
LEMMA CutReceived ==
  ASSUME NEW S, IsFiniteSet(S), NEW most \in Nat, Cardinality(S) <= most,
         NEW list \in Seq(S), Distinct(list),
         NEW walk \in WalkOf(S), NEW c, CutAt(list, walk, c, most),
         NEW cap \in Nat \ {0}, NEW reply, reply = Slice(list, Len(walk.seen), cap)
  PROVE  LET after == Received(walk, reply)
         IN  /\ after \in WalkOf(S)
             /\ NoneAhead(walk, c) => Repeated(after) = {}
             /\ after.done => Settled(after)
             /\ ~after.done => \E d : /\ CutAt(list, after, d, most)
                                      /\ NoneAhead(walk, c) => NoneAhead(after, d)
<1> DEFINE after == Received(walk, reply)
           n == Len(walk.seen)
           r == Len(reply)
           L == Len(list)
           U == Skipped(list, walk, c)
           R == Repeated(walk)
           twice == {x \in walk.stayed : In(x, walk.seen) /\ In(x, reply)}
<1>1. /\ n \in Nat /\ walk.left \in Nat /\ walk.entered \in Nat
      /\ IsFiniteSet(walk.stayed) /\ Cardinality(walk.stayed) <= Cardinality(S)
      /\ IsFiniteSet(U) /\ Cardinality(U) \in Nat
      /\ IsFiniteSet(R) /\ Cardinality(R) \in Nat /\ Cardinality(S) \in Nat
  BY WalkFinite
<1>2. /\ reply \in Seq(S) /\ r \in Nat /\ Distinct(reply)
      /\ \A x : In(x, reply) <=> \E k \in (n + 1)..(n + r) : list[k] = x
      /\ reply = <<>> => L <= n
      /\ reply # <<>> => n + r <= L
  <2>1. Replies(reply, S, list, n, cap)
    BY <1>1, ReplyItems
  <2> QED
    BY <2>1 DEF Replies
<1>3. /\ after \in WalkOf(S) /\ after.stayed = walk.stayed
      /\ after.left = walk.left /\ after.entered = walk.entered
      /\ after.done <=> reply = <<>>
      /\ Len(after.seen) = n + r
      /\ \A x : In(x, after.seen) <=> In(x, walk.seen) \/ In(x, reply)
      /\ Repeated(after) \subseteq R \union twice
  <2> HIDE DEF n, r, L, U, R, twice
  <2>1. Adds(after, walk, reply, S)
    BY <1>2, SeenAfterReply
  <2> HIDE DEF after
  <2> QED
    BY <2>1 DEF n, r, R, twice, Adds
<1>4. /\ c \in 0..L /\ c \in Nat /\ L \in Nat
      /\ \A x \in walk.stayed : In(x, list) /\ (In(x, walk.seen) => x \in First(list, c))
      /\ Allows(walk.left, most, Cardinality(U), n - c)
      /\ Allows(walk.entered, most, Cardinality(R), c - n)
  <2>1. L \in Nat
    BY LenProperties
  <2> QED
    BY <2>1 DEF CutAt
<1> HIDE DEF after, n, r, L, U, R
\* An item received twice stands in the reply and before the cut.
<1>5. ASSUME NEW x \in twice PROVE \E k \in (n + 1)..(n + r) : k <= c /\ k \in 1..L /\ list[k] = x
  <2>1. x \in walk.stayed /\ In(x, walk.seen) /\ In(x, reply)
    OBVIOUS
  <2>2. PICK k \in (n + 1)..(n + r) : list[k] = x
    BY <1>2, <2>1
  <2>3. x \in First(list, c)
    BY <1>4, <2>1
  <2>4. PICK j \in 1..c : list[j] = x
    BY <2>3 DEF First
  <2>5. reply # <<>>
    BY <2>1, EmptyList
  <2>6. k \in 1..L /\ j \in 1..L
    BY <1>1, <1>2, <1>4, <2>5
  <2>7. k = j
    BY <2>2, <2>4, <2>6 DEF Distinct, L
  <2> QED
    BY <1>4, <2>2, <2>4, <2>6, <2>7
<1>6. c <= n => twice = {}
  <2> SUFFICES ASSUME c <= n, NEW x \in twice PROVE FALSE
    OBVIOUS
  <2>1. PICK k \in (n + 1)..(n + r) : k <= c
    BY <1>5
  <2> QED
    BY <1>1, <1>2, <1>4, <2>1
<1>7. NoneAhead(walk, c) => Repeated(after) = {}
  BY <1>3, <1>6 DEF NoneAhead, n, R
<1>8. IsFiniteSet(Repeated(after)) /\ Cardinality(Repeated(after)) \in Nat
      /\ Cardinality(Repeated(after)) <= Cardinality(S)
  BY <1>3, WalkFinite
<1>9. ASSUME after.done PROVE Settled(after)
  <2>1. reply = <<>> /\ L <= n /\ \A x : ~In(x, reply)
    BY <1>2, <1>3, <1>9, EmptyList
  <2>2. Repeated(after) \subseteq R
    BY <1>3, <2>1
  <2>3. Cardinality(Repeated(after)) <= Cardinality(R)
    BY <1>1, <2>2, FS_Subset
  <2>4. Cardinality(Repeated(after)) <= walk.entered
    BY <1>1, <1>4, <1>8, <2>3 DEF Allows
  <2>5. Missed(after) \subseteq U \union Stretch(list, c, L) /\ Missed(after) \subseteq walk.stayed
    <3>1. ASSUME NEW x \in Missed(after) PROVE x \in walk.stayed /\ ~In(x, walk.seen)
      <4>1. x \in walk.stayed /\ x \notin Items(after.seen)
        BY <1>3, <1>9 DEF Missed
      <4>2. after.seen \in Seq(S)
        BY <1>3 DEF WalkOf
      <4> QED
        BY <1>3, <4>1, <4>2, ItemsIn
    <3>2. \A x : In(x, list) => x \in First(list, L)
      BY DEF In, First, L
    <3> QED
      BY <1>4, <3>1, <3>2 DEF U, Skipped, Stretch
  <2>6. IsFiniteSet(Stretch(list, c, L)) /\ Cardinality(Stretch(list, c, L)) = L - c
    <3>1. L \in 0..Len(list) /\ c \in 0..Len(list) /\ c <= L
      BY <1>4 DEF L
    <3> QED
      BY <3>1, StretchSize
  <2>7. /\ Cardinality(Missed(after)) \in Nat
        /\ Cardinality(Missed(after)) <= Cardinality(U) + (L - c)
    BY <1>1, <2>5, <2>6, NoMoreThan
  <2>8. Cardinality(Missed(after)) <= Cardinality(walk.stayed)
        /\ Cardinality(walk.stayed) \in Nat
    BY <1>1, <2>5, FS_Subset, FS_CardinalityType
  <2>9. Cardinality(Missed(after)) <= walk.left
    <3> DEFINE q == Cardinality(Missed(after))
               u == Cardinality(U)
    <3>1. q <= u + (L - c) /\ q \in Nat /\ u \in Nat /\ Allows(walk.left, most, u, n - c)
      BY <1>1, <1>4, <2>7
    <3>3. q <= most
      <4> DEFINE w == Cardinality(walk.stayed)
                 s == Cardinality(S)
      <4>1. q <= w /\ w <= s /\ s <= most /\ q \in Nat /\ w \in Nat /\ s \in Nat
        BY <1>1, <2>7, <2>8
      <4> HIDE DEF q, w, s
      <4> QED
        BY <4>1
    <3> HIDE DEF q, u
    <3>2. walk.left >= most \/ u + (n - c) <= walk.left
      BY <3>1 DEF Allows
    <3>4. q <= walk.left
      BY <1>1, <1>4, <2>1, <3>1, <3>2, <3>3
    <3> QED
      BY <3>4 DEF q
  <2> QED
    BY <1>3, <2>4, <2>9 DEF Settled
<1>10. ASSUME ~after.done
       PROVE  \E d : CutAt(list, after, d, most) /\ (NoneAhead(walk, c) => NoneAhead(after, d))
  <2> DEFINE d == IF c >= n + r THEN c ELSE n + r
             V == Skipped(list, after, d)
  <2>0. /\ n \in Nat /\ r \in Nat /\ c \in Nat /\ L \in Nat /\ c <= L
        /\ n + r <= L
    BY <1>1, <1>2, <1>3, <1>4, <1>10
  <2>1. n + r <= L /\ d \in 0..L /\ d \in Nat /\ c <= d /\ n + r <= d /\ (d = c \/ d = n + r)
    BY <1>1, <1>2, <1>3, <1>4, <1>10
  <2> HIDE DEF d
  <2>2. IsFiniteSet(V) /\ Cardinality(V) \in Nat
    BY <1>3, WalkFinite
  <2>3. ASSUME NEW x \in V PROVE x \in U \/ (c < n /\ x \in Stretch(list, c, n))
    <3>1. x \in walk.stayed /\ x \in First(list, d) /\ ~In(x, walk.seen) /\ ~In(x, reply)
      BY <1>3 DEF Skipped
    <3>2. CASE x \in First(list, c)
      BY <3>1, <3>2 DEF U, Skipped
    <3>3. CASE x \notin First(list, c)
      <4>1. PICK k \in 1..d : list[k] = x
        BY <3>1 DEF First
      <4>2. k \notin 1..c /\ k \notin (n + 1)..(n + r)
        BY <1>2, <3>1, <3>3, <4>1 DEF First
      <4>3. c < n /\ k \in 1..n
        BY <1>1, <1>2, <1>4, <2>1, <4>2
      <4> QED
        BY <3>3, <4>1, <4>3 DEF Stretch, First
    <3> QED
      BY <3>2, <3>3
  <2> HIDE DEF V
  <2>4. /\ n <= c => Cardinality(V) <= Cardinality(U)
        /\ c < n => Cardinality(V) <= Cardinality(U) + (n - c)
    <3>1. CASE n <= c
      <4>1. V \subseteq U
        BY <1>1, <1>4, <2>3, <3>1
      <4> QED
        BY <1>1, <1>4, <3>1, <4>1, FS_Subset
    <3>2. CASE c < n
      <4>1. n \in 0..Len(list) /\ c \in 0..Len(list) /\ c <= n
        BY <1>1, <1>2, <1>4, <2>1, <3>2 DEF L
      <4>2. /\ IsFiniteSet(Stretch(list, c, n)) /\ Cardinality(Stretch(list, c, n)) = n - c
        BY <4>1, StretchSize
      <4>3. V \subseteq U \union Stretch(list, c, n)
        BY <2>3
      <4>4. Cardinality(V) <= Cardinality(U) + Cardinality(Stretch(list, c, n))
        BY <1>1, <4>2, <4>3, NoMoreThan
      <4> QED
        BY <1>1, <1>4, <3>2, <4>2, <4>4
    <3> QED
      BY <1>1, <1>4, <3>1, <3>2
  <2>5. Allows(after.left, most, Cardinality(V), (n + r) - d)
    <3> DEFINE v == Cardinality(V)
               u == Cardinality(U)
    <3>1. /\ v \in Nat /\ u \in Nat /\ (v <= u \/ v <= u + (n - c))
          /\ Allows(walk.left, most, u, n - c)
      BY <1>1, <1>4, <2>2, <2>4
    <3> HIDE DEF v, u
    <3>2. (n + r) - d \in Int /\ n - c \in Int /\ (n + r) - d <= 0
      BY <2>0, <2>1
    <3>3. v + ((n + r) - d) <= u \/ v + ((n + r) - d) <= u + (n - c)
      BY <2>0, <2>1, <3>1
    <3>4. Allows(walk.left, most, v, (n + r) - d)
      BY <1>1, <3>1, <3>2, <3>3, AllowsLess
    <3> QED
      BY <1>3, <3>4 DEF v
  <2> DEFINE b == IF c <= n + r THEN c ELSE n + r
  <2>6. n < c => b \in 0..L /\ b \in Nat /\ n <= b
    BY <2>0
  <2>7. n < c => twice \subseteq Stretch(list, n, b)
    <3> SUFFICES ASSUME n < c, NEW x \in twice PROVE x \in Stretch(list, n, b)
      OBVIOUS
    <3>1. PICK k \in (n + 1)..(n + r) : k <= c /\ k \in 1..L /\ list[k] = x
      BY <1>5
    <3>2. k \in 1..b
      BY <1>1, <1>2, <1>4, <3>1
    <3>3. x \notin First(list, n)
      <4> SUFFICES ASSUME NEW j \in 1..n, list[j] = x PROVE FALSE
        BY DEF First
      <4>1. j \in 1..L
        BY <1>1, <1>2, <1>4, <2>1
      <4>2. j = k
        BY <3>1, <4>1 DEF Distinct, L
      <4> QED
        BY <1>1, <1>2, <4>2
    <3> HIDE DEF b
    <3> QED
      BY <3>1, <3>2, <3>3 DEF Stretch, First
  <2>8. /\ c <= n => Cardinality(Repeated(after)) <= Cardinality(R)
        /\ n < c => Cardinality(Repeated(after)) <= Cardinality(R) + (b - n)
    <3> HIDE DEF b
    <3>1. CASE c <= n
      <4>1. Repeated(after) \subseteq R
        BY <1>3, <1>6, <3>1
      <4> QED
        BY <1>1, <1>4, <3>1, <4>1, FS_Subset
    <3>2. CASE n < c
      <4>1. n \in 0..Len(list) /\ b \in 0..Len(list) /\ n <= b
        BY <1>1, <1>2, <1>4, <2>1, <2>6, <3>2 DEF L
      <4>2. /\ IsFiniteSet(Stretch(list, n, b)) /\ Cardinality(Stretch(list, n, b)) = b - n
        BY <4>1, StretchSize
      <4>3. Repeated(after) \subseteq R \union Stretch(list, n, b)
        BY <1>3, <2>7, <3>2
      <4>4. Cardinality(Repeated(after)) <= Cardinality(R) + Cardinality(Stretch(list, n, b))
        BY <1>1, <4>2, <4>3, NoMoreThan
      <4> QED
        BY <1>1, <1>4, <3>2, <4>2, <4>4
    <3> QED
      BY <1>1, <1>4, <3>1, <3>2
  <2>9. Allows(after.entered, most, Cardinality(Repeated(after)), d - (n + r))
    <3> DEFINE v == Cardinality(Repeated(after))
               u == Cardinality(R)
    <3>1. /\ v \in Nat /\ u \in Nat
          /\ (c <= n /\ v <= u) \/ (n < c /\ v <= u + (b - n))
          /\ Allows(walk.entered, most, u, c - n)
      BY <1>1, <1>4, <1>8, <2>8
    <3> HIDE DEF v, u
    <3>2. d - (n + r) \in Int /\ c - n \in Int
      BY <2>0, <2>1
    <3>3. v <= u \/ v <= u + (c - n)
      BY <2>0, <3>1
    <3>4. v + (d - (n + r)) <= u \/ v + (d - (n + r)) <= u + (c - n)
      BY <2>0, <3>1 DEF d
    <3>5. Allows(walk.entered, most, v, d - (n + r))
      BY <1>1, <3>1, <3>2, <3>3, <3>4, AllowsLess
    <3> QED
      BY <1>3, <3>5 DEF v
  <2>10. ASSUME NEW x \in after.stayed
         PROVE  In(x, list) /\ (In(x, after.seen) => x \in First(list, d))
    <3>1. x \in walk.stayed /\ In(x, list) /\ (In(x, walk.seen) => x \in First(list, c))
      BY <1>3, <1>4
    <3>2. First(list, c) \subseteq First(list, d)
      BY <1>4, <2>1 DEF First
    <3>3. In(x, reply) => x \in First(list, d)
      <4>1. \A k \in (n + 1)..(n + r) : k \in 1..d
        BY <1>1, <1>2, <2>1
      <4> QED
        BY <1>2, <4>1 DEF First
    <3> QED
      BY <1>3, <3>1, <3>2, <3>3
  <2>11. CutAt(list, after, d, most)
    BY <1>3, <2>1, <2>5, <2>9, <2>10 DEF CutAt, L, V
  <2>12. Len(after.seen) = n + r /\ (NoneAhead(walk, c) => Repeated(after) = {})
    BY <1>3, <1>7
  <2>13. NoneAhead(walk, c) => NoneAhead(after, d)
    BY <2>0, <2>1, <2>12 DEF NoneAhead, n
  <2> QED
    BY <2>11, <2>13
<1> QED
  BY <1>3, <1>7, <1>9, <1>10 DEF after

-----------------------------------------------------------------------------
(* Walks over a list that only grows at its end. *)

\* Of what stayed, an unfinished walk has received exactly what stands before
\* the cut, and nothing twice.
ReadUpTo(list, walk, c) ==
    /\ c \in 0..Len(list)
    /\ \A x \in walk.stayed : In(x, list) /\ (In(x, walk.seen) <=> x \in First(list, c))
    /\ Repeated(walk) = {}

\* The client goes on at the cut, or further on, with nothing owed to it.
Follows(list, walk, pos) ==
    \E c : /\ ReadUpTo(list, walk, c) /\ c <= pos
           /\ c = pos \/ walk.stayed \subseteq First(list, c)

SeenAll(walk) == Missed(walk) = {} /\ Repeated(walk) = {}

LEMMA NewWalkFollows ==
  ASSUME NEW S, NEW list \in Seq(S)
  PROVE  /\ NewWalk(list) \in WalkOf(S) /\ ~NewWalk(list).done
         /\ NewWalk(list).replies = 0 /\ NewWalk(list).seen = <<>>
         /\ Follows(list, NewWalk(list), 0)
<1> DEFINE walk == NewWalk(list)
<1>1. /\ walk \in WalkOf(S) /\ walk.seen = <<>> /\ walk.stayed = Items(list)
      /\ walk.replies = 0 /\ ~walk.done
  <2>1. Items(list) \subseteq S
    BY ItemsIn
  <2> QED
    BY <2>1 DEF NewWalk, WalkOf
<1> HIDE DEF walk
<1>2. \A x : ~In(x, walk.seen)
  BY <1>1, EmptyList
<1>3. Repeated(walk) = {}
  BY <1>1, <1>2, RepeatedItems, BeforeIn
<1>4. 0 \in 0..Len(list) /\ \A x \in walk.stayed : In(x, list)
  BY <1>1, ItemsIn, LenProperties
<1>5. First(list, 0) = {}
  BY DEF First
<1>6. ReadUpTo(list, walk, 0)
  BY <1>2, <1>3, <1>4, <1>5 DEF ReadUpTo
<1> QED
  BY <1>1, <1>6 DEF Follows, walk

LEMMA FollowsSees ==
  ASSUME NEW list, NEW walk, ~walk.done, NEW pos, Follows(list, walk, pos)
  PROVE  SeenAll(walk)
BY DEF Follows, ReadUpTo, SeenAll, Missed

LEMMA GrowsUnderWalk ==
  ASSUME NEW S, IsFiniteSet(S), NEW most \in Nat,
         NEW l \in Seq(S), NEW m \in Seq(S), Extends(l, m),
         NEW walk \in WalkOf(S), ~walk.done, NEW pos, Follows(l, walk, pos)
  PROVE  LET after == Overtaken(walk, l, m, most)
         IN  /\ after \in WalkOf(S) /\ ~after.done
             /\ after.seen = walk.seen /\ after.replies = walk.replies
             /\ Follows(m, after, pos)
<1> DEFINE after == Overtaken(walk, l, m, most)
           gone == Items(l) \ Items(m)
           new == Items(m) \ Items(l)
<1>1. PICK c : /\ ReadUpTo(l, walk, c) /\ c <= pos
               /\ c = pos \/ walk.stayed \subseteq First(l, c)
  BY DEF Follows
<1>2. /\ Len(l) \in Nat /\ Len(m) \in Nat /\ Len(l) <= Len(m)
      /\ \A k \in 1..Len(l) : m[k] = l[k]
  BY LenProperties DEF Extends
<1>3. /\ IsFiniteSet(gone) /\ Cardinality(gone) \in Nat
      /\ IsFiniteSet(new) /\ Cardinality(new) \in Nat
  <2>1. Items(l) \subseteq S /\ Items(m) \subseteq S
    BY ItemsIn
  <2>2. gone \in SUBSET S /\ new \in SUBSET S
    BY <2>1
  <2> QED
    BY <2>2, FS_Subset, FS_CardinalityType
<1>4. gone = {}
  <2>1. \A x : In(x, l) => In(x, m)
    BY <1>2 DEF In
  <2>2. /\ \A x : x \in Items(l) <=> In(x, l)
        /\ \A x : x \in Items(m) <=> In(x, m)
    BY ItemsIn
  <2> QED
    BY <2>1, <2>2
<1>5. /\ after \in WalkOf(S) /\ ~after.done /\ after.seen = walk.seen
      /\ after.replies = walk.replies /\ after.stayed = walk.stayed
  <2>1. after = [walk EXCEPT !.stayed = walk.stayed \ gone,
                             !.left = CountedUpTo(most, walk.left, Cardinality(gone)),
                             !.entered = CountedUpTo(most, walk.entered, Cardinality(new))]
    BY DEF Overtaken, CountedUpTo
  <2>2. \A b \in Nat, g \in Nat : CountedUpTo(most, b, g) \in Nat
    BY DEF CountedUpTo
  <2>3. walk.stayed \ gone = walk.stayed
    BY <1>4
  <2> HIDE DEF after, gone, new
  <2> QED
    BY <1>3, <2>1, <2>2, <2>3 DEF WalkOf
<1> HIDE DEF after
<1>6. c \in 0..Len(m) /\ First(m, c) = First(l, c)
  <2>1. c \in 0..Len(l)
    BY <1>1 DEF ReadUpTo
  <2>2. c \in 0..Len(m) /\ \A k \in 1..c : m[k] = l[k]
    BY <1>2, <2>1
  <2> QED
    BY <2>2 DEF First
<1>7. \A x \in walk.stayed : In(x, m) /\ (In(x, walk.seen) <=> x \in First(m, c))
  <2>1. \A x \in walk.stayed : In(x, l) /\ (In(x, walk.seen) <=> x \in First(l, c))
    BY <1>1 DEF ReadUpTo
  <2>2. \A x : In(x, l) => In(x, m)
    BY <1>2 DEF In
  <2> QED
    BY <1>6, <2>1, <2>2
<1>8. Repeated(after) = Repeated(walk)
  BY <1>5 DEF Repeated
<1>9. ReadUpTo(m, after, c)
  BY <1>1, <1>5, <1>6, <1>7, <1>8 DEF ReadUpTo
<1>10. Follows(m, after, pos)
  BY <1>1, <1>5, <1>6, <1>9 DEF Follows
<1> QED
  BY <1>5, <1>10 DEF after

\* The next reply leaves no gap, wherever the client then goes on: where the
\* reply ended, or where it would have ended had it been full.
LEMMA GrownReceived ==
  ASSUME NEW S, NEW list \in Seq(S), Distinct(list), NEW pos \in Nat, NEW cap \in Nat \ {0},
         NEW walk \in WalkOf(S), Follows(list, walk, pos),
         NEW reply, reply = Slice(list, pos, cap)
  PROVE  LET after == Received(walk, reply)
         IN  /\ Adds(after, walk, reply, S)
             /\ after.done => SeenAll(after)
             /\ ~after.done => /\ Follows(list, after, pos + Len(reply))
                               /\ Follows(list, after, pos + cap)
<1> DEFINE after == Received(walk, reply)
           r == Len(reply)
           L == Len(list)
<1>1. PICK c : /\ ReadUpTo(list, walk, c) /\ c <= pos
               /\ c = pos \/ walk.stayed \subseteq First(list, c)
  BY DEF Follows
<1>2. Replies(reply, S, list, pos, cap)
  BY ReplyItems
<1>3. /\ reply \in Seq(S) /\ r \in Nat /\ Distinct(reply)
      /\ \A x : In(x, reply) <=> \E k \in (pos + 1)..(pos + r) : list[k] = x
      /\ reply = <<>> => L <= pos
      /\ reply # <<>> => pos + r <= L
      /\ r = cap \/ pos + r = L \/ reply = <<>>
  BY <1>2 DEF Replies
<1>4. Adds(after, walk, reply, S)
  BY <1>3, SeenAfterReply
<1>5. /\ after.stayed = walk.stayed
      /\ after.done <=> reply = <<>>
      /\ \A x : In(x, after.seen) <=> In(x, walk.seen) \/ In(x, reply)
      /\ \A x \in Repeated(after) :
            x \in Repeated(walk) \/ (x \in walk.stayed /\ In(x, walk.seen) /\ In(x, reply))
      /\ after.seen \in Seq(S)
  BY <1>4 DEF Adds
<1>6. /\ c \in 0..L /\ c \in Nat /\ L \in Nat
      /\ \A x \in walk.stayed : In(x, list) /\ (In(x, walk.seen) <=> x \in First(list, c))
      /\ Repeated(walk) = {}
  <2>1. L \in Nat
    BY LenProperties
  <2> QED
    BY <1>1, <2>1 DEF ReadUpTo
<1> HIDE DEF after, r, L
<1>7. \A x : In(x, list) => x \in First(list, L)
  BY DEF In, First, L
\* Nothing from before the cut stands in the reply.
<1>8. ASSUME NEW x, x \in First(list, c), In(x, reply) PROVE FALSE
  <2>1. PICK k \in (pos + 1)..(pos + r) : list[k] = x
    BY <1>3, <1>8
  <2>2. PICK j \in 1..c : list[j] = x
    BY <1>8 DEF First
  <2>3. reply # <<>>
    BY <1>8, EmptyList
  <2>4. k \in 1..L /\ j \in 1..L /\ j # k
    BY <1>1, <1>3, <1>6, <2>3
  <2> QED
    BY <2>1, <2>2, <2>4 DEF Distinct, L
<1>9. Repeated(after) = {}
  BY <1>5, <1>6, <1>8
<1>10. ASSUME after.done PROVE SeenAll(after)
  <2>1. walk.stayed \subseteq First(list, c)
    <3>1. CASE c = pos
      <4>1. c = L
        BY <1>3, <1>5, <1>6, <1>10, <3>1
      <4> QED
        BY <1>6, <1>7, <4>1
    <3> QED
      BY <1>1, <3>1
  <2>2. \A x \in after.stayed : In(x, after.seen)
    BY <1>5, <1>6, <2>1
  <2>3. \A x \in after.stayed : x \in Items(after.seen)
    BY <1>5, <2>2, ItemsIn
  <2> QED
    BY <1>9, <2>3 DEF SeenAll, Missed
<1>11. ASSUME ~after.done
       PROVE  \E d : /\ ReadUpTo(list, after, d) /\ d <= pos + r
                     /\ d = pos + r \/ after.stayed \subseteq First(list, d)
                     /\ r = cap \/ after.stayed \subseteq First(list, d)
  <2>1. pos + r <= L /\ (r = cap \/ pos + r = L)
    BY <1>3, <1>5, <1>11
  <2>2. CASE walk.stayed \subseteq First(list, c)
    <3>1. ReadUpTo(list, after, c)
      BY <1>5, <1>6, <1>8, <1>9, <2>2 DEF ReadUpTo, L
    <3>2. c <= pos + r
      BY <1>1, <1>3, <1>6
    <3> QED
      BY <1>5, <2>2, <3>1, <3>2
  <2>3. CASE c = pos
    <3> DEFINE d == pos + r
    <3>1. d \in 0..L
      BY <1>3, <1>6, <2>1
    <3>2. ASSUME NEW x PROVE x \in First(list, d) <=> x \in First(list, c) \/ In(x, reply)
      <4>1. 1..d = (1..c) \union ((pos + 1)..(pos + r))
        BY <1>3, <1>6, <2>3
      <4> QED
        BY <1>3, <4>1 DEF First
    <3>3. ReadUpTo(list, after, d)
      <4> HIDE DEF d
      <4> QED
        BY <1>5, <1>6, <1>9, <3>1, <3>2 DEF ReadUpTo, L
    <3>4. r = cap \/ after.stayed \subseteq First(list, d)
      BY <1>5, <1>6, <1>7, <2>1
    <3>5. d <= pos + r
      BY <1>3
    <3> QED
      BY <3>3, <3>4, <3>5
  <2> QED
    BY <1>1, <2>2, <2>3
<1>12. ASSUME ~after.done
       PROVE  Follows(list, after, pos + r) /\ Follows(list, after, pos + cap)
  <2>1. PICK d : /\ ReadUpTo(list, after, d) /\ d <= pos + r
                 /\ d = pos + r \/ after.stayed \subseteq First(list, d)
                 /\ r = cap \/ after.stayed \subseteq First(list, d)
    BY <1>11, <1>12
  <2>2. d \in Nat
    <3>1. d \in 0..L
      BY <2>1 DEF ReadUpTo, L
    <3> QED
      BY <3>1
  <2>3. r <= cap
    <3>1. IsSlice(reply, list, pos, cap)
      BY SliceUnique
    <3>2. r = SliceLength(L, pos, cap)
      BY <3>1 DEF IsSlice, r, L
    <3> QED
      BY <1>6, <3>2 DEF SliceLength, Least
  <2>4. d <= pos + cap
    BY <1>3, <2>1, <2>2, <2>3
  <2> QED
    BY <2>1, <2>4 DEF Follows
<1> QED
  BY <1>4, <1>10, <1>12 DEF after, r
=============================================================================
