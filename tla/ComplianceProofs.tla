-------------------------- MODULE ComplianceProofs --------------------------
(***************************************************************************)
(* Theorems about Compliance, and about the client of RosterReader that    *)
(* pages through its list, for every set of addresses and spellings, every *)
(* page size and every set of inputs.                                      *)
(***************************************************************************)
EXTENDS RosterReader, PageWalkProofs

-----------------------------------------------------------------------------
(* FlattenSeq: one list out of the pages. *)

\* flat[i] is the list made of the first i pages.
Flattens(flat, pages) ==
    /\ flat[0] = <<>>
    /\ \A i \in 1..Len(pages) : flat[i] = flat[i - 1] \o pages[i]
    /\ Seqs!FlattenSeq(pages) = flat[Len(pages)]

LEMMA FlatSteps ==
  ASSUME NEW S, NEW pages \in Seq(Seq(S)), pages # <<>>
  PROVE  \E flat \in [0..Len(pages) -> Seq(S)] : Flattens(flat, pages)
<1> DEFINE N == Len(pages)
           X == Seq(S)
           start == <<>>
           step == [t \in (1..N) \X X |-> t[2] \o pages[t[1]]]
           IsRun(g) == g = [i \in 1..N |-> IF i = 1 THEN pages[i] ELSE g[i - 1] \o pages[i]]
           run == CHOOSE g : IsRun(g)
<1>1. N \in Nat /\ start \in X /\ N # 0
  BY LenProperties, EmptySeq
<1>2. ASSUME NEW i \in 1..N PROVE pages[i] \in X
  <2> HIDE DEF X
  <2>1. pages \in Seq(X)
    BY DEF X
  <2> QED
    BY <2>1, ElementOfSeq
<1>3. ASSUME NEW l \in X, NEW m \in X PROVE l \o m \in X /\ start \o l = l
  BY ConcatProperties, ConcatEmptySeq
<1>4. Seqs!FlattenSeq(pages) = run[N]
  BY <1>1 DEF Seqs!FlattenSeq
<1> HIDE DEF X, start, N
<1>5. step \in [(1..N) \X X -> X]
  BY <1>2, <1>3
<1>6. PICK g \in [0..N -> X] : Loops(g, N, start, step)
  <2> HIDE DEF step
  <2> QED
    BY <1>1, <1>5, LoopRuns
<1>7. ASSUME NEW i \in 1..N PROVE g[i] = g[i - 1] \o pages[i] /\ g[i] \in X
  <2>1. i - 1 \in 0..N /\ i \in 0..N
    BY <1>1
  <2>2. <<i, g[i - 1]>> \in (1..N) \X X
    BY <2>1
  <2> QED
    BY <1>6, <2>1, <2>2 DEF Loops
<1>8. g[0] = start /\ 1 \in 1..N /\ g[1] = pages[1]
  <2>1. 1 \in 1..N
    BY <1>1
  <2>2. g[0] = start
    BY <1>6 DEF Loops
  <2>3. g[1] = g[1 - 1] \o pages[1] /\ pages[1] \in X
    BY <1>2, <1>7, <2>1
  <2>4. 1 - 1 = 0
    OBVIOUS
  <2>5. g[1] = start \o pages[1]
    BY <2>2, <2>3, <2>4
  <2> QED
    BY <1>3, <2>1, <2>2, <2>3, <2>5
<1>9. \E h : IsRun(h)
  <2> DEFINE h == [i \in 1..N |-> g[i]]
  <2>1. ASSUME NEW i \in 1..N
        PROVE  h[i] = IF i = 1 THEN pages[i] ELSE h[i - 1] \o pages[i]
    <3>1. CASE i = 1
      BY <1>8, <3>1
    <3>2. CASE i # 1
      <4>1. i - 1 \in 1..N /\ i - 1 \in 0..N
        BY <1>1, <3>2
      <4> QED
        BY <1>7, <3>2, <4>1
    <3> QED
      BY <3>1, <3>2
  <2>2. IsRun(h)
    <3>1. h = [i \in 1..N |-> h[i]]
      OBVIOUS
    <3> HIDE DEF h
    <3> QED
      BY <2>1, <3>1
  <2> HIDE DEF IsRun
  <2> QED
    BY <2>2
<1>10. IsRun(run)
  <2> HIDE DEF IsRun
  <2> QED
    BY <1>9
<1> HIDE DEF run
<1>11. run[N] = g[N]
  <2> DEFINE r == [i \in 0..N |-> IF i = 0 THEN start ELSE run[i]]
  <2>1. ASSUME NEW i \in 1..N, r[i - 1] = g[i - 1] PROVE r[i] = g[i]
    <3>1. i \in 0..N /\ r[i] = run[i]
      BY <1>1
    <3>2. run[i] = IF i = 1 THEN pages[i] ELSE run[i - 1] \o pages[i]
      BY <1>10
    <3>3. CASE i = 1
      BY <1>8, <3>1, <3>2, <3>3
    <3>4. CASE i # 1
      <4>1. i - 1 \in 1..N /\ i - 1 \in 0..N /\ i - 1 # 0
        BY <1>1, <3>4
      <4>2. r[i - 1] = run[i - 1]
        BY <4>1
      <4> HIDE DEF r
      <4> QED
        BY <1>7, <2>1, <3>1, <3>2, <3>4, <4>2
    <3> QED
      BY <3>3, <3>4
  <2>2. r[0] = g[0] /\ r[N] = run[N]
    BY <1>1, <1>8
  <2> HIDE DEF r
  <2>3. InStep(r, g, N)
    BY <2>1, <2>2 DEF InStep
  <2>4. \A i \in 0..N : r[i] = g[i]
    BY <1>1, <2>3, LoopRunsAgree
  <2> QED
    BY <1>1, <2>2, <2>4
<1> QED
  BY <1>4, <1>6, <1>7, <1>8, <1>11 DEF N, X, start, Flattens

\* The published list is made of the items of the pages, each of them once if
\* no item is on two pages or twice on one.
LEMMA FlattenedItems ==
  ASSUME NEW S, NEW pages \in Seq(Seq(S)), pages # <<>>
  PROVE  /\ Seqs!FlattenSeq(pages) \in Seq(S)
         /\ \A x : In(x, Seqs!FlattenSeq(pages)) <=> \E p \in 1..Len(pages) : In(x, pages[p])
         /\ (/\ \A p \in 1..Len(pages) : Distinct(pages[p])
             /\ \A p, q \in 1..Len(pages) : \A x : In(x, pages[p]) /\ In(x, pages[q]) => p = q)
                => Distinct(Seqs!FlattenSeq(pages))
<1> DEFINE N == Len(pages)
<1>1. N \in Nat /\ \A i \in 1..N : pages[i] \in Seq(S)
  <2> DEFINE X == Seq(S)
  <2> HIDE DEF X
  <2>1. pages \in Seq(X)
    BY DEF X
  <2> QED
    BY <2>1, ElementOfSeq, LenProperties DEF X
<1>0. PICK flat \in [0..N -> Seq(S)] : Flattens(flat, pages)
  BY FlatSteps
<1>2. /\ flat[0] = <<>>
      /\ \A i \in 1..N : flat[i] = flat[i - 1] \o pages[i]
      /\ Seqs!FlattenSeq(pages) = flat[N]
  BY <1>0 DEF Flattens
<1> DEFINE Upto(x, i) == \E p \in 1..i : In(x, pages[p])
           Apart == /\ \A p \in 1..N : Distinct(pages[p])
                    /\ \A p, q \in 1..N : \A x : In(x, pages[p]) /\ In(x, pages[q]) => p = q
           Good(i) == /\ \A x : In(x, flat[i]) <=> Upto(x, i)
                      /\ Apart => Distinct(flat[i])
           Bad == {i \in 0..N : ~Good(i)}
<1>3. Good(0)
  BY <1>2, EmptyList
<1>4. ASSUME NEW i \in 1..N, Good(i - 1) PROVE Good(i)
  <2>1. flat[i - 1] \in Seq(S)
    <3>1. i - 1 \in 0..N
      BY <1>1
    <3> HIDE DEF N, Good
    <3> QED
      BY <3>1
  <2>2. \A x : Upto(x, i) <=> (Upto(x, i - 1) \/ In(x, pages[i]))
    <3>1. 1..i = (1..(i - 1)) \union {i}
      BY <1>1
    <3> QED
      BY <3>1
  <2>3. Apart => Distinct(pages[i]) /\ \A x : ~(Upto(x, i - 1) /\ In(x, pages[i]))
    <3>1. \A p \in 1..(i - 1) : p \in 1..N /\ p # i
      BY <1>1
    <3> QED
      BY <3>1
  <2> DEFINE old == flat[i - 1]
             page == pages[i]
  <2>4. /\ \A x : In(x, old) <=> Upto(x, i - 1)
        /\ Apart => Distinct(old)
    BY <1>4
  <2>5. flat[i] = old \o page /\ old \in Seq(S) /\ page \in Seq(S)
    BY <1>1, <1>2, <2>1
  <2> HIDE DEF Apart, Upto, old, page
  <2>6. /\ \A x : In(x, flat[i]) <=> (In(x, old) \/ In(x, page))
        /\ (/\ Distinct(old) /\ Distinct(page)
            /\ \A x : ~(In(x, old) /\ In(x, page))) => Distinct(flat[i])
    BY <2>5, JoinedList
  <2> QED
    BY <2>2, <2>3, <2>4, <2>6 DEF page
<1>5. Bad = {}
  <2> SUFFICES ASSUME Bad # {} PROVE FALSE
    OBVIOUS
  <2> HIDE DEF Good
  <2>1. Bad \subseteq Nat
    OBVIOUS
  <2>2. PICK i \in Bad : \A j \in Bad : i <= j
    BY <2>1, LeastNatural
  <2>3. i \in 1..N /\ i - 1 \in 0..N /\ i - 1 \notin Bad
    BY <1>1, <1>3, <2>2
  <2>4. Good(i - 1)
    BY <2>3
  <2> QED
    BY <1>4, <2>2, <2>3, <2>4
<1>6. Good(N) /\ flat[N] \in Seq(S)
  <2>1. N \in 0..N
    BY <1>1
  <2> HIDE DEF Good, N
  <2> QED
    BY <1>5, <2>1
<1> QED
  BY <1>2, <1>6

-----------------------------------------------------------------------------
(* The roster. *)

SIZE == ALLOWLIST_PAGE_SIZE

People(rec) == {a \in Address : rec[a] # NoRecord}

\* Records, pages and page index describe the same people, the pages keep
\* their capacity and the count covers them.
FiledAs(rec, pages, page_len, page_of, count) ==
    /\ rec \in [Address -> KycRecord \union {NoRecord}]
    /\ pages \in Seq(Seq(Address)) /\ pages # <<>>
    /\ page_len \in 0..SIZE
    /\ page_of \in [Address -> Nat]
    /\ count \in Nat
    /\ \A p \in 1..Len(pages) : Distinct(pages[p]) /\ Len(pages[p]) <= SIZE
    /\ Len(pages[Len(pages)]) <= page_len
    /\ \A p \in 1..Len(pages), a \in Address :
          In(a, pages[p]) => rec[a] # NoRecord /\ page_of[a] = p
    /\ \A a \in People(rec) :
          page_of[a] \in 1..Len(pages) /\ In(a, pages[page_of[a]])
    /\ \A a \in Address : rec[a] = NoRecord => page_of[a] = 0
    /\ Cardinality(People(rec)) <= count

Filed(rec, r) == FiledAs(rec, r.pages, r.page_len, r.page_of, r.count)

LEMMA NotARecord == NoRecord \notin KycRecord
BY DEF NoRecord, KycRecord

LEMMA PagesTyped ==
  ASSUME NEW S, NEW pages \in Seq(Seq(S)), pages # <<>>
  PROVE  /\ Len(pages) \in Nat \ {0}
         /\ \A p \in 1..Len(pages) : pages[p] \in Seq(S) /\ Len(pages[p]) \in Nat
<1> DEFINE X == Seq(S)
<1> HIDE DEF X
<1>1. pages \in Seq(X)
  BY DEF X
<1>2. \A p \in 1..Len(pages) : pages[p] \in X
  BY <1>1, ElementOfSeq
<1>3. Len(pages) \in Nat \ {0}
  BY <1>1, LenProperties, EmptySeq
<1> QED
  BY <1>2, <1>3, LenProperties DEF X

\* One page is replaced.
LEMMA PageReplaced ==
  ASSUME NEW S, NEW pages \in Seq(Seq(S)), NEW p \in 1..Len(pages), NEW page \in Seq(S)
  PROVE  LET after == [pages EXCEPT ![p] = page]
         IN  /\ after \in Seq(Seq(S)) /\ Len(after) = Len(pages)
             /\ after[p] = page
             /\ \A q \in 1..Len(pages) : q # p => after[q] = pages[q]
<1> DEFINE X == Seq(S)
<1> HIDE DEF X
<1>1. pages \in Seq(X) /\ page \in X /\ DOMAIN pages = 1..Len(pages)
  BY LenProperties DEF X
<1> QED
  BY <1>1, ExceptSeq DEF X

\* A fresh page is opened.
LEMMA PageOpened ==
  ASSUME NEW rec, NEW pages, NEW page_len, NEW page_of, NEW count,
         FiledAs(rec, pages, page_len, page_of, count)
  PROVE  FiledAs(rec, Append(pages, <<>>), 0, page_of, count)
<1> DEFINE n == Len(pages)
           more == Append(pages, <<>>)
<1>1. /\ rec \in [Address -> KycRecord \union {NoRecord}]
      /\ pages \in Seq(Seq(Address)) /\ pages # <<>>
      /\ page_of \in [Address -> Nat] /\ count \in Nat
      /\ \A a \in Address : rec[a] = NoRecord => page_of[a] = 0
      /\ Cardinality(People(rec)) <= count
  BY DEF FiledAs
<1>2. /\ n \in Nat \ {0} /\ more \in Seq(Seq(Address)) /\ Len(more) = n + 1
      /\ more[n + 1] = <<>> /\ \A p \in 1..n : more[p] = pages[p]
  <2> DEFINE X == Seq(Address)
  <2>1. <<>> \in X /\ pages \in Seq(X)
    BY <1>1
  <2> HIDE DEF X
  <2> QED
    BY <1>1, <2>1, AppendProperties, PagesTyped DEF X
<1>3. more # <<>>
  BY <1>2, EmptySeq
<1>4. SIZE \in Nat /\ 0 \in 0..SIZE
  BY ConstantsAssumption DEF SIZE
<1>5. /\ \A p \in 1..n : Distinct(pages[p]) /\ Len(pages[p]) <= SIZE
      /\ \A p \in 1..n, a \in Address : In(a, pages[p]) => rec[a] # NoRecord /\ page_of[a] = p
      /\ \A a \in People(rec) : page_of[a] \in 1..n /\ In(a, pages[page_of[a]])
  BY DEF FiledAs
<1> HIDE DEF more, n
<1>6. ASSUME NEW p \in 1..(n + 1)
      PROVE  /\ Distinct(more[p]) /\ Len(more[p]) <= SIZE
             /\ \A a \in Address : In(a, more[p]) => rec[a] # NoRecord /\ page_of[a] = p
  <2>1. CASE p \in 1..n
    BY <1>2, <1>5, <2>1
  <2>2. CASE p = n + 1
    BY <1>2, <1>4, <2>2, EmptyList
  <2> QED
    BY <1>2, <2>1, <2>2
<1>7. ASSUME NEW a \in People(rec) PROVE page_of[a] \in 1..(n + 1) /\ In(a, more[page_of[a]])
  <2>1. 1..n \subseteq 1..(n + 1)
    BY <1>2
  <2> QED
    BY <1>2, <1>5, <2>1
<1>8. Len(more[n + 1]) <= 0
  BY <1>2, EmptyList
<1>9. FiledAs(rec, more, 0, page_of, count)
  BY <1>1, <1>2, <1>3, <1>4, <1>6, <1>7, <1>8 DEF FiledAs
<1> QED
  BY <1>9 DEF more

\* Somebody without a record is put on the page being filled.
LEMMA NewcomerFiled ==
  ASSUME NEW rec, NEW pages, NEW page_len, NEW page_of, NEW count,
         FiledAs(rec, pages, page_len, page_of, count),
         NEW a \in Address, rec[a] = NoRecord, NEW k \in KycRecord, page_len < SIZE
  PROVE  FiledAs([rec EXCEPT ![a] = k],
                 [pages EXCEPT ![Len(pages)] = Append(@, a)], page_len + 1,
                 [page_of EXCEPT ![a] = Len(pages)], count + 1)
<1> DEFINE n == Len(pages)
           more == [pages EXCEPT ![n] = Append(@, a)]
           recs == [rec EXCEPT ![a] = k]
           index == [page_of EXCEPT ![a] = n]
<1>1. /\ pages \in Seq(Seq(Address)) /\ pages # <<>>
      /\ rec \in [Address -> KycRecord \union {NoRecord}]
      /\ page_of \in [Address -> Nat] /\ count \in Nat
      /\ page_len \in 0..SIZE /\ SIZE \in Nat
      /\ Cardinality(People(rec)) <= count
  BY ConstantsAssumption DEF FiledAs, SIZE
<1>2. /\ n \in Nat \ {0} /\ n \in 1..n
      /\ \A p \in 1..n : pages[p] \in Seq(Address) /\ Len(pages[p]) \in Nat
  BY <1>1, PagesTyped
<1>3. /\ Append(pages[n], a) \in Seq(Address)
      /\ Len(Append(pages[n], a)) = Len(pages[n]) + 1
      /\ \A y : In(y, Append(pages[n], a)) <=> (In(y, pages[n]) \/ y = a)
      /\ Distinct(pages[n]) /\ ~In(a, pages[n]) => Distinct(Append(pages[n], a))
  BY <1>2, AppendedList
<1>4. /\ more \in Seq(Seq(Address)) /\ Len(more) = n
      /\ more[n] = Append(pages[n], a)
      /\ \A p \in 1..n : p # n => more[p] = pages[p]
  BY <1>1, <1>2, <1>3, PageReplaced
<1>5. more # <<>>
  BY <1>2, <1>4, EmptySeq
<1>6. /\ recs \in [Address -> KycRecord \union {NoRecord}]
      /\ recs[a] # NoRecord
      /\ \A b \in Address : b # a => recs[b] = rec[b]
  BY <1>1, NotARecord
<1>7. /\ index \in [Address -> Nat] /\ index[a] = n
      /\ \A b \in Address : b # a => index[b] = page_of[b]
  BY <1>1, <1>2
<1>8. \A p \in 1..n : ~In(a, pages[p])
  BY DEF FiledAs
<1> HIDE DEF more, recs, index
<1>9. \A p \in 1..n : Distinct(more[p]) /\ Len(more[p]) <= SIZE
  <2>1. ASSUME NEW p \in 1..n PROVE Distinct(more[p]) /\ Len(more[p]) <= SIZE
    <3>1. Distinct(pages[p]) /\ Len(pages[p]) <= SIZE
      BY DEF FiledAs
    <3>2. CASE p = n
      <4>1. Len(pages[n]) <= page_len
        BY DEF FiledAs
      <4>2. Len(more[p]) <= SIZE
        BY <1>1, <1>2, <1>3, <1>4, <3>2, <4>1
      <4> QED
        BY <1>3, <1>4, <1>8, <3>1, <3>2, <4>2
    <3> QED
      BY <1>4, <3>1, <3>2
  <2> QED
    BY <2>1
<1>10. Len(more[n]) <= page_len + 1 /\ page_len + 1 \in 0..SIZE
  <2>1. Len(pages[n]) <= page_len
    BY DEF FiledAs
  <2> QED
    BY <1>1, <1>2, <1>3, <1>4, <2>1
<1>11. ASSUME NEW p \in 1..n, NEW b \in Address, In(b, more[p])
       PROVE  recs[b] # NoRecord /\ index[b] = p
  <2>1. In(b, pages[p]) => rec[b] # NoRecord /\ page_of[b] = p
    BY DEF FiledAs
  <2>2. In(b, pages[p]) \/ (p = n /\ b = a)
    BY <1>3, <1>4, <1>11
  <2> QED
    BY <1>6, <1>7, <1>8, <2>1, <2>2
<1>12. ASSUME NEW b \in People(recs) PROVE index[b] \in 1..n /\ In(b, more[index[b]])
  <2>1. CASE b = a
    BY <1>2, <1>3, <1>4, <1>7, <2>1
  <2>2. CASE b # a
    <3>1. b \in People(rec) /\ b \in Address
      BY <1>6, <2>2 DEF People
    <3>2. page_of[b] \in 1..n /\ In(b, pages[page_of[b]])
      BY <3>1 DEF FiledAs
    <3> QED
      BY <1>3, <1>4, <1>7, <2>2, <3>1, <3>2
  <2> QED
    BY <2>1, <2>2
<1>13. ASSUME NEW b \in Address, recs[b] = NoRecord PROVE index[b] = 0
  <2>1. b # a /\ rec[b] = NoRecord
    BY <1>6, <1>13
  <2>2. page_of[b] = 0
    BY <2>1 DEF FiledAs
  <2> QED
    BY <1>7, <2>1, <2>2
<1>14. Cardinality(People(recs)) <= count + 1
  <2>1. People(recs) = People(rec) \union {a} /\ a \notin People(rec)
    BY <1>6 DEF People
  <2>2. IsFiniteSet(People(rec))
    BY ConstantsAssumption, FS_Subset DEF People
  <2>3. /\ Cardinality(People(recs)) = Cardinality(People(rec)) + 1
        /\ Cardinality(People(rec)) \in Nat
    BY <2>1, <2>2, FS_AddElement, FS_CardinalityType
  <2> QED
    BY <1>1, <2>3
<1>15. count + 1 \in Nat
  BY <1>1
<1> QED
  BY <1>4, <1>5, <1>6, <1>7, <1>9, <1>10, <1>11, <1>12, <1>13, <1>14, <1>15
  DEF FiledAs, more, recs, index

\* The record of somebody already on file is overwritten.
LEMMA RecordReplaced ==
  ASSUME NEW rec, NEW pages, NEW page_len, NEW page_of, NEW count,
         FiledAs(rec, pages, page_len, page_of, count),
         NEW a \in Address, rec[a] # NoRecord, NEW k \in KycRecord
  PROVE  FiledAs([rec EXCEPT ![a] = k], pages, page_len, page_of, count)
<1> DEFINE recs == [rec EXCEPT ![a] = k]
<1>1. rec \in [Address -> KycRecord \union {NoRecord}]
  BY DEF FiledAs
<1>2. /\ recs \in [Address -> KycRecord \union {NoRecord}]
      /\ \A b \in Address : recs[b] = NoRecord <=> rec[b] = NoRecord
  BY <1>1, NotARecord
<1> HIDE DEF recs
<1>3. People(recs) = People(rec)
  BY <1>2 DEF People
<1>4. FiledAs(recs, pages, page_len, page_of, count)
  BY <1>2, <1>3 DEF FiledAs
<1> QED
  BY <1>4 DEF recs

\* Somebody on file is taken off the page the index names.
LEMMA LeaverFiled ==
  ASSUME NEW rec, NEW pages, NEW page_len, NEW page_of, NEW count,
         FiledAs(rec, pages, page_len, page_of, count),
         NEW a \in Address, rec[a] # NoRecord
  PROVE  /\ page_of[a] # 0 /\ count # 0
         /\ Len([pages EXCEPT ![page_of[a]] = Without(@, {a})]) = Len(pages)
         /\ FiledAs([rec EXCEPT ![a] = NoRecord],
                    [pages EXCEPT ![page_of[a]] = Without(@, {a})], page_len,
                    [page_of EXCEPT ![a] = 0], count - 1)
<1> DEFINE n == Len(pages)
           m == page_of[a]
           less == [pages EXCEPT ![m] = Without(@, {a})]
           recs == [rec EXCEPT ![a] = NoRecord]
           index == [page_of EXCEPT ![a] = 0]
<1>1. /\ pages \in Seq(Seq(Address)) /\ pages # <<>>
      /\ rec \in [Address -> KycRecord \union {NoRecord}]
      /\ page_of \in [Address -> Nat] /\ count \in Nat
      /\ page_len \in 0..SIZE /\ SIZE \in Nat
      /\ Cardinality(People(rec)) <= count
      /\ Len(pages[n]) <= page_len
  BY ConstantsAssumption DEF FiledAs, SIZE
<1>2. /\ n \in Nat \ {0} /\ n \in 1..n
      /\ \A p \in 1..n : pages[p] \in Seq(Address) /\ Len(pages[p]) \in Nat
  BY <1>1, PagesTyped
<1>3. /\ \A p \in 1..n : Distinct(pages[p]) /\ Len(pages[p]) <= SIZE
      /\ \A p \in 1..n, b \in Address : In(b, pages[p]) => rec[b] # NoRecord /\ page_of[b] = p
      /\ \A b \in People(rec) : page_of[b] \in 1..n /\ In(b, pages[page_of[b]])
      /\ \A b \in Address : rec[b] = NoRecord => page_of[b] = 0
  BY DEF FiledAs
<1>4. a \in People(rec) /\ m \in 1..n /\ m # 0
  <2>1. a \in People(rec)
    BY DEF People
  <2> QED
    BY <1>2, <1>3, <2>1
<1>5. /\ Without(pages[m], {a}) \in Seq(Address)
      /\ Len(Without(pages[m], {a})) <= Len(pages[m])
      /\ Len(Without(pages[m], {a})) \in Nat
      /\ \A x : In(x, Without(pages[m], {a})) <=> (In(x, pages[m]) /\ x # a)
      /\ Distinct(Without(pages[m], {a}))
  <2>1. pages[m] \in Seq(Address) /\ Distinct(pages[m])
    BY <1>2, <1>3, <1>4
  <2> QED
    BY <2>1, WithoutKeeps, LenProperties
<1>6. /\ less \in Seq(Seq(Address)) /\ Len(less) = n
      /\ less[m] = Without(pages[m], {a})
      /\ \A p \in 1..n : p # m => less[p] = pages[p]
  BY <1>1, <1>4, <1>5, PageReplaced
<1>7. less # <<>>
  BY <1>2, <1>6, EmptySeq
<1>8. /\ recs \in [Address -> KycRecord \union {NoRecord}]
      /\ recs[a] = NoRecord
      /\ \A b \in Address : b # a => recs[b] = rec[b]
  BY <1>1
<1>9. /\ index \in [Address -> Nat] /\ index[a] = 0
      /\ \A b \in Address : b # a => index[b] = page_of[b]
  BY <1>1
<1> HIDE DEF less, recs, index, n, m
<1>10. ASSUME NEW p \in 1..n
       PROVE  /\ Distinct(less[p]) /\ Len(less[p]) <= SIZE /\ Len(less[p]) <= Len(pages[p])
              /\ \A b \in Address : In(b, less[p]) => recs[b] # NoRecord /\ index[b] = p
  <2>1. /\ Len(pages[p]) \in Nat /\ Len(pages[p]) <= SIZE /\ Distinct(pages[p])
        /\ \A b \in Address : In(b, pages[p]) => rec[b] # NoRecord /\ page_of[b] = p
    BY <1>2, <1>3
  <2>2. /\ Distinct(less[p]) /\ Len(less[p]) \in Nat /\ Len(less[p]) <= Len(pages[p])
        /\ \A b \in Address : In(b, less[p]) => In(b, pages[p]) /\ b # a
    <3>1. CASE p = m
      BY <1>5, <1>6, <3>1
    <3>2. CASE p # m
      <4>1. less[p] = pages[p]
        BY <1>6, <3>2
      <4>2. ~In(a, pages[p])
        BY <2>1, <3>2 DEF m
      <4> QED
        BY <2>1, <4>1, <4>2
    <3> QED
      BY <3>1, <3>2
  <2>3. Len(less[p]) <= SIZE
    BY <1>1, <2>1, <2>2
  <2>4. ASSUME NEW b \in Address, In(b, less[p]) PROVE recs[b] # NoRecord /\ index[b] = p
    BY <1>8, <1>9, <2>1, <2>2, <2>4
  <2> QED
    BY <2>2, <2>3, <2>4
<1>11. Len(less[n]) <= page_len
  <2>1. Len(less[n]) \in Nat /\ Len(less[n]) <= Len(pages[n])
    BY <1>2, <1>5, <1>6, <1>10
  <2> QED
    BY <1>1, <1>2, <2>1
<1>12. ASSUME NEW b \in People(recs) PROVE index[b] \in 1..n /\ In(b, less[index[b]])
  <2>1. b \in Address /\ b # a /\ b \in People(rec) /\ index[b] = page_of[b]
    BY <1>8, <1>9 DEF People
  <2>2. page_of[b] \in 1..n /\ In(b, pages[page_of[b]])
    BY <1>3, <2>1
  <2> QED
    BY <1>5, <1>6, <2>1, <2>2
<1>13. \A b \in Address : recs[b] = NoRecord => index[b] = 0
  BY <1>3, <1>8, <1>9
<1>14. count # 0 /\ Cardinality(People(recs)) <= count - 1 /\ count - 1 \in Nat
  <2>1. People(recs) = People(rec) \ {a}
    BY <1>8 DEF People
  <2>2. IsFiniteSet(People(rec))
    BY ConstantsAssumption, FS_Subset DEF People
  <2>3. /\ Cardinality(People(recs)) = Cardinality(People(rec)) - 1
        /\ Cardinality(People(rec)) \in Nat /\ Cardinality(People(recs)) \in Nat
    BY <1>4, <2>1, <2>2, FS_RemoveElement, FS_CardinalityType
  <2> QED
    BY <1>1, <2>3
<1>15. FiledAs(recs, less, page_len, index, count - 1)
  BY <1>1, <1>6, <1>7, <1>8, <1>9, <1>10, <1>11, <1>12, <1>13, <1>14 DEF FiledAs
<1> QED
  BY <1>4, <1>6, <1>14, <1>15 DEF less, recs, index, m, n

\* What a pruning call makes of records, pages and page index.
RecordsAfterPruning(rec, lapsed) == [a \in Address |-> IF a \in lapsed THEN NoRecord ELSE rec[a]]

PagesAfterPruning(pages, gone) == [p \in DOMAIN pages |-> Without(pages[p], gone)]

IndexAfterPruning(page_of, lapsed) == [a \in Address |-> IF a \in lapsed THEN 0 ELSE page_of[a]]

\* The lapsed have a record, the stray have none.
Prunable(rec, lapsed, stray) == lapsed \subseteq People(rec) /\ stray \intersect People(rec) = {}

\* Several people are taken off all pages at once.
LEMMA PruningFiled ==
  ASSUME NEW rec, NEW pages, NEW page_len, NEW page_of, NEW count,
         FiledAs(rec, pages, page_len, page_of, count),
         NEW lapsed, NEW stray, Prunable(rec, lapsed, stray)
  PROVE  /\ Len(PagesAfterPruning(pages, lapsed \union stray)) = Len(pages)
         /\ FiledAs(RecordsAfterPruning(rec, lapsed),
                    PagesAfterPruning(pages, lapsed \union stray),
                    page_len, IndexAfterPruning(page_of, lapsed), count)
<1> DEFINE n == Len(pages)
           gone == lapsed \union stray
           less == PagesAfterPruning(pages, gone)
           recs == RecordsAfterPruning(rec, lapsed)
           index == IndexAfterPruning(page_of, lapsed)
<1>1. /\ pages \in Seq(Seq(Address)) /\ pages # <<>>
      /\ rec \in [Address -> KycRecord \union {NoRecord}]
      /\ page_of \in [Address -> Nat] /\ count \in Nat
      /\ page_len \in 0..SIZE /\ SIZE \in Nat
      /\ Cardinality(People(rec)) <= count
      /\ Len(pages[n]) <= page_len
  BY ConstantsAssumption DEF FiledAs, SIZE
<1>2. /\ n \in Nat \ {0} /\ n \in 1..n
      /\ \A p \in 1..n : pages[p] \in Seq(Address) /\ Len(pages[p]) \in Nat
  BY <1>1, PagesTyped
<1>3. /\ \A p \in 1..n : Distinct(pages[p]) /\ Len(pages[p]) <= SIZE
      /\ \A p \in 1..n, b \in Address : In(b, pages[p]) => rec[b] # NoRecord /\ page_of[b] = p
      /\ \A b \in People(rec) : page_of[b] \in 1..n /\ In(b, pages[page_of[b]])
      /\ \A b \in Address : rec[b] = NoRecord => page_of[b] = 0
  BY DEF FiledAs
<1>4. DOMAIN pages = 1..n
  <2> DEFINE X == Seq(Address)
  <2>1. pages \in Seq(X)
    BY <1>1
  <2> HIDE DEF X
  <2> QED
    BY <2>1, LenProperties
<1>5. ASSUME NEW p \in 1..n
      PROVE  /\ less[p] \in Seq(Address)
             /\ Len(less[p]) \in Nat /\ Len(less[p]) <= Len(pages[p])
             /\ \A x : In(x, less[p]) <=> (In(x, pages[p]) /\ x \notin gone)
             /\ Distinct(less[p])
  <2>1. less[p] = Without(pages[p], gone)
    BY <1>4 DEF PagesAfterPruning
  <2>2. pages[p] \in Seq(Address) /\ Distinct(pages[p])
    BY <1>2, <1>3
  <2> HIDE DEF less, gone, n
  <2> QED
    BY <2>1, <2>2, WithoutKeeps, LenProperties
<1>6. less \in Seq(Seq(Address)) /\ Len(less) = n
  <2> DEFINE X == Seq(Address)
  <2>1. less \in [1..n -> X]
    <3>1. less = [p \in 1..n |-> less[p]]
      BY <1>4 DEF PagesAfterPruning
    <3> HIDE DEF less
    <3> QED
      BY <1>5, <3>1
  <2> HIDE DEF X, less, n
  <2>2. less \in Seq(X)
    BY <1>2, <2>1, SeqDef
  <2>3. Len(less) \in Nat /\ DOMAIN less = 1..Len(less)
    BY <2>2, LenProperties
  <2>4. Len(less) = n
    BY <1>2, <2>1, <2>3
  <2> QED
    BY <2>2, <2>4 DEF X
<1>7. less # <<>>
  BY <1>2, <1>6, EmptySeq
<1>8. /\ recs \in [Address -> KycRecord \union {NoRecord}]
      /\ \A b \in Address : recs[b] = NoRecord <=> (b \in lapsed \/ rec[b] = NoRecord)
  BY <1>1 DEF RecordsAfterPruning
<1>9. /\ index \in [Address -> Nat]
      /\ \A b \in Address : index[b] = IF b \in lapsed THEN 0 ELSE page_of[b]
  BY <1>1 DEF IndexAfterPruning
<1> HIDE DEF less, recs, index, n
<1>10. ASSUME NEW p \in 1..n
       PROVE  /\ Distinct(less[p]) /\ Len(less[p]) <= SIZE
              /\ \A b \in Address : In(b, less[p]) => recs[b] # NoRecord /\ index[b] = p
  <2>1. Len(less[p]) <= SIZE
    <3>1. Len(less[p]) \in Nat /\ Len(less[p]) <= Len(pages[p])
      BY <1>5
    <3>2. Len(pages[p]) \in Nat /\ Len(pages[p]) <= SIZE
      BY <1>2, <1>3
    <3> QED
      BY <1>1, <3>1, <3>2
  <2>2. \A b \in Address : In(b, less[p]) => recs[b] # NoRecord /\ index[b] = p
    BY <1>3, <1>5, <1>8, <1>9
  <2> QED
    BY <1>5, <2>1, <2>2
<1>11. Len(less[n]) <= page_len
  BY <1>1, <1>2, <1>5
<1>12. ASSUME NEW b \in People(recs) PROVE index[b] \in 1..n /\ In(b, less[index[b]])
  <2>1. b \in Address /\ b \notin lapsed /\ b \in People(rec) /\ index[b] = page_of[b]
    BY <1>8, <1>9 DEF People
  <2>2. page_of[b] \in 1..n /\ In(b, pages[page_of[b]]) /\ b \notin gone
    BY <1>3, <2>1 DEF Prunable
  <2> QED
    BY <1>5, <2>1, <2>2
<1>13. \A b \in Address : recs[b] = NoRecord => index[b] = 0
  BY <1>3, <1>8, <1>9
<1>14. Cardinality(People(recs)) <= count
  <2>1. People(recs) \subseteq People(rec)
    BY <1>8 DEF People
  <2>2. IsFiniteSet(People(rec))
    BY ConstantsAssumption, FS_Subset DEF People
  <2>3. /\ Cardinality(People(recs)) <= Cardinality(People(rec))
        /\ Cardinality(People(rec)) \in Nat /\ Cardinality(People(recs)) \in Nat
    BY <2>1, <2>2, FS_Subset, FS_CardinalityType
  <2> QED
    BY <1>1, <2>3
<1>15. FiledAs(recs, less, page_len, index, count)
  BY <1>1, <1>6, <1>7, <1>8, <1>9, <1>10, <1>11, <1>12, <1>13, <1>14 DEF FiledAs
<1> QED
  BY <1>6, <1>15 DEF less, recs, index, n

-----------------------------------------------------------------------------
(* Records and roster together. *)

Roster == [pages : Seq(Seq(Address)), page_len : 0..SIZE,
           page_of : [Address -> Nat], count : Nat]

Entry == [address : Address, spelling : Spelling, expires_at : Expiry]

FiledBooks == {b \in [record : [Address -> KycRecord \union {NoRecord}], roster : Roster] :
                  Filed(b.record, b.roster)}

LEMMA SizeType == SIZE \in Nat \ {0}
BY ConstantsAssumption DEF SIZE

LEMMA FiledRoster ==
  ASSUME NEW rec, NEW pages, NEW page_len, NEW page_of, NEW count,
         FiledAs(rec, pages, page_len, page_of, count)
  PROVE  LET r == [pages |-> pages, page_len |-> page_len, page_of |-> page_of, count |-> count]
         IN  [record |-> rec, roster |-> r] \in FiledBooks
BY DEF FiledAs, FiledBooks, Filed, Roster

\* Appending files a newcomer, on the page being filled or on a fresh one.
LEMMA AppendedFiled ==
  ASSUME NEW b \in FiledBooks, NEW a \in Address, b.record[a] = NoRecord, NEW k \in KycRecord
  PROVE  [record |-> [b.record EXCEPT ![a] = k], roster |-> Appended(b.roster, a)] \in FiledBooks
<1> DEFINE rec == b.record
           r == b.roster
           recs == [rec EXCEPT ![a] = k]
<1>1. FiledAs(rec, r.pages, r.page_len, r.page_of, r.count) /\ r.page_len \in 0..SIZE
  BY DEF FiledBooks, Filed, Roster
<1>2. rec[a] = NoRecord
  OBVIOUS
<1> HIDE DEF rec, r
<1>3. CASE r.page_len >= SIZE
  <2> DEFINE more == Append(r.pages, <<>>)
             filled == [more EXCEPT ![Len(more)] = Append(@, a)]
             index == [r.page_of EXCEPT ![a] = Len(more)]
  <2>1. FiledAs(rec, more, 0, r.page_of, r.count)
    BY <1>1, PageOpened
  <2>2. 0 < SIZE /\ 0 + 1 = 1
    BY SizeType
  <2> HIDE DEF more
  <2>3. FiledAs(recs, filled, 0 + 1, index, r.count + 1)
    BY <1>2, <2>1, <2>2, NewcomerFiled
  <2>4. Appended(r, a) = [pages |-> filled, page_len |-> 0 + 1, page_of |-> index,
                          count |-> r.count + 1]
    BY <1>3, <2>2 DEF Appended, more, SIZE
  <2> HIDE DEF filled, index, recs
  <2> QED
    BY <2>3, <2>4, FiledRoster DEF recs, rec, r
<1>4. CASE ~(r.page_len >= SIZE)
  <2> DEFINE filled == [r.pages EXCEPT ![Len(r.pages)] = Append(@, a)]
             index == [r.page_of EXCEPT ![a] = Len(r.pages)]
  <2>1. r.page_len < SIZE
    BY <1>1, <1>4, SizeType
  <2>2. FiledAs(recs, filled, r.page_len + 1, index, r.count + 1)
    BY <1>1, <1>2, <2>1, NewcomerFiled
  <2>3. Appended(r, a) = [pages |-> filled, page_len |-> r.page_len + 1, page_of |-> index,
                          count |-> r.count + 1]
    BY <1>4 DEF Appended, SIZE
  <2> HIDE DEF filled, index, recs
  <2> QED
    BY <2>2, <2>3, FiledRoster DEF recs, rec, r
<1> QED
  BY <1>3, <1>4

\* One entry of a batch keeps the books filed.
LEMMA EnrolledFiled ==
  ASSUME NEW b \in FiledBooks, NEW entry \in Entry, Canonical[entry.spelling] # Invalid
  PROVE  Enrolled(b, entry) \in FiledBooks
<1> DEFINE a == entry.address
           k == Approval(entry)
<1>1. a \in Address /\ k \in KycRecord
  BY DEF Entry, Approval, KycRecord, Jurisdiction
<1>2. Enrolled(b, entry) =
        [record |-> [b.record EXCEPT ![a] = k],
         roster |-> IF b.record[a] # NoRecord THEN b.roster ELSE Appended(b.roster, a)]
  BY DEF Enrolled
<1> HIDE DEF a, k
<1>3. CASE b.record[a] = NoRecord
  BY <1>1, <1>2, <1>3, AppendedFiled
<1>4. CASE b.record[a] # NoRecord
  <2> DEFINE recs == [b.record EXCEPT ![a] = k]
  <2>1. FiledAs(b.record, b.roster.pages, b.roster.page_len, b.roster.page_of, b.roster.count)
    BY DEF FiledBooks, Filed
  <2>2. FiledAs(recs, b.roster.pages, b.roster.page_len, b.roster.page_of, b.roster.count)
    BY <1>1, <1>4, <2>1, RecordReplaced
  <2>3. recs \in [Address -> KycRecord \union {NoRecord}] /\ b.roster \in Roster
    <3>1. b.roster \in Roster
      BY DEF FiledBooks
    <3> HIDE DEF recs
    <3> QED
      BY <2>2, <3>1 DEF FiledAs
  <2>4. Enrolled(b, entry) = [record |-> recs, roster |-> b.roster]
    BY <1>2, <1>4
  <2> HIDE DEF recs
  <2> QED
    BY <2>2, <2>3, <2>4 DEF FiledBooks, Filed
<1> QED
  BY <1>3, <1>4

\* The books after every prefix of a batch.
LEMMA EnrolmentFiled ==
  ASSUME NEW entries \in Seq(Entry),
         \A i \in 1..Len(entries) : Canonical[entries[i].spelling] # Invalid,
         [record |-> record, roster |-> roster] \in FiledBooks
  PROVE  /\ \A i \in 0..Len(entries) : EnrolmentRun(entries)[i] \in FiledBooks
         /\ EnrolmentRun(entries)[0] = [record |-> record, roster |-> roster]
         /\ \A i \in 1..Len(entries) :
               EnrolmentRun(entries)[i] = Enrolled(EnrolmentRun(entries)[i - 1], entries[i])
<1> DEFINE N == Len(entries)
           X == FiledBooks
           start == [record |-> record, roster |-> roster]
           step == [t \in (1..N) \X X |-> Enrolled(t[2], entries[t[1]])]
           IsRun(g) == g = [i \in 0..N |-> IF i = 0 THEN start ELSE Enrolled(g[i - 1], entries[i])]
           run == CHOOSE g : IsRun(g)
<1>1. N \in Nat /\ start \in X
  BY LenProperties
<1>2. ASSUME NEW i \in 1..N, NEW b \in X PROVE Enrolled(b, entries[i]) \in X
  <2>1. entries[i] \in Entry /\ Canonical[entries[i].spelling] # Invalid
    BY ElementOfSeq
  <2> QED
    BY <2>1, EnrolledFiled
<1>3. EnrolmentRun(entries) = run
  BY DEF EnrolmentRun
<1> HIDE DEF X, start, N
<1>4. step \in [(1..N) \X X -> X]
  BY <1>2
<1>5. PICK g \in [0..N -> X] : Loops(g, N, start, step)
  <2> HIDE DEF step
  <2> QED
    BY <1>1, <1>4, LoopRuns
<1>6. ASSUME NEW i \in 1..N PROVE g[i] = Enrolled(g[i - 1], entries[i])
  <2>1. i - 1 \in 0..N
    BY <1>1
  <2>2. <<i, g[i - 1]>> \in (1..N) \X X
    BY <2>1
  <2> QED
    BY <1>5, <2>2 DEF Loops
<1>7. IsRun(g)
  <2>1. \A i \in 0..N : g[i] = IF i = 0 THEN start ELSE Enrolled(g[i - 1], entries[i])
    BY <1>1, <1>5, <1>6 DEF Loops
  <2> QED
    BY <2>1
<1>8. IsRun(run)
  <2> HIDE DEF IsRun
  <2> QED
    BY <1>7
<1> HIDE DEF run
<1>9. \A i \in 0..N : run[i] = g[i]
  <2>1. run[0] = start /\ \A i \in 1..N : run[i] = Enrolled(run[i - 1], entries[i])
    BY <1>1, <1>8
  <2>2. InStep(run, g, N)
    BY <1>5, <1>6, <2>1 DEF InStep, Loops
  <2> QED
    BY <1>1, <2>2, LoopRunsAgree
<1>10. run[0] = start /\ \A i \in 1..N : run[i] = Enrolled(run[i - 1], entries[i])
  BY <1>1, <1>8
<1> QED
  BY <1>3, <1>5, <1>9, <1>10 DEF N, X, start

\* Removing somebody on file.
LEMMA RemovedFiled ==
  ASSUME NEW rec, NEW r \in Roster, Filed(rec, r), NEW a \in Address, rec[a] # NoRecord
  PROVE  /\ [record |-> [rec EXCEPT ![a] = NoRecord], roster |-> RemovedFrom(r, a)] \in FiledBooks
         /\ Len(RemovedFrom(r, a).pages) = Len(r.pages)
<1> DEFINE recs == [rec EXCEPT ![a] = NoRecord]
           less == [r.pages EXCEPT ![r.page_of[a]] = Without(@, {a})]
           index == [r.page_of EXCEPT ![a] = 0]
<1>1. FiledAs(rec, r.pages, r.page_len, r.page_of, r.count)
  BY DEF Filed
<1>2. /\ r.page_of[a] # 0 /\ r.count # 0 /\ Len(less) = Len(r.pages)
      /\ FiledAs(recs, less, r.page_len, index, r.count - 1)
  <2>1. \A pages, page_len, page_of, count : FiledAs(rec, pages, page_len, page_of, count) =>
           /\ page_of[a] # 0 /\ count # 0
           /\ Len([pages EXCEPT ![page_of[a]] = Without(@, {a})]) = Len(pages)
           /\ FiledAs(recs, [pages EXCEPT ![page_of[a]] = Without(@, {a})], page_len,
                      [page_of EXCEPT ![a] = 0], count - 1)
    BY LeaverFiled
  <2> QED
    BY <1>1, <2>1
<1>3. RemovedFrom(r, a) = [pages |-> less, page_len |-> r.page_len, page_of |-> index,
                           count |-> r.count - 1]
  BY <1>2 DEF RemovedFrom
<1> HIDE DEF recs, less, index
<1>4. [record |-> recs, roster |-> RemovedFrom(r, a)] \in FiledBooks
  BY <1>2, <1>3, FiledRoster
<1>5. Len(RemovedFrom(r, a).pages) = Len(r.pages)
  BY <1>2, <1>3
<1> QED
  BY <1>4, <1>5 DEF recs

\* What a pruning call makes of a roster.
Pruned(r, lapsed, gone) ==
    [r EXCEPT !.pages = PagesAfterPruning(@, gone), !.page_of = IndexAfterPruning(@, lapsed)]

LEMMA PrunedFiled ==
  ASSUME NEW rec, NEW r \in Roster, Filed(rec, r),
         NEW lapsed, NEW stray, Prunable(rec, lapsed, stray)
  PROVE  /\ [record |-> RecordsAfterPruning(rec, lapsed),
             roster |-> Pruned(r, lapsed, lapsed \union stray)] \in FiledBooks
         /\ Len(Pruned(r, lapsed, lapsed \union stray).pages) = Len(r.pages)
<1> DEFINE recs == RecordsAfterPruning(rec, lapsed)
           less == PagesAfterPruning(r.pages, lapsed \union stray)
           index == IndexAfterPruning(r.page_of, lapsed)
<1>1. FiledAs(rec, r.pages, r.page_len, r.page_of, r.count)
  BY DEF Filed
<1>2. FiledAs(recs, less, r.page_len, index, r.count) /\ Len(less) = Len(r.pages)
  <2>1. \A pages, page_len, page_of, count : FiledAs(rec, pages, page_len, page_of, count) =>
           /\ FiledAs(recs, PagesAfterPruning(pages, lapsed \union stray), page_len,
                      IndexAfterPruning(page_of, lapsed), count)
           /\ Len(PagesAfterPruning(pages, lapsed \union stray)) = Len(pages)
    BY PruningFiled
  <2> QED
    BY <1>1, <2>1
<1>3. Pruned(r, lapsed, lapsed \union stray) =
        [pages |-> less, page_len |-> r.page_len, page_of |-> index, count |-> r.count]
  <2>1. r = [pages |-> r.pages, page_len |-> r.page_len, page_of |-> r.page_of,
             count |-> r.count]
    BY DEF Roster
  <2>2. Pruned(r, lapsed, lapsed \union stray) = [r EXCEPT !.pages = less, !.page_of = index]
    BY DEF Pruned
  <2> HIDE DEF less, index
  <2> QED
    BY <2>1, <2>2
<1> HIDE DEF recs, less, index
<1>4. [record |-> recs, roster |-> Pruned(r, lapsed, lapsed \union stray)] \in FiledBooks
  BY <1>2, <1>3, FiledRoster
<1>5. Len(Pruned(r, lapsed, lapsed \union stray).pages) = Len(r.pages)
  BY <1>2, <1>3
<1> QED
  BY <1>4, <1>5 DEF recs

-----------------------------------------------------------------------------
(* The inductive invariant. *)

\* Records and roster are filed, and the published list of jurisdictions has
\* each blocked one once.
Consistent ==
    /\ TypeOK
    /\ Filed(record, roster)
    /\ Distinct(blocked_list)
    /\ \A j \in Jurisdiction : In(j, blocked_list) <=> j \in blocked

\* What a step may make of records and roster.
BooksFiled(rec, r) == [record |-> rec, roster |-> r] \in FiledBooks /\ Len(r.pages) <= MaxPages

BooksOK ==
    /\ record \in [Address -> KycRecord \union {NoRecord}]
    /\ roster \in [pages : Seq(Seq(Address)), page_len : 0..ALLOWLIST_PAGE_SIZE,
                   page_of : [Address -> 0..MaxPages], count : Nat]
    /\ Len(roster.pages) \in 1..MaxPages
    /\ Filed(record, roster)

\* Everything in Consistent but records and roster.
RestOK ==
    /\ admin \in Address \union {NoAddress}
    /\ pending_admin \in Address \union {NoAddress}
    /\ blocked \subseteq Jurisdiction
    /\ blocked_list \in Seq(Jurisdiction)
    /\ min_holding \in [Address -> MinLedgers \union {0}]
    /\ first_acquired \in [Address -> 0..MaxLedger]
    /\ ledger \in 1..MaxLedger
    /\ signer \in Address \union {NoAddress}
    /\ Distinct(blocked_list)
    /\ \A j \in Jurisdiction : In(j, blocked_list) <=> j \in blocked

LEMMA ConsistentParts == Consistent <=> BooksOK /\ RestOK
BY DEF Consistent, TypeOK, BooksOK, RestOK

LEMMA FiledBooksTyped ==
  ASSUME NEW rec, NEW r, BooksFiled(rec, r)
  PROVE  /\ rec \in [Address -> KycRecord \union {NoRecord}]
         /\ r \in [pages : Seq(Seq(Address)), page_len : 0..ALLOWLIST_PAGE_SIZE,
                   page_of : [Address -> 0..MaxPages], count : Nat]
         /\ Len(r.pages) \in 1..MaxPages
         /\ Filed(rec, r)
<1>1. /\ r \in Roster /\ rec \in [Address -> KycRecord \union {NoRecord}]
      /\ FiledAs(rec, r.pages, r.page_len, r.page_of, r.count)
      /\ Len(r.pages) <= MaxPages /\ Filed(rec, r)
  BY DEF BooksFiled, FiledBooks, Filed
<1>2. /\ r.pages \in Seq(Seq(Address)) /\ r.pages # <<>> /\ r.page_len \in 0..SIZE
      /\ r.page_of \in [Address -> Nat] /\ r.count \in Nat
  BY <1>1 DEF FiledAs
<1>3. Len(r.pages) \in Nat \ {0} /\ MaxPages \in Nat
  BY <1>2, PagesTyped, ConstantsAssumption
<1>4. \A a \in Address : r.page_of[a] \in 0..MaxPages
  <2> SUFFICES ASSUME NEW a \in Address PROVE r.page_of[a] \in 0..MaxPages
    OBVIOUS
  <2>1. CASE rec[a] = NoRecord
    <3>1. r.page_of[a] = 0
      BY <1>1, <2>1 DEF FiledAs
    <3> QED
      BY <1>3, <3>1
  <2>2. CASE rec[a] # NoRecord
    <3>1. r.page_of[a] \in 1..Len(r.pages)
      BY <1>1, <2>2 DEF FiledAs, People
    <3> QED
      BY <1>1, <1>3, <3>1
  <2> QED
    BY <2>1, <2>2
<1>5. r.page_of \in [Address -> 0..MaxPages]
  BY <1>2, <1>4
<1>6. r \in [pages : Seq(Seq(Address)), page_len : 0..SIZE,
             page_of : [Address -> 0..MaxPages], count : Nat]
  BY <1>1, <1>5 DEF Roster
<1> QED
  BY <1>1, <1>3, <1>6 DEF SIZE

LEMMA BooksAreFiled == BooksOK => BooksFiled(record, roster) /\ roster \in Roster
<1> SUFFICES ASSUME BooksOK PROVE BooksFiled(record, roster) /\ roster \in Roster
  OBVIOUS
<1>1. FiledAs(record, roster.pages, roster.page_len, roster.page_of, roster.count)
  BY DEF BooksOK, Filed
<1>2. roster \in Roster
  <2>1. roster.page_of \in [Address -> Nat]
    BY <1>1 DEF FiledAs
  <2> QED
    BY <2>1 DEF BooksOK, Roster, SIZE
<1>3. Len(roster.pages) <= MaxPages
  BY ConstantsAssumption DEF BooksOK
<1> QED
  BY <1>2, <1>3 DEF BooksOK, BooksFiled, FiledBooks

LEMMA InitConsistent == Init => Consistent
<1> SUFFICES ASSUME Init PROVE Consistent
  OBVIOUS
<1> DEFINE none == [a \in Address |-> NoRecord]
           nowhere == [a \in Address |-> 0]
           first == << <<>> >>
<1>1. record = none /\ roster = [pages |-> first, page_len |-> 0, page_of |-> nowhere, count |-> 0]
  BY DEF Init
<1>2. FiledAs(none, first, 0, nowhere, 0)
  <2>1. first \in Seq(Seq(Address)) /\ first # <<>> /\ Len(first) = 1 /\ first[1] = <<>>
    OBVIOUS
  <2>2. People(none) = {}
    BY DEF People
  <2>3. Cardinality(People(none)) <= 0
    BY <2>2, FS_EmptySet
  <2>4. none \in [Address -> KycRecord \union {NoRecord}] /\ nowhere \in [Address -> Nat]
    OBVIOUS
  <2>5. \A p \in 1..1 : p = 1
    OBVIOUS
  <2>6. \A a \in Address : nowhere[a] = 0
    OBVIOUS
  <2>7. SIZE \in Nat /\ 0 \in 0..SIZE
    BY SizeType
  <2> HIDE DEF first, none, nowhere
  <2>8. \A p \in 1..Len(first) : first[p] = <<>>
    BY <2>1, <2>5
  <2>9. /\ \A p \in 1..Len(first) : Distinct(first[p]) /\ Len(first[p]) <= SIZE
        /\ \A p \in 1..Len(first), a \in Address : ~In(a, first[p])
        /\ Len(first[Len(first)]) <= 0
    BY <2>1, <2>7, <2>8, EmptyList
  <2> QED
    BY <2>1, <2>2, <2>3, <2>4, <2>6, <2>7, <2>9 DEF FiledAs
<1>3. BooksFiled(record, roster)
  <2>1. Len(first) <= MaxPages
    BY ConstantsAssumption
  <2> HIDE DEF first, none, nowhere
  <2> QED
    BY <1>1, <1>2, <2>1, FiledRoster DEF BooksFiled
<1>4. BooksOK
  BY <1>3, FiledBooksTyped DEF BooksOK
<1>5. RestOK
  <2>1. /\ blocked = {} /\ blocked_list = <<>> /\ admin = NoAddress /\ pending_admin = NoAddress
        /\ ledger = 1 /\ signer = NoAddress
        /\ min_holding = nowhere /\ first_acquired = nowhere
    BY DEF Init
  <2>2. ledger \in 1..MaxLedger /\ 0 \in 0..MaxLedger
    BY <2>1, ConstantsAssumption
  <2> QED
    BY <2>1, <2>2, EmptyList DEF RestOK
<1> QED
  BY <1>4, <1>5, ConsistentParts

-----------------------------------------------------------------------------
(* What the operations do to records and roster. *)

LEMMA BooksKept == BooksOK /\ UNCHANGED bookVars => BooksOK'
BY DEF BooksOK, bookVars

LEMMA BatchKeepsBooks ==
  ASSUME BooksOK, NEW caller \in Address, NEW entries \in Seq(Entry),
         AddToAllowlistBatch(caller, entries)
  PROVE  BooksOK'
<1> DEFINE books == EnrolmentRun(entries)[Len(entries)]
<1>1. [record |-> record, roster |-> roster] \in FiledBooks
  BY BooksAreFiled DEF BooksFiled
<1>2. \A i \in 1..Len(entries) : Canonical[entries[i].spelling] # Invalid
  <2>1. DOMAIN entries = 1..Len(entries)
    BY LenProperties
  <2> QED
    BY <2>1 DEF AddToAllowlistBatch, ValidEntry
<1>3. books \in FiledBooks
  <2>1. \A i \in 0..Len(entries) : EnrolmentRun(entries)[i] \in FiledBooks
    BY <1>1, <1>2, EnrolmentFiled
  <2>2. Len(entries) \in 0..Len(entries)
    BY LenProperties
  <2> QED
    BY <2>1, <2>2
<1>4. /\ Len(books.roster.pages) <= MaxPages
      /\ record' = books.record /\ roster' = books.roster
  BY DEF AddToAllowlistBatch
<1> HIDE DEF books
<1>5. BooksFiled(record', roster')
  BY <1>3, <1>4 DEF BooksFiled, FiledBooks
<1> QED
  BY <1>5, FiledBooksTyped DEF BooksOK

LEMMA RemoveKeepsBooks ==
  ASSUME BooksOK, NEW caller \in Address, NEW a \in Address, Remove(caller, a)
  PROVE  BooksOK'
<1>1. /\ record[a] # NoRecord /\ record' = [record EXCEPT ![a] = NoRecord]
      /\ roster' = RemovedFrom(roster, a)
  BY DEF Remove, Recorded
<1>2. Filed(record, roster) /\ roster \in Roster /\ Len(roster.pages) <= MaxPages
  BY BooksAreFiled DEF BooksOK, BooksFiled
<1>3. /\ [record |-> [record EXCEPT ![a] = NoRecord], roster |-> RemovedFrom(roster, a)] \in FiledBooks
      /\ Len(RemovedFrom(roster, a).pages) = Len(roster.pages)
  BY <1>1, <1>2, RemovedFiled
<1>4. BooksFiled(record', roster')
  BY <1>1, <1>2, <1>3 DEF BooksFiled
<1> QED
  BY <1>4, FiledBooksTyped DEF BooksOK

LEMMA ExaminedOnFile ==
  ASSUME BooksOK, NEW n \in Nat
  PROVE  Examined(n) \subseteq Address
<1> DEFINE list == GetAllowlist
           k == IF n = 0 THEN Len(list) ELSE Least(n, Len(list))
<1>1. roster.pages \in Seq(Seq(Address)) /\ roster.pages # <<>>
  BY DEF BooksOK, Filed, FiledAs
<1>2. list \in Seq(Address)
  BY <1>1, FlattenedItems DEF GetAllowlist
<1>3. Examined(n) = {list[i] : i \in 1..k}
  BY DEF Examined
<1> HIDE DEF list
<1>4. Len(list) \in Nat /\ k \in Nat /\ k <= Len(list)
  BY <1>2, LenProperties DEF Least
<1>5. \A i \in 1..k : list[i] \in Address
  BY <1>2, <1>4, ElementOfSeq
<1> QED
  BY <1>3, <1>5

LEMMA PruneKeepsBooks ==
  ASSUME BooksOK, NEW caller \in Address, NEW n \in Nat, PruneExpired(caller, n)
  PROVE  BooksOK'
<1> DEFINE lapsed == {a \in Examined(n) : Recorded(a) /\ Lapsed(record[a])}
           stray == {a \in Examined(n) : ~Recorded(a)}
<1>1. /\ record' = RecordsAfterPruning(record, lapsed)
      /\ roster' = Pruned(roster, lapsed, lapsed \union stray)
  BY DEF PruneExpired, RecordsAfterPruning, Pruned, PagesAfterPruning, IndexAfterPruning
<1>2. Filed(record, roster) /\ roster \in Roster /\ Len(roster.pages) <= MaxPages
  BY BooksAreFiled DEF BooksOK, BooksFiled
<1>3. Prunable(record, lapsed, stray)
  BY ExaminedOnFile DEF Prunable, People, Recorded
<1> HIDE DEF lapsed, stray
<1>4. /\ [record |-> RecordsAfterPruning(record, lapsed),
          roster |-> Pruned(roster, lapsed, lapsed \union stray)] \in FiledBooks
      /\ Len(Pruned(roster, lapsed, lapsed \union stray).pages) = Len(roster.pages)
  BY <1>2, <1>3, PrunedFiled
<1>5. BooksFiled(record', roster')
  BY <1>1, <1>2, <1>4 DEF BooksFiled
<1> QED
  BY <1>5, FiledBooksTyped DEF BooksOK

LEMMA StatusKeepsBooks ==
  ASSUME BooksOK, NEW a \in Address, Recorded(a), NEW s \in {"Approved", "Suspended"},
         record' = [record EXCEPT ![a].status = s], roster' = roster
  PROVE  BooksOK'
<1> DEFINE k == [record[a] EXCEPT !.status = s]
<1>1. /\ FiledAs(record, roster.pages, roster.page_len, roster.page_of, roster.count)
      /\ record[a] # NoRecord /\ roster \in Roster /\ Len(roster.pages) <= MaxPages
  BY BooksAreFiled DEF BooksOK, BooksFiled, Filed, Recorded
<1>2. k \in KycRecord
  <2>1. record[a] \in KycRecord
    BY <1>1 DEF BooksOK
  <2> QED
    BY <2>1 DEF KycRecord
<1>3. record' = [record EXCEPT ![a] = k]
  OBVIOUS
<1> HIDE DEF k
<1>4. FiledAs(record', roster.pages, roster.page_len, roster.page_of, roster.count)
  <2>1. FiledAs([record EXCEPT ![a] = k], roster.pages, roster.page_len, roster.page_of,
                roster.count)
    BY <1>1, <1>2, RecordReplaced
  <2> QED
    BY <1>3, <2>1
<1>5. record' \in [Address -> KycRecord \union {NoRecord}]
  BY <1>4 DEF FiledAs
<1>6. BooksFiled(record', roster')
  BY <1>1, <1>4, <1>5 DEF BooksFiled, FiledBooks, Filed
<1> QED
  BY <1>6, FiledBooksTyped DEF BooksOK

-----------------------------------------------------------------------------
(* What they do to the rest. *)

LEMMA RestKept ==
  ASSUME RestOK, UNCHANGED <<roleVars, blockVars, holdingVars, ledger>>,
         signer' \in Address \union {NoAddress}
  PROVE  RestOK'
BY DEF RestOK, roleVars, blockVars, holdingVars

LEMMA BlockKeepsRest ==
  ASSUME RestOK, NEW caller \in Address, NEW s \in Spelling, BlockJurisdiction(caller, s)
  PROVE  RestOK'
<1> DEFINE j == Canonical[s]
<1>1. j \in Jurisdiction
  BY DEF BlockJurisdiction, Jurisdiction
<1>2. /\ blocked' = blocked \union {j}
      /\ blocked_list' = IF j \in blocked THEN blocked_list ELSE Append(blocked_list, j)
      /\ UNCHANGED <<roleVars, holdingVars, ledger>> /\ signer' = caller
  BY DEF BlockJurisdiction, ListedAfterBlock, RequireAdmin, RequireAuth
<1> HIDE DEF j
<1>3. CASE j \in blocked
  <2>1. blocked' = blocked /\ blocked_list' = blocked_list
    BY <1>2, <1>3
  <2> QED
    BY <1>2, <2>1, RestKept DEF blockVars
<1>4. CASE j \notin blocked
  <2>1. /\ blocked_list \in Seq(Jurisdiction) /\ Distinct(blocked_list)
        /\ \A i \in Jurisdiction : In(i, blocked_list) <=> i \in blocked
    BY DEF RestOK
  <2>2. ~In(j, blocked_list) /\ blocked_list' = Append(blocked_list, j)
    BY <1>1, <1>2, <1>4, <2>1
  <2>3. /\ blocked_list' \in Seq(Jurisdiction) /\ Distinct(blocked_list')
        /\ \A i : In(i, blocked_list') <=> (In(i, blocked_list) \/ i = j)
    BY <1>1, <2>1, <2>2, AppendedList
  <2>4. \A i \in Jurisdiction : In(i, blocked_list') <=> i \in blocked'
    BY <1>2, <2>1, <2>3
  <2> QED
    BY <1>1, <1>2, <2>3, <2>4 DEF RestOK, roleVars, holdingVars
<1> QED
  BY <1>3, <1>4

LEMMA UnblockKeepsRest ==
  ASSUME RestOK, NEW caller \in Address, NEW s \in Spelling, UnblockJurisdiction(caller, s)
  PROVE  RestOK'
<1> DEFINE j == Canonical[s]
<1>1. j \in Jurisdiction
  BY DEF UnblockJurisdiction, Jurisdiction
<1>2. /\ blocked' = blocked \ {j}
      /\ blocked_list' = Without(blocked_list, {j})
      /\ UNCHANGED <<roleVars, holdingVars, ledger>> /\ signer' = caller
  BY DEF UnblockJurisdiction, RequireAdmin, RequireAuth
<1> HIDE DEF j
<1>3. /\ blocked_list \in Seq(Jurisdiction) /\ Distinct(blocked_list)
      /\ \A i \in Jurisdiction : In(i, blocked_list) <=> i \in blocked
  BY DEF RestOK
<1>4. /\ blocked_list' \in Seq(Jurisdiction) /\ Distinct(blocked_list')
      /\ \A i : In(i, blocked_list') <=> (In(i, blocked_list) /\ i \notin {j})
  BY <1>2, <1>3, WithoutKeeps
<1>5. \A i \in Jurisdiction : In(i, blocked_list') <=> i \in blocked'
  BY <1>2, <1>3, <1>4
<1> QED
  BY <1>2, <1>4, <1>5 DEF RestOK, roleVars, holdingVars

LEMMA HoldingKeepsRest ==
  ASSUME RestOK, NEW caller \in Address, NEW a \in Address,
         (\E n \in MinLedgers : SetMinHoldingPeriod(caller, a, n)) \/ RecordAcquisition(caller, a)
  PROVE  RestOK'
<1>1. /\ ledger \in 0..MaxLedger
      /\ first_acquired \in [Address -> 0..MaxLedger]
      /\ min_holding \in [Address -> MinLedgers \union {0}]
  BY ConstantsAssumption DEF RestOK
<1>2. CASE \E n \in MinLedgers : SetMinHoldingPeriod(caller, a, n)
  <2>1. min_holding' \in [Address -> MinLedgers \union {0}] /\ first_acquired' = first_acquired
    BY <1>1, <1>2 DEF SetMinHoldingPeriod
  <2> QED
    BY <1>2, <2>1 DEF SetMinHoldingPeriod, RestOK, RequireAdmin, RequireAuth, roleVars, blockVars
<1>3. CASE RecordAcquisition(caller, a)
  <2>1. first_acquired' \in [Address -> 0..MaxLedger] /\ min_holding' = min_holding
    BY <1>1, <1>3 DEF RecordAcquisition, ClockAfterAcquisition
  <2> QED
    BY <1>3, <2>1 DEF RecordAcquisition, RestOK, RequireAdmin, RequireAuth, roleVars, blockVars
<1> QED
  BY <1>2, <1>3

LEMMA AdminKeepsRest ==
  ASSUME RestOK, NEW caller \in Address, AdminStep(caller)
  PROVE  RestOK'
<1> USE DEF RestOK, RequireAdmin, RequireAuth, blockVars, holdingVars
<1>1. CASE Initialize(caller)
  BY <1>1 DEF Initialize
<1>2. CASE \E a \in Nominee : ProposeAdmin(caller, a)
  BY <1>2, ConstantsAssumption DEF ProposeAdmin
<1>3. CASE CancelAdminProposal(caller)
  BY <1>3 DEF CancelAdminProposal
<1>4. CASE AcceptAdmin(caller)
  BY <1>4 DEF AcceptAdmin
<1> QED
  BY <1>1, <1>2, <1>3, <1>4 DEF AdminStep

\* An operation that touches the roster comes from the administrator and
\* leaves everything else alone.
LEMMA RosterStepScope ==
  ASSUME NEW caller \in Address, RosterStep(caller)
  PROVE  /\ caller = admin /\ signer' = caller
         /\ UNCHANGED <<roleVars, blockVars, holdingVars, ledger>>
BY DEF RosterStep, AddToAllowlist, AddToAllowlistBatch, Remove, PruneExpired,
       RequireAdmin, RequireAuth

LEMMA RosterStepConsistent ==
  ASSUME BooksOK, RestOK, NEW caller \in Address, RosterStep(caller)
  PROVE  BooksOK' /\ RestOK'
<1>1. CASE \E a \in Subject, s \in Spelling, e \in Expiry : AddToAllowlist(caller, a, s, e)
  <2>1. PICK a \in Subject, s \in Spelling, e \in Expiry : AddToAllowlist(caller, a, s, e)
    BY <1>1
  <2> DEFINE entry == [address |-> a, spelling |-> s, expires_at |-> e]
  <2>2. entry \in Entry
    BY ConstantsAssumption DEF Entry
  <2>3. AddToAllowlistBatch(caller, <<entry>>)
    BY <2>1 DEF AddToAllowlist
  <2> HIDE DEF entry
  <2>4. <<entry>> \in Seq(Entry)
    BY <2>2
  <2> QED
    BY <2>3, <2>4, BatchKeepsBooks, RosterStepScope, RestKept
<1>2. CASE \E entries \in Batch : AddToAllowlistBatch(caller, entries)
  <2>1. Batch \subseteq Seq(Entry)
    BY ConstantsAssumption DEF Entry
  <2> QED
    BY <1>2, <2>1, BatchKeepsBooks, RosterStepScope, RestKept
<1>3. CASE \E a \in Subject : Remove(caller, a)
  BY <1>3, RemoveKeepsBooks, RosterStepScope, RestKept, ConstantsAssumption
<1>4. CASE \E n \in PruneBound : PruneExpired(caller, n)
  BY <1>4, PruneKeepsBooks, RosterStepScope, RestKept, ConstantsAssumption
<1> QED
  BY <1>1, <1>2, <1>3, <1>4 DEF RosterStep

LEMMA VerdictStepConsistent ==
  ASSUME BooksOK, RestOK, NEW caller \in Address, VerdictStep(caller)
  PROVE  BooksOK' /\ RestOK'
<1>1. ASSUME NEW a \in Subject, Suspend(caller, a) \/ Reinstate(caller, a)
      PROVE  BooksOK' /\ RestOK'
  <2>1. a \in Address
    BY ConstantsAssumption
  <2>2. /\ UNCHANGED <<roleVars, roster, blockVars, holdingVars, ledger>>
        /\ signer' = caller /\ Recorded(a)
        /\ \/ record' = [record EXCEPT ![a].status = "Suspended"]
           \/ record' = [record EXCEPT ![a].status = "Approved"]
    BY <1>1 DEF Suspend, Reinstate, ReinstateBy, RequireAdmin, RequireAuth
  <2>3. BooksOK'
    BY <2>1, <2>2, StatusKeepsBooks
  <2> QED
    BY <2>2, <2>3, RestKept
<1>2. ASSUME NEW s \in Blockable, BlockJurisdiction(caller, s) \/ UnblockJurisdiction(caller, s)
      PROVE  BooksOK' /\ RestOK'
  <2>1. UNCHANGED bookVars
    BY <1>2 DEF BlockJurisdiction, UnblockJurisdiction
  <2> QED
    BY <1>2, <2>1, BooksKept, BlockKeepsRest, UnblockKeepsRest, ConstantsAssumption
<1>3. ASSUME NEW a \in Holder,
             (\E n \in MinLedgers : SetMinHoldingPeriod(caller, a, n)) \/ RecordAcquisition(caller, a)
      PROVE  BooksOK' /\ RestOK'
  <2>1. UNCHANGED bookVars
    BY <1>3 DEF SetMinHoldingPeriod, RecordAcquisition
  <2>2. a \in Address
    BY ConstantsAssumption
  <2>3. RestOK'
    BY <1>3, <2>2, HoldingKeepsRest
  <2> QED
    BY <2>1, <2>3, BooksKept
<1> QED
  BY <1>1, <1>2, <1>3 DEF VerdictStep

LEMMA NextConsistent == Consistent /\ [Next]_vars => Consistent'
<1> SUFFICES ASSUME BooksOK, RestOK, [Next]_vars PROVE BooksOK' /\ RestOK'
  <2>1. Consistent' <=> BooksOK' /\ RestOK'
    BY DEF Consistent, TypeOK, BooksOK, RestOK
  <2> QED
    BY <2>1, ConsistentParts
<1>1. ASSUME NEW a \in Address, RosterStep(a) PROVE BooksOK' /\ RestOK'
  BY <1>1, RosterStepConsistent
<1>2. ASSUME NEW a \in Address, VerdictStep(a) PROVE BooksOK' /\ RestOK'
  BY <1>2, VerdictStepConsistent
<1>3. ASSUME NEW a \in Address, AdminStep(a) PROVE BooksOK' /\ RestOK'
  <2>1. UNCHANGED bookVars
    BY <1>3 DEF AdminStep, Initialize, ProposeAdmin, CancelAdminProposal, AcceptAdmin
  <2> QED
    BY <1>3, <2>1, BooksKept, AdminKeepsRest
<1>4. ASSUME CloseLedger PROVE BooksOK' /\ RestOK'
  <2>1. ledger' \in 1..MaxLedger
    BY <1>4, ConstantsAssumption DEF RestOK, CloseLedger
  <2> QED
    BY <1>4, <2>1, BooksKept DEF CloseLedger, RestOK, roleVars, blockVars, holdingVars
<1>5. CASE UNCHANGED vars
  BY <1>5, BooksKept DEF vars, RestOK, roleVars, blockVars, holdingVars
<1> QED
  BY <1>1, <1>2, <1>3, <1>4, <1>5 DEF Next

LEMMA AlwaysConsistent == Spec => []Consistent
BY InitConsistent, NextConsistent, PTL DEF Spec

-----------------------------------------------------------------------------
(* Theorems. *)

\* Every variable stays in its type: no page outgrows its bound and the
\* count, which the code decrements, never falls below zero.
THEOREM TypeCorrectness == Spec => []TypeOK
<1>1. Consistent => TypeOK
  BY DEF Consistent
<1> QED
  BY <1>1, AlwaysConsistent, PTL

LEMMA PlacesOf ==
  ASSUME Consistent
  PROVE  /\ Len(roster.pages) \in 1..MaxPages
         /\ DOMAIN roster.pages = 1..Len(roster.pages)
         /\ \A p \in 1..Len(roster.pages) :
               /\ roster.pages[p] \in Seq(Address)
               /\ DOMAIN roster.pages[p] = 1..Len(roster.pages[p])
               /\ Len(roster.pages[p]) \in 0..SIZE
               /\ Distinct(roster.pages[p])
               /\ \A a \in Address : In(a, roster.pages[p]) =>
                                        record[a] # NoRecord /\ roster.page_of[a] = p
         /\ \A a \in Address :
               record[a] # NoRecord =>
                  /\ roster.page_of[a] \in 1..Len(roster.pages)
                  /\ In(a, roster.pages[roster.page_of[a]])
         /\ \A a \in Address : record[a] = NoRecord => roster.page_of[a] = 0
<1>1. FiledAs(record, roster.pages, roster.page_len, roster.page_of, roster.count)
  BY DEF Consistent, Filed
<1> DEFINE X == Seq(Address)
           pages == roster.pages
<1>2. pages \in Seq(X) /\ pages # <<>> /\ Len(pages) \in 1..MaxPages
  BY <1>1 DEF FiledAs, Consistent, TypeOK
<1>3. /\ \A p \in 1..Len(pages) : Distinct(pages[p]) /\ Len(pages[p]) <= SIZE
      /\ \A p \in 1..Len(pages), a \in Address :
            In(a, pages[p]) => record[a] # NoRecord /\ roster.page_of[a] = p
      /\ \A a \in People(record) :
            roster.page_of[a] \in 1..Len(pages) /\ In(a, pages[roster.page_of[a]])
      /\ \A a \in Address : record[a] = NoRecord => roster.page_of[a] = 0
  BY <1>1 DEF FiledAs
<1> HIDE DEF X, pages
<1>4. DOMAIN pages = 1..Len(pages)
  BY <1>2, LenProperties
<1>5. ASSUME NEW p \in 1..Len(pages)
      PROVE  pages[p] \in X /\ DOMAIN pages[p] = 1..Len(pages[p]) /\ Len(pages[p]) \in 0..SIZE
  <2>1. pages[p] \in X
    BY <1>2, ElementOfSeq
  <2>2. DOMAIN pages[p] = 1..Len(pages[p]) /\ Len(pages[p]) \in Nat
    BY <2>1, LenProperties DEF X
  <2> QED
    BY <1>3, <2>1, <2>2, SizeType
<1> QED
  BY <1>2, <1>3, <1>4, <1>5 DEF X, pages, People

\* An address has a record exactly when it stands on one page, once, and the
\* index names that page; pages keep their capacity, and the append cursor
\* never understates the page being filled (add_to_allowlist, remove,
\* prune_expired).
THEOREM RosterAlwaysMatchesRecords == Spec => []RosterMatchesRecords
<1>1. ASSUME Consistent PROVE RosterMatchesRecords
  <2> DEFINE pages == roster.pages
             n == Len(pages)
  <2>1. /\ n \in 1..MaxPages /\ DOMAIN pages = 1..n /\ MaxPages \in Nat
        /\ \A p \in 1..n : /\ DOMAIN pages[p] = 1..Len(pages[p])
                           /\ Len(pages[p]) \in 0..SIZE
                           /\ Distinct(pages[p])
                           /\ \A a \in Address : In(a, pages[p]) =>
                                  record[a] # NoRecord /\ roster.page_of[a] = p
        /\ \A a \in Address :
              record[a] # NoRecord =>
                 roster.page_of[a] \in 1..n /\ In(a, pages[roster.page_of[a]])
        /\ \A a \in Address : record[a] = NoRecord => roster.page_of[a] = 0
    BY <1>1, PlacesOf, ConstantsAssumption
  <2>2. SIZE \in Nat
    BY SizeType
  <2>3. \A a \in Address : Occurrences(a) =
           {o \in (1..MaxPages) \X (1..SIZE) :
               o[1] \in DOMAIN pages /\ o[2] \in DOMAIN pages[o[1]] /\ pages[o[1]][o[2]] = a}
    BY DEF Occurrences, SIZE
  <2> HIDE DEF pages, n
  <2>4. ASSUME NEW a \in Address, NEW o \in Occurrences(a)
        PROVE  /\ o[1] \in 1..n /\ o[2] \in 1..Len(pages[o[1]]) /\ pages[o[1]][o[2]] = a
               /\ In(a, pages[o[1]]) /\ o = <<o[1], o[2]>>
               /\ record[a] # NoRecord /\ o[1] = roster.page_of[a]
    <3>1. /\ o \in (1..MaxPages) \X (1..SIZE)
          /\ o[1] \in DOMAIN pages /\ o[2] \in DOMAIN pages[o[1]] /\ pages[o[1]][o[2]] = a
      BY <2>3, <2>4
    <3>2. o[1] \in 1..n /\ o[2] \in 1..Len(pages[o[1]])
      BY <2>1, <3>1
    <3>3. In(a, pages[o[1]])
      BY <3>1, <3>2 DEF In
    <3> QED
      BY <2>1, <3>1, <3>2, <3>3
  <2>5. ASSUME NEW a \in Address, record[a] # NoRecord PROVE Cardinality(Occurrences(a)) = 1
    <3> DEFINE p == roster.page_of[a]
    <3>1. p \in 1..n /\ In(a, pages[p])
      BY <2>1, <2>5
    <3>2. PICK k \in 1..Len(pages[p]) : pages[p][k] = a
      BY <3>1 DEF In
    <3>3. p \in 1..MaxPages /\ k \in 1..SIZE
      BY <2>1, <2>2, <3>1
    <3>4. p \in DOMAIN pages /\ k \in DOMAIN pages[p]
      BY <2>1, <3>1
    <3>5. <<p, k>> \in Occurrences(a)
      BY <2>3, <3>2, <3>3, <3>4
    <3>6. ASSUME NEW o \in Occurrences(a) PROVE o = <<p, k>>
      <4>1. /\ o = <<o[1], o[2]>> /\ o[1] = p
            /\ o[2] \in 1..Len(pages[o[1]]) /\ pages[o[1]][o[2]] = a
        BY <2>4, <3>6
      <4>2. o[2] \in 1..Len(pages[p]) /\ pages[p][o[2]] = pages[p][k]
        BY <3>2, <4>1
      <4>3. Distinct(pages[p])
        BY <2>1, <3>1
      <4>4. o[2] = k
        BY <4>2, <4>3 DEF Distinct
      <4> QED
        BY <4>1, <4>4
    <3>7. Occurrences(a) = {<<p, k>>}
      BY <3>5, <3>6
    <3> QED
      BY <3>7, FS_Singleton
  <2>6. ASSUME NEW a \in Address, record[a] = NoRecord PROVE Occurrences(a) = {}
    BY <2>4, <2>6
  <2>7. Len(pages[n]) <= roster.page_len
    BY <1>1 DEF Consistent, Filed, FiledAs, pages, n
  <2>8. \A p \in DOMAIN pages : Len(pages[p]) <= SIZE
    BY <2>1, <2>2
  <2> QED
    BY <2>1, <2>4, <2>5, <2>6, <2>7, <2>8 DEF RosterMatchesRecords, Recorded, pages, n, SIZE
<1> QED
  BY <1>1, AlwaysConsistent, PTL

\* The published list names every address on file once and nobody else.
ListIsExact ==
    /\ Distinct(GetAllowlist)
    /\ \A a \in Address : In(a, GetAllowlist) <=> Recorded(a)

LEMMA ListExact ==
  ASSUME Consistent
  PROVE  GetAllowlist \in Seq(Address) /\ ListIsExact
<1> DEFINE pages == roster.pages
<1>1. pages \in Seq(Seq(Address)) /\ pages # <<>>
  BY DEF Consistent, Filed, FiledAs
<1>2. /\ \A p \in 1..Len(pages) : Distinct(pages[p]) /\ pages[p] \in Seq(Address)
      /\ \A p \in 1..Len(pages), a \in Address :
            In(a, pages[p]) => record[a] # NoRecord /\ roster.page_of[a] = p
      /\ \A a \in Address : record[a] # NoRecord =>
            roster.page_of[a] \in 1..Len(pages) /\ In(a, pages[roster.page_of[a]])
  BY PlacesOf
<1> HIDE DEF pages
<1>3. ASSUME NEW p \in 1..Len(pages), NEW x, In(x, pages[p]) PROVE x \in Address
  <2>1. pages[p] \in Seq(Address)
    BY <1>2
  <2> QED
    BY <1>3, <2>1, ElementOfSeq DEF In
<1>4. ASSUME NEW p \in 1..Len(pages), NEW q \in 1..Len(pages), NEW x,
             In(x, pages[p]), In(x, pages[q])
      PROVE  p = q
  <2>1. x \in Address
    BY <1>3, <1>4
  <2>2. roster.page_of[x] = p /\ roster.page_of[x] = q
    BY <1>2, <1>4, <2>1
  <2> QED
    BY <2>2
<1>5. /\ Seqs!FlattenSeq(pages) \in Seq(Address)
      /\ \A x : In(x, Seqs!FlattenSeq(pages)) <=> \E p \in 1..Len(pages) : In(x, pages[p])
      /\ Distinct(Seqs!FlattenSeq(pages))
  BY <1>1, <1>2, <1>4, FlattenedItems
<1>6. \A a \in Address : In(a, Seqs!FlattenSeq(pages)) <=> record[a] # NoRecord
  BY <1>2, <1>5
<1> QED
  BY <1>5, <1>6 DEF GetAllowlist, ListIsExact, Recorded, pages

\* get_allowlist returns every address with a record exactly once, however
\* many removals and prunings left holes in the pages.
THEOREM ListAlwaysExact == Spec => []ListIsExact
<1>1. Consistent => ListIsExact
  BY ListExact
<1> QED
  BY <1>1, AlwaysConsistent, PTL

\* The cached count never falls below the list it counts (append_allowlist,
\* remove_from_allowlist and the prunings that leave it alone).
THEOREM CountAlwaysCovers == Spec => []CountCoversRoster
<1>1. ASSUME Consistent PROVE CountCoversRoster
  <2> DEFINE list == GetAllowlist
             items == {list[k] : k \in 1..Len(list)}
  <2>1. list \in Seq(Address) /\ Distinct(list) /\ \A a \in Address : In(a, list) <=> Recorded(a)
    BY <1>1, ListExact DEF ListIsExact
  <2> HIDE DEF list
  <2>2. Cardinality(items) = Len(list) /\ Len(list) \in Nat
    BY <2>1, DistinctLength, LenProperties
  <2>3. items \subseteq People(record)
    BY <2>1, ElementOfSeq DEF People, In, Recorded
  <2>4. IsFiniteSet(People(record))
    BY ConstantsAssumption, FS_Subset DEF People
  <2>5. Cardinality(items) <= Cardinality(People(record)) /\ Cardinality(People(record)) \in Nat
    BY <2>3, <2>4, FS_Subset, FS_CardinalityType
  <2>6. Cardinality(People(record)) <= roster.count /\ roster.count \in Nat
    BY <1>1 DEF Consistent, Filed, FiledAs
  <2> HIDE DEF items
  <2>7. roster.count >= Len(list)
    BY <2>2, <2>5, <2>6
  <2> QED
    BY <2>7 DEF CountCoversRoster, list
<1> QED
  BY <1>1, AlwaysConsistent, PTL

\* The flags that decide and the published list agree, without repetition
\* (block_jurisdiction, unblock_jurisdiction).
THEOREM BlockedListAlwaysMatches == Spec => []BlockedListMatchesFlags
<1>1. ASSUME Consistent PROVE BlockedListMatchesFlags
  <2> DEFINE items == {blocked_list[k] : k \in 1..Len(blocked_list)}
  <2>1. /\ blocked_list \in Seq(Jurisdiction) /\ Distinct(blocked_list)
        /\ blocked \subseteq Jurisdiction
        /\ \A j \in Jurisdiction : In(j, blocked_list) <=> j \in blocked
    BY <1>1 DEF Consistent, TypeOK
  <2>2. \A k \in 1..Len(blocked_list) : blocked_list[k] \in Jurisdiction
    BY <2>1, ElementOfSeq
  <2>3. items = blocked
    BY <2>1, <2>2 DEF In
  <2>4. Cardinality(items) = Len(blocked_list) /\ DOMAIN blocked_list = 1..Len(blocked_list)
    BY <2>1, DistinctLength, LenProperties
  <2> QED
    BY <2>3, <2>4 DEF BlockedListMatchesFlags
<1> QED
  BY <1>1, AlwaysConsistent, PTL

LEMMA ApprovedOnFile ==
  ASSUME Consistent, NEW a \in Address, record[a].status = "Approved"
  PROVE  record[a] \in KycRecord /\ record[a].jurisdiction \in Jurisdiction
         /\ record[a].expires_at \in Nat
<1>1. record[a] \in KycRecord
  BY DEF Consistent, TypeOK, NoRecord
<1> QED
  BY <1>1, ConstantsAssumption DEF KycRecord

\* Nobody approved under a published jurisdiction, in whatever spelling, is
\* allowed (is_allowed, normalize_jurisdiction).
THEOREM BlockedJurisdictionNeverAllowed == Spec => []NobodyFromBlockedJurisdiction
<1>1. ASSUME Consistent, NEW a \in Address, NEW k \in DOMAIN blocked_list, IsAllowed(a)
      PROVE  record[a].jurisdiction # Canonical[blocked_list[k]]
  <2>1. Canonical[record[a].jurisdiction] \notin blocked /\ record[a].status = "Approved"
    BY <1>1 DEF IsAllowed, IsJurisdictionBlocked
  <2>2. record[a].jurisdiction \in Jurisdiction
    BY <1>1, <2>1, ApprovedOnFile
  <2>3. blocked_list[k] \in blocked /\ blocked_list[k] \in Jurisdiction
    <3>1. blocked_list \in Seq(Jurisdiction) /\ k \in 1..Len(blocked_list)
      BY <1>1, LenProperties DEF Consistent, TypeOK
    <3>2. blocked_list[k] \in Jurisdiction /\ In(blocked_list[k], blocked_list)
      BY <3>1, ElementOfSeq DEF In
    <3> QED
      BY <1>1, <3>2 DEF Consistent
  <2>4. \A j \in Jurisdiction : Canonical[j] = j
    BY ConstantsAssumption
  <2> QED
    BY <2>1, <2>2, <2>3, <2>4
<1>2. Consistent => NobodyFromBlockedJurisdiction
  BY <1>1 DEF NobodyFromBlockedJurisdiction
<1> QED
  BY <1>2, AlwaysConsistent, PTL

\* Pruning, whatever its bound, turns no verdict (prune_expired, is_allowed).
THEOREM PruningTurnsNoVerdict == Spec => PruneChangesNoVerdict
<1>1. ASSUME NEW n \in PruneBound, PruneExpired(admin, n), NEW h \in Address
      PROVE  IsAllowed(h)' <=> IsAllowed(h)
  <2> DEFINE lapsed == {a \in Examined(n) : Recorded(a) /\ Lapsed(record[a])}
  <2>1. /\ record' = [a \in Address |-> IF a \in lapsed THEN NoRecord ELSE record[a]]
        /\ UNCHANGED <<blockVars, holdingVars, ledger>>
    BY <1>1 DEF PruneExpired
  <2>3. StillHolding(h)' <=> StillHolding(h)
    BY <2>1 DEF StillHolding, holdingVars
  <2>4. CASE h \in lapsed
    <3>1. record'[h] = NoRecord /\ Lapsed(record[h])
      BY <2>1, <2>4
    <3>2. record'[h].status # "Approved"
      BY <3>1 DEF NoRecord
    <3> QED
      BY <3>1, <3>2 DEF IsAllowed
  <2>5. CASE h \notin lapsed
    <3>1. record'[h] = record[h]
      BY <2>1, <2>5
    <3> HIDE DEF lapsed
    <3> QED
      BY <2>1, <2>3, <3>1 DEF IsAllowed, Lapsed, IsJurisdictionBlocked, blockVars
  <2> QED
    BY <2>4, <2>5
<1>2. ASSUME NEW n \in PruneBound, PruneExpired(admin, n), NEW h \in Address
      PROVE  IsAllowed(h)' = IsAllowed(h)
  BY <1>1, <1>2 DEF IsAllowed
<1>3. [(\E n \in PruneBound : PruneExpired(admin, n)) =>
          \A h \in Address : IsAllowed(h)' = IsAllowed(h)]_vars
  BY <1>2
<1> QED
  BY <1>3, PTL DEF PruneChangesNoVerdict

\* A pruning call whose bound reaches the end of the list, or that has none,
\* leaves nobody on file whose record has lapsed.
ThoroughPruneLeavesNoLapsed ==
    [][\A caller \in Address, n \in PruneBound :
          PruneExpired(caller, n) /\ (n = 0 \/ n >= Len(GetAllowlist)) =>
              \A a \in Address : Recorded(a)' => ~Lapsed(record[a])']_vars

\* One call without a bound, or with a large one, does the whole work of
\* prune_expired: the list it scans names everybody on file, so nobody lapsed
\* is out of its reach.  Calls with smaller bounds may never get there, however
\* often they are repeated.
THEOREM ThoroughPruneIsComplete == Spec => ThoroughPruneLeavesNoLapsed
<1>1. ASSUME Consistent, NEW caller \in Address, NEW n \in PruneBound,
             PruneExpired(caller, n), n = 0 \/ n >= Len(GetAllowlist),
             NEW a \in Address, record'[a] # NoRecord, Lapsed(record[a])'
      PROVE  FALSE
  <2> DEFINE list == GetAllowlist
             lapsed == {b \in Examined(n) : Recorded(b) /\ Lapsed(record[b])}
  <2>1. /\ record' = [b \in Address |-> IF b \in lapsed THEN NoRecord ELSE record[b]]
        /\ ledger' = ledger
    BY <1>1 DEF PruneExpired
  <2>2. a \notin lapsed /\ record'[a] = record[a] /\ Recorded(a) /\ Lapsed(record[a])
    BY <1>1, <2>1 DEF Recorded, Lapsed
  <2>3. list \in Seq(Address) /\ In(a, list)
    BY <1>1, <2>2, ListExact DEF ListIsExact
  <2>4. Len(list) \in Nat /\ n \in Nat
    BY <2>3, LenProperties, ConstantsAssumption
  <2>5. (IF n = 0 THEN Len(list) ELSE Least(n, Len(list))) = Len(list)
    BY <1>1, <2>4 DEF Least
  <2>6. Examined(n) = {list[k] : k \in 1..Len(list)}
    BY <2>5 DEF Examined
  <2>7. a \in Examined(n)
    BY <2>3, <2>6 DEF In
  <2> QED
    BY <2>2, <2>7
<1> DEFINE Thorough ==
             \A caller \in Address, n \in PruneBound :
                 PruneExpired(caller, n) /\ (n = 0 \/ n >= Len(GetAllowlist)) =>
                     \A a \in Address : Recorded(a)' => ~Lapsed(record[a])'
<1>2. Consistent => Thorough
  BY <1>1 DEF Recorded
<1> QED
  BY <1>2, AlwaysConsistent, PTL DEF ThoroughPruneLeavesNoLapsed

\* What a step leaves alone decides the same.
LEMMA SameVerdict ==
  ASSUME UNCHANGED <<record, blockVars, holdingVars, ledger>>, NEW a \in Address
  PROVE  IsAllowed(a)' <=> IsAllowed(a)
BY DEF IsAllowed, Lapsed, IsJurisdictionBlocked, StillHolding, blockVars, holdingVars

LEMMA HoldingTyped ==
  ASSUME Consistent
  PROVE  /\ ledger \in Nat
         /\ first_acquired \in [Address -> Nat]
         /\ min_holding \in [Address -> Nat]
<1>1. MinLedgers \union {0} \subseteq Nat /\ 0..MaxLedger \subseteq Nat /\ 1..MaxLedger \subseteq Nat
  BY ConstantsAssumption
<1>2. /\ ledger \in 1..MaxLedger
      /\ first_acquired \in [Address -> 0..MaxLedger]
      /\ min_holding \in [Address -> MinLedgers \union {0}]
  BY DEF Consistent, TypeOK
<1>3. ledger \in Nat
  BY <1>1, <1>2
<1>4. first_acquired \in [Address -> Nat]
  BY <1>1, <1>2
<1>5. min_holding \in [Address -> Nat]
  BY <1>1, <1>2
<1> QED
  BY <1>3, <1>4, <1>5

\* As the ledger advances, nothing lapsed comes back and periods run out.
LEMMA LaterVerdict ==
  ASSUME Consistent, CloseLedger, NEW a \in Address
  PROVE  /\ IsAllowed(a)' => IsAllowed(a) \/ StillHolding(a)
         /\ StillHolding(a)' => StillHolding(a)
<1>1. /\ ledger \in Nat /\ ledger' = ledger + 1
      /\ first_acquired[a] \in Nat /\ min_holding[a] \in Nat
      /\ UNCHANGED <<record, blocked, min_holding, first_acquired>>
  BY HoldingTyped DEF CloseLedger, bookVars, blockVars, holdingVars
<1>2. StillHolding(a)' => StillHolding(a)
  BY <1>1 DEF StillHolding
<1>3. ASSUME IsAllowed(a)', ~StillHolding(a) PROVE IsAllowed(a)
  <2>1. record[a].status = "Approved" /\ ~Lapsed(record[a])' /\ ~IsJurisdictionBlocked(record[a].jurisdiction)
    BY <1>1, <1>3 DEF IsAllowed, Lapsed, IsJurisdictionBlocked
  <2>2. record[a].expires_at \in Nat
    BY <2>1, ApprovedOnFile
  <2>3. ~Lapsed(record[a])
    BY <1>1, <2>1, <2>2 DEF Lapsed
  <2> QED
    BY <1>3, <2>1, <2>3 DEF IsAllowed
<1> QED
  BY <1>2, <1>3

LEMMA VerdictStepScope ==
  ASSUME NEW caller \in Address, VerdictStep(caller)
  PROVE  caller = admin /\ signer' = caller /\ admin' = admin /\ ledger' = ledger
BY DEF VerdictStep, Suspend, Reinstate, ReinstateBy, BlockJurisdiction, UnblockJurisdiction,
       SetMinHoldingPeriod, RecordAcquisition, RequireAdmin, RequireAuth, roleVars

LEMMA AdminStepScope ==
  ASSUME NEW caller \in Address, AdminStep(caller)
  PROVE  UNCHANGED <<bookVars, blockVars, holdingVars, ledger>>
BY DEF AdminStep, Initialize, ProposeAdmin, CancelAdminProposal, AcceptAdmin

\* Nobody becomes allowed without the administrator, except by serving out a
\* holding period (add_to_allowlist, reinstate, unblock_jurisdiction,
\* set_min_holding_period, is_allowed).
THEOREM PermissionsGrantedOrServed == Spec => PermissionComesFromAdminOrTime
<1>1. ASSUME Consistent, [Next]_vars, NEW a \in Address, ~IsAllowed(a), IsAllowed(a)'
      PROVE  signer' = admin \/ (StillHolding(a) /\ ledger' > ledger)
  <2>1. CASE \E b \in Address : RosterStep(b) \/ VerdictStep(b)
    BY <2>1, RosterStepScope, VerdictStepScope
  <2>2. CASE \E b \in Address : AdminStep(b)
    BY <1>1, <2>2, AdminStepScope, SameVerdict DEF bookVars
  <2>3. CASE CloseLedger
    <3>1. ledger \in Nat /\ ledger' = ledger + 1
      BY <1>1, <2>3, ConstantsAssumption DEF Consistent, TypeOK, CloseLedger
    <3>2. StillHolding(a)
      BY <1>1, <2>3, LaterVerdict
    <3> QED
      BY <3>1, <3>2
  <2>4. CASE UNCHANGED vars
    BY <1>1, <2>4, SameVerdict DEF vars, bookVars
  <2> QED
    BY <1>1, <2>1, <2>2, <2>3, <2>4 DEF Next
<1>2. Consistent /\ [Next]_vars =>
        [\A a \in Address : (~IsAllowed(a) /\ IsAllowed(a)') =>
             signer' = admin \/ (StillHolding(a) /\ ledger' > ledger)]_vars
  BY <1>1
<1> QED
  BY <1>2, AlwaysConsistent, PTL DEF Spec, PermissionComesFromAdminOrTime

\* A holding period that ran out starts again only by a longer one
\* (record_acquisition, remove, set_min_holding_period).
THEOREM PeriodsServedOnce == Spec => ServedPeriodIsNotRestarted
<1>1. ASSUME Consistent, [Next]_vars, NEW a \in Address,
             first_acquired[a] > 0, ~StillHolding(a), StillHolding(a)'
      PROVE  min_holding'[a] > min_holding[a]
  <2>1. /\ ledger \in Nat /\ first_acquired \in [Address -> Nat]
        /\ min_holding \in [Address -> Nat]
    BY <1>1, HoldingTyped
  <2>2. ASSUME UNCHANGED <<holdingVars, ledger>> PROVE FALSE
    BY <1>1, <2>2 DEF StillHolding, holdingVars
  <2>3. ASSUME NEW b \in Address, NEW h \in Holder, NEW n \in MinLedgers,
               SetMinHoldingPeriod(b, h, n)
        PROVE  min_holding'[a] > min_holding[a]
    <3>1. /\ min_holding' = [min_holding EXCEPT ![h] = n] /\ n \in Nat
          /\ first_acquired' = first_acquired /\ ledger' = ledger
      BY <2>3, ConstantsAssumption DEF SetMinHoldingPeriod
    <3>2. min_holding'[a] \in Nat
      BY <2>1, <3>1
    <3> QED
      BY <1>1, <2>1, <3>1, <3>2 DEF StillHolding
  <2>4. ASSUME NEW b \in Address, NEW h \in Holder, RecordAcquisition(b, h) PROVE FALSE
    <3>1. /\ first_acquired' = [first_acquired EXCEPT ![h] = ClockAfterAcquisition(h)]
          /\ min_holding' = min_holding /\ ledger' = ledger
      BY <2>4 DEF RecordAcquisition
    <3>2. first_acquired'[a] = first_acquired[a]
      BY <1>1, <2>1, <3>1 DEF ClockAfterAcquisition
    <3> QED
      BY <1>1, <3>1, <3>2 DEF StillHolding
  <2>5. CASE \E b \in Address : RosterStep(b)
    BY <2>2, <2>5, RosterStepScope
  <2>6. CASE \E b \in Address : VerdictStep(b)
    BY <2>2, <2>3, <2>4, <2>6
    DEF VerdictStep, Suspend, Reinstate, ReinstateBy, BlockJurisdiction, UnblockJurisdiction
  <2>7. CASE \E b \in Address : AdminStep(b)
    BY <2>2, <2>7, AdminStepScope
  <2>8. CASE CloseLedger
    BY <1>1, <2>8, LaterVerdict
  <2>9. CASE UNCHANGED vars
    BY <2>2, <2>9 DEF vars
  <2> QED
    BY <1>1, <2>5, <2>6, <2>7, <2>8, <2>9 DEF Next
<1>2. Consistent /\ [Next]_vars =>
        [\A a \in Address :
            (first_acquired[a] > 0 /\ ~StillHolding(a) /\ StillHolding(a)') =>
                min_holding'[a] > min_holding[a]]_vars
  BY <1>1
<1> QED
  BY <1>2, AlwaysConsistent, PTL DEF Spec, ServedPeriodIsNotRestarted

\* The admin role follows the two-step handover of AdminHandover
\* (initialize, propose_admin, cancel_admin_proposal, accept_admin).
THEOREM ImplementsAdminHandover == Spec => AdminRoleHandover
<1>1. Init => Handover!Init
  BY DEF Init, Handover!Init
<1>2. [Next]_vars => [Handover!Next]_<<admin, pending_admin, signer>>
  <2> SUFFICES ASSUME [Next]_vars PROVE [Handover!Next]_<<admin, pending_admin, signer>>
    OBVIOUS
  <2> USE DEF Handover!Next, Handover!Other
  <2>1. ASSUME NEW caller \in Address, AdminStep(caller) PROVE Handover!Next
    <3> USE DEF RequireAuth, RequireAdmin, Initialized
    <3>1. ASSUME Initialize(caller) PROVE Handover!Appoint(caller)
      BY <3>1 DEF Initialize, Handover!Appoint
    <3>2. ASSUME NEW a \in Nominee, ProposeAdmin(caller, a) PROVE Handover!Nominate(a)
      BY <3>2 DEF ProposeAdmin, Handover!Nominate
    <3>3. ASSUME CancelAdminProposal(caller) PROVE Handover!Withdraw
      BY <3>3 DEF CancelAdminProposal, Handover!Withdraw
    <3>4. ASSUME AcceptAdmin(caller) PROVE Handover!TakeOver
      BY <3>4 DEF AcceptAdmin, Handover!TakeOver
    <3> QED
      BY <2>1, <3>1, <3>2, <3>3, <3>4, ConstantsAssumption DEF AdminStep
  <2>2. ASSUME NEW caller \in Address, RosterStep(caller) PROVE Handover!Next
    BY <2>2, RosterStepScope DEF roleVars
  <2>3. ASSUME NEW caller \in Address, VerdictStep(caller) PROVE Handover!Next
    <3>1. UNCHANGED roleVars
      BY <2>3 DEF VerdictStep, Suspend, Reinstate, ReinstateBy, BlockJurisdiction,
            UnblockJurisdiction, SetMinHoldingPeriod, RecordAcquisition
    <3> QED
      BY <2>3, <3>1, VerdictStepScope DEF roleVars
  <2>4. ASSUME CloseLedger PROVE Handover!Next
    BY <2>4 DEF CloseLedger, roleVars
  <2>5. CASE UNCHANGED vars
    BY <2>5 DEF vars, roleVars
  <2> QED
    BY <2>1, <2>2, <2>3, <2>4, <2>5 DEF Next
<1> QED
  BY <1>1, <1>2, PTL DEF Spec, AdminRoleHandover, Handover!Spec
-----------------------------------------------------------------------------
(* Replies page by page. *)

\* How much of a page of m is skipped, and taken, after pages of n altogether
\* gave r.
SkipOf(n, m, offset) == Least(offset - Least(offset, n), m)
TakeOf(n, m, r, offset, limit) == Least(limit - r, m - SkipOf(n, m, offset))

TurnsSlice(n, m, r, k, offset, limit) ==
    /\ SkipOf(n, m, offset) \in Nat /\ TakeOf(n, m, r, offset, limit) \in Nat
    /\ SkipOf(n, m, offset) + TakeOf(n, m, r, offset, limit) <= m
    /\ Least(offset, n) + SkipOf(n, m, offset) = Least(offset, k)
    /\ r + TakeOf(n, m, r, offset, limit) = SliceLength(k, offset, limit)
    /\ r # 0 => offset + r <= n
    /\ TakeOf(n, m, r, offset, limit) # 0 => offset + r = n + SkipOf(n, m, offset)

LEMMA SliceBounds ==
  ASSUME NEW n \in Nat, NEW m \in Nat, NEW r \in Nat, NEW offset \in Nat, NEW limit \in Nat,
         r = SliceLength(n, offset, limit), NEW k \in Nat, k = n + m
  PROVE  TurnsSlice(n, m, r, k, offset, limit)
<1> DEFINE skip == SkipOf(n, m, offset)
           take == TakeOf(n, m, r, offset, limit)
<1>1. skip = IF offset <= n THEN 0 ELSE IF offset <= n + m THEN offset - n ELSE m
  BY DEF Least, SkipOf
<1>2. take = IF limit - r <= m - skip THEN limit - r ELSE m - skip
  BY DEF Least, TakeOf
<1>3. CASE offset >= n
  BY <1>1, <1>2, <1>3 DEF Least, SliceLength, TurnsSlice
<1>4. CASE ~(offset >= n)
  <2>1. r = IF limit <= n - offset THEN limit ELSE n - offset
    BY <1>4 DEF Least, SliceLength
  <2>2. skip = 0
    BY <1>1, <1>4
  <2> QED
    BY <1>2, <1>4, <2>1, <2>2 DEF Least, SliceLength, TurnsSlice
<1> QED
  BY <1>3, <1>4

\* The reply of get_allowlist_page if the list ended here.
ReplySoFar(list, offset, limit) ==
    [skipped |-> Least(offset, Len(list)), result |-> Slice(list, offset, limit)]

\* A stored page takes the loop from the reply for the pages before it to the
\* reply for the list that has its addresses too.
LEMMA PageExtendsReply ==
  ASSUME NEW S, NEW list \in Seq(S), NEW page \in Seq(S),
         NEW offset \in Nat, NEW limit \in Nat
  PROVE  PageStep(ReplySoFar(list, offset, limit), page, offset, limit)
            = ReplySoFar(list \o page, offset, limit)
<1> DEFINE n == Len(list)
           m == Len(page)
           reply == Slice(list, offset, limit)
           r == Len(reply)
           k == Len(list \o page)
           skip == SkipOf(n, m, offset)
           take == TakeOf(n, m, r, offset, limit)
           part == SubSeq(page, skip + 1, skip + take)
           whole == list \o page
           result == reply \o part
<1>0. reply \in Seq(S) /\ IsSlice(reply, list, offset, limit)
  BY SliceUnique
<1> HIDE DEF reply
<1>1. n \in Nat /\ m \in Nat /\ r \in Nat /\ k \in Nat /\ k = n + m
  BY <1>0, LenProperties, ConcatProperties
<1>2. /\ r = SliceLength(n, offset, limit)
      /\ \A i \in 1..r : reply[i] = list[offset + i]
  BY <1>0 DEF IsSlice
<1>3. whole \in Seq(S) /\ Len(whole) = k /\ \A i \in 1..(n + m) : whole[i] = IF i <= n THEN list[i] ELSE page[i - n]
  BY ConcatProperties
<1>4. /\ skip \in Nat /\ take \in Nat /\ skip + take <= m
      /\ Least(offset, n) + skip = Least(offset, k)
      /\ r + take = SliceLength(k, offset, limit)
      /\ r # 0 => offset + r <= n
      /\ take # 0 => offset + r = n + skip
  <2> HIDE DEF n, m, r, k
  <2>1. TurnsSlice(n, m, r, k, offset, limit)
    BY <1>1, <1>2, SliceBounds
  <2> QED
    BY <2>1 DEF TurnsSlice
<1>5. part \in Seq(S) /\ Len(part) = take /\ \A i \in 1..take : part[i] = page[skip + i]
  <2> DEFINE a == skip + 1
             b == skip + take
  <2> HIDE DEF m, skip, take
  <2>1. /\ a \in Int /\ b \in Int /\ b - a + 1 = take
        /\ a..b \subseteq 1..m
        /\ take = IF a <= b THEN b - a + 1 ELSE 0
        /\ \A i \in 1..take : a + i - 1 = skip + i
    BY <1>1, <1>4
  <2>2. \A i \in a..b : page[i] \in S
    BY <2>1, ElementOfSeq DEF m
  <2> HIDE DEF a, b
  <2>3. /\ SubSeq(page, a, b) \in Seq(S)
        /\ Len(SubSeq(page, a, b)) = IF a <= b THEN b - a + 1 ELSE 0
        /\ \A i \in 1..(b - a + 1) : SubSeq(page, a, b)[i] = page[a + i - 1]
    BY <2>1, <2>2, SubSeqProperties
  <2> QED
    BY <2>1, <2>3 DEF a, b
<1> HIDE DEF n, m, r, k, skip, take, part, whole
<1>6. /\ result \in Seq(S) /\ Len(result) = r + take
      /\ \A i \in 1..(r + take) : result[i] = IF i <= r THEN reply[i] ELSE part[i - r]
  BY <1>0, <1>5, ConcatProperties DEF r
<1> HIDE DEF result
<1>7. ASSUME NEW i \in 1..(r + take) PROVE result[i] = whole[offset + i]
  <2>1. CASE i <= r
    <3>1. i \in 1..r /\ offset + i \in 1..(n + m) /\ offset + i <= n
      BY <1>1, <1>4, <2>1
    <3>2. result[i] = reply[i] /\ reply[i] = list[offset + i]
      BY <1>2, <1>6, <2>1, <3>1
    <3>3. whole[offset + i] = list[offset + i]
      BY <1>3, <3>1
    <3> QED
      BY <3>2, <3>3
  <2>2. CASE ~(i <= r)
    <3>1. i - r \in 1..take /\ take # 0
      BY <1>1, <1>4, <2>2
    <3>2. result[i] = page[skip + (i - r)]
      BY <1>5, <1>6, <2>2, <3>1
    <3>3. PICK j \in 1..(n + m) : j = offset + i /\ ~(j <= n) /\ j - n = skip + (i - r)
      BY <1>1, <1>4, <3>1
    <3>4. whole[j] = page[j - n]
      BY <1>3, <3>3
    <3> QED
      BY <3>2, <3>3, <3>4
  <2> QED
    BY <2>1, <2>2
<1>8. IsSlice(result, whole, offset, limit)
  BY <1>3, <1>4, <1>6, <1>7 DEF IsSlice
<1>9. result = Slice(whole, offset, limit)
  BY <1>3, <1>6, <1>8, SliceUnique
<1>10. PageStep(ReplySoFar(list, offset, limit), page, offset, limit)
          = [skipped |-> Least(offset, n) + skip, result |-> result]
  BY DEF PageStep, ReplySoFar, n, m, r, reply, skip, take, part, result, SkipOf, TakeOf
<1>11. ReplySoFar(whole, offset, limit) = [skipped |-> Least(offset, k), result |-> result]
  BY <1>3, <1>9 DEF ReplySoFar
<1> QED
  BY <1>4, <1>10, <1>11 DEF whole

\* A reply of get_allowlist_page is that slice of the list, wherever the
\* pages were cut and whatever holes they have.
LEMMA ReplyIsSlice ==
  ASSUME NEW S, roster.pages \in Seq(Seq(S)), roster.pages # <<>>,
         NEW offset \in Nat, NEW limit, CappedLimit(limit) \in Nat
  PROVE  GetAllowlistPage(offset, limit)
            = Slice(Seqs!FlattenSeq(roster.pages), offset, CappedLimit(limit))
<1> DEFINE pages == roster.pages
           N == Len(pages)
           most == CappedLimit(limit)
           start == [skipped |-> 0, result |-> <<>>]
           IsRun(g) == g = [p \in 0..N |->
                              IF p = 0 THEN start ELSE PageStep(g[p - 1], pages[p], offset, most)]
           run == CHOOSE g : IsRun(g)
<1>1. N \in Nat /\ \A p \in 1..N : pages[p] \in Seq(S)
  BY PagesTyped
<1>2. GetAllowlistPage(offset, limit) = run[N].result
  BY DEF GetAllowlistPage
<1>3. PICK flat \in [0..N -> Seq(S)] : Flattens(flat, pages)
  BY FlatSteps
<1> DEFINE g == [p \in 0..N |-> ReplySoFar(flat[p], offset, most)]
<1> HIDE DEF pages, N, most
<1>4. /\ flat[0] = <<>>
      /\ \A p \in 1..N : flat[p] = flat[p - 1] \o pages[p]
      /\ Seqs!FlattenSeq(pages) = flat[N]
  BY <1>3 DEF Flattens, N
<1>5. most \in Nat /\ 0 \in 0..N
  BY <1>1 DEF most
<1>6. g[0] = start
  <2>1. Slice(<<>>, offset, most) \in Seq(S) /\ Len(Slice(<<>>, offset, most)) = 0
    <3>1. <<>> \in Seq(S) /\ Len(<<>>) = 0
      BY EmptyList
    <3>2. /\ Slice(<<>>, offset, most) \in Seq(S)
          /\ IsSlice(Slice(<<>>, offset, most), <<>>, offset, most)
      BY <1>5, <3>1, SliceUnique
    <3>3. SliceLength(0, offset, most) = 0
      BY DEF SliceLength
    <3> QED
      BY <3>1, <3>2, <3>3 DEF IsSlice
  <2>2. Slice(<<>>, offset, most) = <<>>
    BY <2>1, EmptySeq
  <2>3. Least(offset, Len(<<>>)) = 0
    BY EmptyList DEF Least
  <2> QED
    BY <1>4, <1>5, <2>2, <2>3 DEF ReplySoFar
<1>7. ASSUME NEW p \in 1..N PROVE g[p] = PageStep(g[p - 1], pages[p], offset, most)
  <2>1. p \in 0..N /\ p - 1 \in 0..N
    BY <1>1
  <2>2. flat[p - 1] \in Seq(S) /\ pages[p] \in Seq(S) /\ flat[p] = flat[p - 1] \o pages[p]
    BY <1>1, <1>4, <2>1
  <2>3. PageStep(ReplySoFar(flat[p - 1], offset, most), pages[p], offset, most)
           = ReplySoFar(flat[p - 1] \o pages[p], offset, most)
    BY <1>5, <2>2, PageExtendsReply
  <2> QED
    BY <2>1, <2>2, <2>3
<1> HIDE DEF start
<1>8. IsRun(run)
  <2>1. \A p \in 0..N : g[p] = IF p = 0 THEN start ELSE PageStep(g[p - 1], pages[p], offset, most)
    <3> HIDE DEF g
    <3> TAKE p \in 0..N
    <3>1. CASE p = 0
      BY <1>6, <3>1
    <3>2. CASE p # 0
      <4>1. p \in 1..N
        BY <1>1, <3>2
      <4> QED
        BY <1>7, <3>2, <4>1
    <3> QED
      BY <3>1, <3>2
  <2>2. g = [p \in 0..N |-> g[p]]
    OBVIOUS
  <2> HIDE DEF g
  <2>3. IsRun(g)
    BY <2>1, <2>2
  <2> HIDE DEF IsRun
  <2> QED
    BY <2>3
<1> HIDE DEF run, g
<1>9. run[N] = g[N]
  <2>1. run[0] = start /\ \A p \in 1..N : run[p] = PageStep(run[p - 1], pages[p], offset, most)
    BY <1>1, <1>8
  <2>2. InStep(run, g, N)
    BY <1>6, <1>7, <2>1 DEF InStep
  <2> QED
    BY <1>1, <2>2, LoopRunsAgree
<1>10. g[N].result = Slice(flat[N], offset, most)
  BY <1>1 DEF g, ReplySoFar
<1> QED
  BY <1>2, <1>4, <1>9, <1>10 DEF pages, most

\* A client that pages through the list with any page size misses nobody and
\* meets nobody twice, as long as the list stays as it is: the reply at any
\* position is the part of the list that follows it.
THEOREM PageWalkAlwaysComplete == Spec => []PageWalkIsComplete
<1>1. Consistent => PageWalkIsComplete
  <2> SUFFICES ASSUME Consistent, NEW limit \in 0..(MAX_ALLOWLIST_PAGE_SIZE + 1),
                      NEW offset \in 0..Len(GetAllowlist)
               PROVE  GetAllowlistPage(offset, limit) =
                         SubSeq(GetAllowlist, offset + 1,
                                Least(offset + CappedLimit(limit), Len(GetAllowlist)))
    BY DEF PageWalkIsComplete
  <2>1. roster.pages \in Seq(Seq(Address)) /\ roster.pages # <<>>
    BY DEF Consistent, Filed, FiledAs
  <2>2. CappedLimit(limit) \in Nat
    BY ConstantsAssumption DEF CappedLimit
  <2>3. offset \in Nat
    OBVIOUS
  <2> QED
    BY <2>1, <2>2, <2>3, ReplyIsSlice DEF Slice, GetAllowlist
<1> QED
  BY <1>1, AlwaysConsistent, PTL

-----------------------------------------------------------------------------
(* What the operations do to the order of the list. *)

Flat(pages) == Seqs!FlattenSeq(pages)

\* Two paged lists share their first k pages.
SharePages(pages, after, k) ==
    /\ k \in Nat /\ k <= Len(pages) /\ k <= Len(after)
    /\ \A p \in 1..k : after[p] = pages[p]

\* As long as the pages are the same, so is the list made of them.
LEMMA FlattenAgree ==
  ASSUME NEW pages, NEW after, NEW f, NEW g, Flattens(f, pages), Flattens(g, after),
         Len(pages) \in Nat, Len(after) \in Nat, NEW k, SharePages(pages, after, k)
  PROVE  InStep(f, g, k)
<1>1. k \in Nat /\ 1..k \subseteq 1..Len(pages) /\ 1..k \subseteq 1..Len(after)
  BY DEF SharePages
<1>2. f[0] = g[0] /\ \A p \in 1..k : f[p] = f[p - 1] \o pages[p] /\ g[p] = g[p - 1] \o pages[p]
  BY <1>1 DEF Flattens, SharePages
<1> QED
  BY <1>2 DEF InStep

\* The last page grows at its end.
LEMMA LastPageGrows ==
  ASSUME NEW S, NEW pages \in Seq(Seq(S)), pages # <<>>, NEW a \in S
  PROVE  LET after == [pages EXCEPT ![Len(pages)] = Append(@, a)]
         IN  after \in Seq(Seq(S)) /\ after # <<>> /\ Extends(Flat(pages), Flat(after))
<1> DEFINE n == Len(pages)
           page == Append(pages[n], a)
           after == [pages EXCEPT ![n] = page]
<1>1. /\ n \in Nat \ {0} /\ n \in 1..n /\ n - 1 \in Nat
      /\ \A p \in 1..n : pages[p] \in Seq(S)
  BY PagesTyped
<1>2. page \in Seq(S) /\ Extends(pages[n], page)
  <2>1. pages[n] \in Seq(S)
    BY <1>1
  <2> QED
    BY <2>1, AppendProperties, LenProperties DEF Extends
<1>3. /\ after \in Seq(Seq(S)) /\ Len(after) = n /\ after[n] = page
      /\ \A q \in 1..n : q # n => after[q] = pages[q]
  BY <1>1, <1>2, PageReplaced
<1> HIDE DEF after, page
<1>4. after # <<>>
  BY <1>1, <1>3, EmptySeq
<1>5. PICK f \in [0..Len(pages) -> Seq(S)] : Flattens(f, pages)
  BY FlatSteps
<1>6. PICK g \in [0..Len(after) -> Seq(S)] : Flattens(g, after)
  BY <1>3, <1>4, FlatSteps
<1>7. f[n - 1] = g[n - 1]
  <2>1. \A p \in 1..(n - 1) : p \in 1..n /\ p # n
    BY <1>1
  <2>2. SharePages(pages, after, n - 1)
    BY <1>1, <1>3, <2>1 DEF SharePages
  <2>5. Len(pages) \in Nat /\ Len(after) \in Nat
    BY <1>1, <1>3
  <2> HIDE DEF n
  <2>3. InStep(f, g, n - 1)
    BY <1>5, <1>6, <2>2, <2>5, FlattenAgree
  <2>4. \A i \in 0..(n - 1) : f[i] = g[i]
    BY <1>1, <2>3, LoopRunsAgree
  <2> QED
    BY <1>1, <2>4
<1>8. /\ f[n - 1] \in Seq(S)
      /\ Flat(pages) = f[n - 1] \o pages[n]
      /\ Flat(after) = f[n - 1] \o page
  <2>1. n - 1 \in 0..n
    BY <1>1
  <2> QED
    BY <1>1, <1>3, <1>5, <1>6, <1>7, <2>1 DEF Flattens, Flat
<1>9. Extends(Flat(pages), Flat(after))
  BY <1>1, <1>2, <1>8, JoinedExtends
<1> QED
  BY <1>3, <1>4, <1>9 DEF after, page

\* A page is added.
LEMMA PageAdded ==
  ASSUME NEW S, NEW pages \in Seq(Seq(S)), pages # <<>>
  PROVE  LET more == Append(pages, <<>>)
         IN  more \in Seq(Seq(S)) /\ more # <<>> /\ Extends(Flat(pages), Flat(more))
<1> DEFINE n == Len(pages)
           more == Append(pages, <<>>)
<1>1. /\ n \in Nat \ {0} /\ n \in 1..n
      /\ \A p \in 1..n : pages[p] \in Seq(S)
  BY PagesTyped
<1>2. /\ more \in Seq(Seq(S)) /\ Len(more) = n + 1
      /\ more[n + 1] = <<>> /\ \A p \in 1..n : more[p] = pages[p]
  <2> DEFINE X == Seq(S)
  <2>1. <<>> \in X /\ pages \in Seq(X)
    BY EmptyList
  <2> HIDE DEF X
  <2> QED
    BY <1>1, <2>1, AppendProperties DEF X
<1> HIDE DEF more
<1>3. more # <<>>
  BY <1>1, <1>2, EmptySeq
<1>4. PICK f \in [0..Len(pages) -> Seq(S)] : Flattens(f, pages)
  BY FlatSteps
<1>5. PICK g \in [0..Len(more) -> Seq(S)] : Flattens(g, more)
  BY <1>2, <1>3, FlatSteps
<1>6. f[n] = g[n]
  <2>1. SharePages(pages, more, n)
    BY <1>1, <1>2 DEF SharePages
  <2>2. Len(pages) \in Nat /\ Len(more) \in Nat
    BY <1>1, <1>2
  <2> HIDE DEF n
  <2>3. InStep(f, g, n)
    BY <1>4, <1>5, <2>1, <2>2, FlattenAgree
  <2>4. \A i \in 0..n : f[i] = g[i]
    BY <1>1, <2>3, LoopRunsAgree
  <2> QED
    BY <1>1, <2>4
<1>7. f[n] \in Seq(S) /\ Flat(pages) = f[n] /\ Flat(more) = f[n] \o <<>>
  <2>1. n \in 0..n /\ n + 1 \in 1..(n + 1) /\ (n + 1) - 1 = n
    BY <1>1
  <2> QED
    BY <1>2, <1>4, <1>5, <1>6, <2>1 DEF Flattens, Flat
<1>8. Extends(Flat(pages), Flat(more))
  BY <1>7, JoinedExtends, EmptyList
<1> QED
  BY <1>2, <1>3, <1>8 DEF more

\* append_allowlist puts the newcomer at the end of the list.
LEMMA AppendedExtends ==
  ASSUME NEW r, r.pages \in Seq(Seq(Address)), r.pages # <<>>, NEW a \in Address
  PROVE  Extends(Flat(r.pages), Flat(Appended(r, a).pages))
<1> DEFINE pages == r.pages
<1>1. pages \in Seq(Seq(Address)) /\ pages # <<>>
  OBVIOUS
<1>2. CASE r.page_len >= ALLOWLIST_PAGE_SIZE
  <2> DEFINE more == Append(pages, <<>>)
             filled == [more EXCEPT ![Len(more)] = Append(@, a)]
  <2>1. Appended(r, a).pages = filled
    BY <1>2 DEF Appended
  <2> HIDE DEF pages
  <2>2. more \in Seq(Seq(Address)) /\ more # <<>> /\ Extends(Flat(pages), Flat(more))
    BY <1>1, PageAdded
  <2> HIDE DEF more
  <2>3. filled \in Seq(Seq(Address)) /\ filled # <<>> /\ Extends(Flat(more), Flat(filled))
    BY <2>2, LastPageGrows
  <2>4. Flat(pages) \in Seq(Address) /\ Flat(more) \in Seq(Address) /\ Flat(filled) \in Seq(Address)
    <3> HIDE DEF filled
    <3> QED
      BY <1>1, <2>2, <2>3, FlattenedItems DEF Flat
  <2>5. Extends(Flat(pages), Flat(filled))
    <3> HIDE DEF filled
    <3> QED
      BY <2>2, <2>3, <2>4, ExtendsTransitive
  <2> QED
    BY <2>1, <2>5 DEF pages
<1>3. CASE ~(r.page_len >= ALLOWLIST_PAGE_SIZE)
  <2> DEFINE filled == [pages EXCEPT ![Len(pages)] = Append(@, a)]
  <2>1. Appended(r, a).pages = filled
    BY <1>3 DEF Appended
  <2> HIDE DEF pages
  <2>2. Extends(Flat(pages), Flat(filled))
    BY <1>1, LastPageGrows
  <2> QED
    BY <2>1, <2>2 DEF pages
<1> QED
  BY <1>2, <1>3


\* The list the books publish.
ListOf(b) == Flat(b.roster.pages)

LEMMA BookPages ==
  ASSUME NEW b \in FiledBooks
  PROVE  /\ b.roster.pages \in Seq(Seq(Address)) /\ b.roster.pages # <<>>
         /\ ListOf(b) \in Seq(Address)
<1>1. FiledAs(b.record, b.roster.pages, b.roster.page_len, b.roster.page_of, b.roster.count)
  BY DEF FiledBooks, Filed
<1> DEFINE pages == b.roster.pages
<1>2. pages \in Seq(Seq(Address)) /\ pages # <<>>
  BY <1>1 DEF FiledAs
<1> HIDE DEF pages
<1>3. Flat(pages) \in Seq(Address)
  BY <1>2, FlattenedItems DEF Flat
<1> QED
  BY <1>2, <1>3 DEF pages, ListOf

LEMMA EnrolledExtends ==
  ASSUME NEW b \in FiledBooks, NEW entry \in Entry
  PROVE  Extends(ListOf(b), ListOf(Enrolled(b, entry)))
<1> DEFINE r == b.roster
           a == entry.address
<1>1. r.pages \in Seq(Seq(Address)) /\ r.pages # <<>> /\ ListOf(b) \in Seq(Address)
  BY BookPages
<1>2. a \in Address
  BY DEF Entry
<1>3. Enrolled(b, entry).roster = IF b.record[a] # NoRecord THEN r ELSE Appended(r, a)
  BY DEF Enrolled
<1>4. ListOf(b) = Flat(r.pages)
  BY DEF ListOf
<1> HIDE DEF r, a
<1>5. CASE b.record[a] = NoRecord
  <2>1. Extends(Flat(r.pages), Flat(Appended(r, a).pages))
    BY <1>1, <1>2, AppendedExtends
  <2> QED
    BY <1>3, <1>4, <1>5, <2>1 DEF ListOf
<1>6. CASE b.record[a] # NoRecord
  <2>1. Extends(ListOf(b), ListOf(b))
    BY <1>1, JoinedExtends
  <2> QED
    BY <1>3, <1>4, <1>6, <2>1 DEF ListOf
<1> QED
  BY <1>5, <1>6

\* A batch only adds to the end of the list: by induction over its entries.
LEMMA BatchExtends ==
  ASSUME NEW entries \in Seq(Entry),
         \A i \in 1..Len(entries) : Canonical[entries[i].spelling] # Invalid,
         [record |-> record, roster |-> roster] \in FiledBooks
  PROVE  Extends(Flat(roster.pages), ListOf(EnrolmentRun(entries)[Len(entries)]))
<1> DEFINE N == Len(entries)
           run == EnrolmentRun(entries)
           start == [record |-> record, roster |-> roster]
           Good(i) == Extends(ListOf(start), ListOf(run[i]))
           Bad == {i \in 0..N : ~Good(i)}
<1>1. N \in Nat /\ \A i \in 1..N : entries[i] \in Entry
  BY LenProperties, ElementOfSeq
<1>2. /\ \A i \in 0..N : run[i] \in FiledBooks
      /\ run[0] = start
      /\ \A i \in 1..N : run[i] = Enrolled(run[i - 1], entries[i])
  BY EnrolmentFiled
<1>3. start \in FiledBooks /\ ListOf(start) = Flat(roster.pages)
  BY DEF ListOf
<1> HIDE DEF N, run, start
<1>4. ListOf(start) \in Seq(Address) /\ \A i \in 0..N : ListOf(run[i]) \in Seq(Address)
  BY <1>2, <1>3, BookPages
<1>5. Good(0)
  BY <1>2, <1>4, JoinedExtends
<1>6. ASSUME NEW i \in 1..N, Good(i - 1) PROVE Good(i)
  <2>1. i - 1 \in 0..N /\ i \in 0..N
    BY <1>1
  <2>2. Extends(ListOf(run[i - 1]), ListOf(run[i]))
    BY <1>1, <1>2, <2>1, EnrolledExtends
  <2> QED
    BY <1>4, <1>6, <2>1, <2>2, ExtendsTransitive
<1>7. Bad = {}
  <2> SUFFICES ASSUME Bad # {} PROVE FALSE
    OBVIOUS
  <2> HIDE DEF Good
  <2>1. Bad \subseteq Nat
    OBVIOUS
  <2>2. PICK i \in Bad : \A j \in Bad : i <= j
    BY <2>1, LeastNatural
  <2>3. i \in 1..N /\ i - 1 \in 0..N /\ i - 1 \notin Bad
    BY <1>1, <1>5, <2>2
  <2>4. Good(i - 1)
    BY <2>3
  <2> QED
    BY <1>6, <2>2, <2>3, <2>4
<1>8. Good(N)
  <2>1. N \in 0..N
    BY <1>1
  <2> HIDE DEF Good
  <2> QED
    BY <1>7, <2>1
<1> QED
  BY <1>3, <1>8 DEF N, run

\* An item stands before another on an earlier page, or before it on one page.
Placed(pages, x, y) ==
    \E p, q \in 1..Len(pages) :
        /\ In(x, pages[p]) /\ In(y, pages[q])
        /\ p < q \/ (p = q /\ Before(pages[p], x, y))

LEMMA FlatBefore ==
  ASSUME NEW S, NEW pages \in Seq(Seq(S)), pages # <<>>, NEW x, NEW y,
         Before(Flat(pages), x, y)
  PROVE  Placed(pages, x, y)
<1> DEFINE N == Len(pages)
<1>1. N \in Nat /\ \A i \in 1..N : pages[i] \in Seq(S)
  BY PagesTyped
<1>2. PICK flat \in [0..N -> Seq(S)] : Flattens(flat, pages)
  BY FlatSteps
<1>3. /\ flat[0] = <<>>
      /\ \A i \in 1..N : flat[i] = flat[i - 1] \o pages[i]
      /\ Flat(pages) = flat[N]
  BY <1>2 DEF Flattens, Flat
<1> DEFINE Upto(z, i) == \E p \in 1..i : In(z, pages[p])
           PlacedUpto(i) == \E p, q \in 1..i :
                               /\ In(x, pages[p]) /\ In(y, pages[q])
                               /\ p < q \/ (p = q /\ Before(pages[p], x, y))
           Good(i) == /\ \A z : In(z, flat[i]) => Upto(z, i)
                      /\ Before(flat[i], x, y) => PlacedUpto(i)
           Bad == {i \in 0..N : ~Good(i)}
<1>4. Good(0)
  <2>1. \A z : ~In(z, flat[0])
    BY <1>3, EmptyList
  <2>2. ~Before(flat[0], x, y)
    BY <2>1, BeforeIn
  <2> QED
    BY <2>1, <2>2
<1>5. ASSUME NEW i \in 1..N, Good(i - 1) PROVE Good(i)
  <2> DEFINE old == flat[i - 1]
             page == pages[i]
  <2>1. old \in Seq(S) /\ page \in Seq(S) /\ flat[i] = old \o page
    <3>1. i - 1 \in 0..N
      BY <1>1
    <3> HIDE DEF N, Good
    <3> QED
      BY <1>1, <1>3, <3>1
  <2>2. /\ \A z : In(z, old) => Upto(z, i - 1)
        /\ Before(old, x, y) => PlacedUpto(i - 1)
    BY <1>5
  <2>3. /\ \A z : Upto(z, i - 1) => Upto(z, i)
        /\ PlacedUpto(i - 1) => PlacedUpto(i)
    <3>1. 1..(i - 1) \subseteq 1..i
      BY <1>1
    <3> QED
      BY <3>1
  <2>4. i \in 1..i /\ \A p \in 1..(i - 1) : p \in 1..i /\ p < i
    BY <1>1
  <2>5. /\ \A z : In(z, page) => Upto(z, i)
        /\ Upto(x, i - 1) /\ In(y, page) => PlacedUpto(i)
        /\ Before(page, x, y) => PlacedUpto(i)
    <3>1. \A z : In(z, page) => Upto(z, i)
      BY <2>4
    <3>2. Upto(x, i - 1) /\ In(y, page) => PlacedUpto(i)
      BY <2>4
    <3>3. Before(page, x, y) => In(x, page) /\ In(y, page)
      BY BeforeIn
    <3>4. Before(page, x, y) => PlacedUpto(i)
      BY <2>4, <3>3
    <3> QED
      BY <3>1, <3>2, <3>4
  <2> HIDE DEF Upto, PlacedUpto, old, page
  <2>6. \A z : In(z, flat[i]) <=> (In(z, old) \/ In(z, page))
    BY <2>1, JoinedList
  <2>7. Before(flat[i], x, y) =>
           Before(old, x, y) \/ (In(x, old) /\ In(y, page)) \/ Before(page, x, y)
    BY <2>1, JoinedBefore
  <2> QED
    BY <2>2, <2>3, <2>5, <2>6, <2>7
<1>6. Bad = {}
  <2> SUFFICES ASSUME Bad # {} PROVE FALSE
    OBVIOUS
  <2> HIDE DEF Good
  <2>1. Bad \subseteq Nat
    OBVIOUS
  <2>2. PICK i \in Bad : \A j \in Bad : i <= j
    BY <2>1, LeastNatural
  <2>3. i \in 1..N /\ i - 1 \in 0..N /\ i - 1 \notin Bad
    BY <1>1, <1>4, <2>2
  <2>4. Good(i - 1)
    BY <2>3
  <2> QED
    BY <1>5, <2>2, <2>3, <2>4
<1>7. Good(N)
  <2>1. N \in 0..N
    BY <1>1
  <2> HIDE DEF Good, N
  <2> QED
    BY <1>6, <2>1
<1> QED
  BY <1>3, <1>7 DEF Placed

\* A list with holes in it: nothing new, and what is left in its order.
Thins(l, m) ==
    /\ \A z : In(z, m) => In(z, l)
    /\ \A u, v : Before(m, u, v) => Before(l, u, v)

LEMMA WithoutThins ==
  ASSUME NEW S, NEW list \in Seq(S), NEW gone
  PROVE  Thins(list, list) /\ Thins(list, Without(list, gone))
<1>1. \A z : In(z, Without(list, gone)) => In(z, list)
  BY WithoutKeeps
<1>2. \A u, v : Before(Without(list, gone), u, v) => Before(list, u, v)
  BY KeptOrder DEF Without
<1> QED
  BY <1>1, <1>2 DEF Thins

\* No item stands on two pages, or twice on one.
Apart(pages) ==
    /\ \A p \in 1..Len(pages) : Distinct(pages[p])
    /\ \A p, q \in 1..Len(pages) : \A x : In(x, pages[p]) /\ In(x, pages[q]) => p = q

\* Holes in the pages leave the list in its order.
LEMMA HolesKeepOrder ==
  ASSUME NEW S, NEW pages \in Seq(Seq(S)), pages # <<>>, Apart(pages),
         NEW after \in Seq(Seq(S)), Len(after) = Len(pages),
         \A p \in 1..Len(pages) : Thins(pages[p], after[p])
  PROVE  SameOrder(Flat(pages), Flat(after)) /\ NewLast(Flat(pages), Flat(after))
<1> DEFINE n == Len(pages)
<1>1. /\ n \in Nat \ {0} /\ \A p \in 1..n : pages[p] \in Seq(S)
  BY PagesTyped
<1>2. after # <<>>
  BY <1>1, EmptySeq
<1>3. /\ \A p \in 1..n : Distinct(pages[p])
      /\ \A p, q \in 1..n : \A x : In(x, pages[p]) /\ In(x, pages[q]) => p = q
  BY DEF Apart
<1>4. /\ \A p \in 1..n : \A z : In(z, after[p]) => In(z, pages[p])
      /\ \A p \in 1..n : \A u, v : Before(after[p], u, v) => Before(pages[p], u, v)
  BY DEF Thins
<1>5. ASSUME NEW x, NEW y, Before(Flat(pages), x, y), Before(Flat(after), y, x) PROVE FALSE
  <2>1. Placed(pages, x, y) /\ Placed(after, y, x)
    BY <1>2, <1>5, FlatBefore
  <2>2. PICK p \in 1..n, q \in 1..n :
              /\ In(x, pages[p]) /\ In(y, pages[q])
              /\ p < q \/ (p = q /\ Before(pages[p], x, y))
    BY <2>1 DEF Placed
  <2>3. PICK s \in 1..n, t \in 1..n :
              /\ In(y, after[s]) /\ In(x, after[t])
              /\ s < t \/ (s = t /\ Before(after[s], y, x))
    BY <2>1 DEF Placed
  <2> HIDE DEF n
  <2>4. s = q /\ t = p
    BY <1>3, <1>4, <2>2, <2>3
  <2>5. p = q /\ Before(pages[p], x, y) /\ Before(pages[p], y, x)
    <3>1. ~(p < q /\ q < p) /\ ~(p < p)
      BY <1>1
    <3>2. p = q
      BY <1>1, <2>2, <2>3, <2>4
    <3> QED
      BY <1>4, <2>2, <2>3, <2>4, <3>1, <3>2
  <2> QED
    BY <1>1, <1>3, <2>5, OneWay
<1>6. ASSUME NEW y, In(y, Flat(after)) PROVE In(y, Flat(pages))
  <2>1. \A x : In(x, Flat(after)) <=> \E p \in 1..Len(after) : In(x, after[p])
    BY <1>2, FlattenedItems DEF Flat
  <2>2. \A x : In(x, Flat(pages)) <=> \E p \in 1..n : In(x, pages[p])
    BY FlattenedItems DEF Flat
  <2> HIDE DEF n
  <2> QED
    BY <1>4, <1>6, <2>1, <2>2 DEF n
<1> QED
  BY <1>5, <1>6, BeforeIn DEF SameOrder, NewLast

\* What any step may do to the published list.
Moves(l, m) == SameOrder(l, m) /\ NewLast(l, m)

LEMMA Unmoved ==
  ASSUME NEW S, NEW list \in Seq(S), Distinct(list)
  PROVE  Moves(list, list)
BY OneWay, BeforeIn DEF Moves, SameOrder, NewLast

\* The pages, typed and without repetition.
GoodPages(pages) == pages \in Seq(Seq(Address)) /\ pages # <<>> /\ Apart(pages)

LEMMA PagesGood ==
  ASSUME Consistent
  PROVE  /\ GoodPages(roster.pages)
         /\ Flat(roster.pages) \in Seq(Address) /\ Distinct(Flat(roster.pages))
<1> DEFINE pages == roster.pages
<1>1. pages \in Seq(Seq(Address)) /\ pages # <<>>
  BY DEF Consistent, Filed, FiledAs
<1>2. /\ \A p \in 1..Len(pages) : Distinct(pages[p]) /\ pages[p] \in Seq(Address)
      /\ \A p \in 1..Len(pages), a \in Address :
            In(a, pages[p]) => record[a] # NoRecord /\ roster.page_of[a] = p
  BY PlacesOf
<1> HIDE DEF pages
<1>3. ASSUME NEW p \in 1..Len(pages), NEW q \in 1..Len(pages), NEW x,
             In(x, pages[p]), In(x, pages[q])
      PROVE  p = q
  <2>1. pages[p] \in Seq(Address)
    BY <1>2
  <2>2. x \in Address
    BY <1>3, <2>1, ElementOfSeq DEF In
  <2>3. roster.page_of[x] = p /\ roster.page_of[x] = q
    BY <1>2, <1>3, <2>2
  <2> QED
    BY <2>3
<1>4. Apart(pages)
  BY <1>2, <1>3 DEF Apart
<1>5. Flat(pages) \in Seq(Address) /\ Distinct(Flat(pages))
  BY <1>1, <1>4, FlattenedItems DEF Apart, Flat
<1> QED
  BY <1>1, <1>4, <1>5 DEF GoodPages, pages

GoodList ==
    /\ GoodPages(roster.pages)
    /\ Flat(roster.pages) \in Seq(Address) /\ Distinct(Flat(roster.pages))

LEMMA ConsistentList == Consistent => GoodList
BY PagesGood DEF GoodList

LEMMA RemovalMoves ==
  ASSUME NEW r, GoodPages(r.pages), NEW a, r.page_of[a] \in 1..Len(r.pages)
  PROVE  Moves(Flat(r.pages), Flat(RemovedFrom(r, a).pages))
<1> DEFINE pages == r.pages
           p == r.page_of[a]
           page == Without(pages[p], {a})
           after == [pages EXCEPT ![p] = page]
<1>1. pages \in Seq(Seq(Address)) /\ pages # <<>> /\ Apart(pages)
  BY DEF GoodPages
<1>2. p \in 1..Len(pages) /\ p # 0
  <2>1. Len(pages) \in Nat
    BY <1>1, PagesTyped
  <2> QED
    BY <2>1
<1>3. RemovedFrom(r, a).pages = after
  BY <1>2 DEF RemovedFrom
<1> HIDE DEF pages, p
<1>4. \A q \in 1..Len(pages) : pages[q] \in Seq(Address)
  BY <1>1, PagesTyped
<1>5. page \in Seq(Address) /\ Thins(pages[p], page)
  BY <1>2, <1>4, WithoutKeeps, WithoutThins
<1> HIDE DEF page
<1>6. /\ after \in Seq(Seq(Address)) /\ Len(after) = Len(pages) /\ after[p] = page
      /\ \A q \in 1..Len(pages) : q # p => after[q] = pages[q]
  BY <1>1, <1>2, <1>5, PageReplaced
<1> HIDE DEF after
<1>7. ASSUME NEW q \in 1..Len(pages) PROVE Thins(pages[q], after[q])
  <2>1. Thins(pages[q], pages[q])
    BY <1>4, WithoutThins
  <2> QED
    BY <1>5, <1>6, <2>1
<1>8. SameOrder(Flat(pages), Flat(after)) /\ NewLast(Flat(pages), Flat(after))
  BY <1>1, <1>6, <1>7, HolesKeepOrder
<1> QED
  BY <1>3, <1>8 DEF Moves, pages

LEMMA PruningMoves ==
  ASSUME NEW r, GoodPages(r.pages), NEW lapsed, NEW gone,
         GoodPages(Pruned(r, lapsed, gone).pages),
         Len(Pruned(r, lapsed, gone).pages) = Len(r.pages),
         Pruned(r, lapsed, gone).pages = PagesAfterPruning(r.pages, gone)
  PROVE  Moves(Flat(r.pages), Flat(Pruned(r, lapsed, gone).pages))
<1> DEFINE pages == r.pages
           after == Pruned(r, lapsed, gone).pages
<1>1. /\ pages \in Seq(Seq(Address)) /\ pages # <<>> /\ Apart(pages)
      /\ after \in Seq(Seq(Address)) /\ Len(after) = Len(pages)
  BY DEF GoodPages
<1>2. after = PagesAfterPruning(pages, gone)
  OBVIOUS
<1> HIDE DEF pages, after
<1>3. \A q \in 1..Len(pages) : pages[q] \in Seq(Address)
  BY <1>1, PagesTyped
<1>4. DOMAIN pages = 1..Len(pages)
  <2> DEFINE X == Seq(Address)
  <2>1. pages \in Seq(X)
    BY <1>1
  <2> HIDE DEF X
  <2> QED
    BY <2>1, LenProperties
<1>5. ASSUME NEW q \in 1..Len(pages) PROVE Thins(pages[q], after[q])
  <2>1. after[q] = Without(pages[q], gone)
    BY <1>2, <1>4 DEF PagesAfterPruning
  <2>2. Thins(pages[q], Without(pages[q], gone))
    BY <1>3, WithoutThins
  <2> QED
    BY <2>1, <2>2
<1>6. SameOrder(Flat(pages), Flat(after)) /\ NewLast(Flat(pages), Flat(after))
  BY <1>1, <1>5, HolesKeepOrder
<1> QED
  BY <1>6 DEF Moves, pages, after

LEMMA BatchMoves ==
  ASSUME Consistent, NEW caller \in Address, NEW entries \in Seq(Entry),
         AddToAllowlistBatch(caller, entries), Distinct(Flat(roster'.pages)),
         Flat(roster'.pages) \in Seq(Address)
  PROVE  Moves(Flat(roster.pages), Flat(roster'.pages))
<1>1. [record |-> record, roster |-> roster] \in FiledBooks
  BY ConsistentParts, BooksAreFiled DEF BooksFiled
<1>2. \A i \in 1..Len(entries) : Canonical[entries[i].spelling] # Invalid
  <2>1. DOMAIN entries = 1..Len(entries)
    BY LenProperties
  <2> QED
    BY <2>1 DEF AddToAllowlistBatch, ValidEntry
<1>3. Extends(Flat(roster.pages), ListOf(EnrolmentRun(entries)[Len(entries)]))
  BY <1>1, <1>2, BatchExtends
<1>4. roster' = EnrolmentRun(entries)[Len(entries)].roster
  BY DEF AddToAllowlistBatch
<1>5. Extends(Flat(roster.pages), Flat(roster'.pages))
  BY <1>3, <1>4 DEF ListOf
<1>6. Flat(roster.pages) \in Seq(Address)
  BY PagesGood
<1> QED
  BY <1>5, <1>6, ExtendsOrder DEF Moves

\* No step changes the order of the list, and whoever is new on it comes last.
LEMMA ListMoves ==
  ASSUME Consistent, [Next]_vars
  PROVE  /\ Moves(Flat(roster.pages), Flat(roster'.pages))
         /\ Flat(roster'.pages) \in Seq(Address) /\ Distinct(Flat(roster'.pages))
<1>1. Consistent'
  BY NextConsistent
<1>2. /\ GoodPages(roster.pages) /\ Flat(roster.pages) \in Seq(Address)
      /\ Distinct(Flat(roster.pages))
  BY PagesGood
<1>3. /\ GoodPages(roster'.pages) /\ Flat(roster'.pages) \in Seq(Address)
      /\ Distinct(Flat(roster'.pages))
  <2>1. GoodList'
    BY <1>1, ConsistentList, PTL
  <2> QED
    BY <2>1 DEF GoodList
<1> DEFINE Goal == Moves(Flat(roster.pages), Flat(roster'.pages))
<1>4. ASSUME roster' = roster PROVE Goal
  BY <1>2, <1>4, Unmoved
<1>5. ASSUME NEW caller \in Address, RosterStep(caller) PROVE Goal
  <2>1. CASE \E a \in Subject, s \in Spelling, e \in Expiry : AddToAllowlist(caller, a, s, e)
    <3>1. PICK a \in Subject, s \in Spelling, e \in Expiry : AddToAllowlist(caller, a, s, e)
      BY <2>1
    <3> DEFINE entry == [address |-> a, spelling |-> s, expires_at |-> e]
    <3>2. entry \in Entry
      BY ConstantsAssumption DEF Entry
    <3>3. AddToAllowlistBatch(caller, <<entry>>)
      BY <3>1 DEF AddToAllowlist
    <3> HIDE DEF entry
    <3>4. <<entry>> \in Seq(Entry)
      BY <3>2
    <3> QED
      BY <1>3, <3>3, <3>4, BatchMoves
  <2>2. CASE \E entries \in Batch : AddToAllowlistBatch(caller, entries)
    <3>1. Batch \subseteq Seq(Entry)
      BY ConstantsAssumption DEF Entry
    <3> QED
      BY <1>3, <2>2, <3>1, BatchMoves
  <2>3. CASE \E a \in Subject : Remove(caller, a)
    <3>1. PICK a \in Subject : Remove(caller, a)
      BY <2>3
    <3>2. a \in Address /\ record[a] # NoRecord /\ roster' = RemovedFrom(roster, a)
      BY <3>1, ConstantsAssumption DEF Remove, Recorded
    <3>3. roster.page_of[a] \in 1..Len(roster.pages)
      BY <3>2 DEF Consistent, Filed, FiledAs, People
    <3> QED
      BY <1>2, <3>2, <3>3, RemovalMoves
  <2>4. CASE \E n \in PruneBound : PruneExpired(caller, n)
    <3>1. PICK n \in PruneBound : PruneExpired(caller, n)
      BY <2>4
    <3> DEFINE lapsed == {a \in Examined(n) : Recorded(a) /\ Lapsed(record[a])}
               stray == {a \in Examined(n) : ~Recorded(a)}
               gone == lapsed \union stray
    <3>2. roster' = Pruned(roster, lapsed, gone)
      BY <3>1 DEF PruneExpired, RecordsAfterPruning, Pruned, PagesAfterPruning, IndexAfterPruning
    <3>3. Filed(record, roster) /\ roster \in Roster /\ BooksOK
      BY ConsistentParts, BooksAreFiled DEF BooksOK
    <3>4. n \in Nat
      BY ConstantsAssumption
    <3>5. Prunable(record, lapsed, stray)
      BY <3>3, <3>4, ExaminedOnFile DEF Prunable, People, Recorded
    <3> HIDE DEF lapsed, stray
    <3>6. Len(Pruned(roster, lapsed, gone).pages) = Len(roster.pages)
      <4>1. Filed(record, roster) /\ roster \in Roster
        BY <3>3
      <4>2. /\ [record |-> RecordsAfterPruning(record, lapsed),
                roster |-> Pruned(roster, lapsed, lapsed \union stray)] \in FiledBooks
            /\ Len(Pruned(roster, lapsed, lapsed \union stray).pages) = Len(roster.pages)
        BY <3>5, <4>1, PrunedFiled
      <4> QED
        BY <4>2
    <3> HIDE DEF gone
    <3>7. Pruned(roster, lapsed, gone).pages = PagesAfterPruning(roster.pages, gone)
      BY <3>3 DEF Pruned, Roster
    <3> QED
      BY <1>2, <1>3, <3>2, <3>6, <3>7, PruningMoves
  <2> QED
    BY <1>5, <2>1, <2>2, <2>3, <2>4 DEF RosterStep
<1>6. ASSUME NEW caller \in Address, VerdictStep(caller) PROVE roster' = roster
  BY <1>6 DEF VerdictStep, Suspend, Reinstate, ReinstateBy, BlockJurisdiction,
              UnblockJurisdiction, SetMinHoldingPeriod, RecordAcquisition, bookVars
<1>7. ASSUME NEW caller \in Address, AdminStep(caller) PROVE roster' = roster
  BY <1>7 DEF AdminStep, Initialize, ProposeAdmin, CancelAdminProposal, AcceptAdmin, bookVars
<1>8. CloseLedger \/ UNCHANGED vars => roster' = roster
  BY DEF CloseLedger, vars, bookVars
<1>9. Goal
  BY <1>4, <1>5, <1>6, <1>7, <1>8 DEF Next
<1> QED
  BY <1>3, <1>9

-----------------------------------------------------------------------------
(* The reader. *)

Everybody == Cardinality(Address)

LEMMA FinitelyMany == IsFiniteSet(Address) /\ Everybody \in Nat
BY ConstantsAssumption, FS_CardinalityType DEF Everybody

NoReader == [reading |-> FALSE, limit |-> 0, walk |-> NewWalk(<<>>)]

\* A walk that has not ended has in effect read the list up to a cut, never
\* ahead of what it received; one that has ended is covered by the count of
\* those who left.
OnCourse(list, walk) ==
    /\ walk \in WalkOf(Address)
    /\ IF walk.done THEN Settled(walk) /\ Repeated(walk) = {}
       ELSE \E c : CutAt(list, walk, c, Everybody) /\ NoneAhead(walk, c)

WalkOnCourse ==
    \/ reader = NoReader
    \/ /\ reader \in [reading : {TRUE}, limit : Nat, walk : WalkOf(Address)]
       /\ OnCourse(Flat(roster.pages), reader.walk)

\* The inductive invariant.
ReaderInv == Consistent /\ WalkOnCourse

LEMMA StartOnCourse ==
  ASSUME NEW list \in Seq(Address)
  PROVE  OnCourse(list, NewWalk(list))
<1> DEFINE walk == NewWalk(list)
<1>1. /\ walk \in WalkOf(Address) /\ ~walk.done
      /\ CutAt(list, walk, 0, Everybody) /\ NoneAhead(walk, 0)
  BY FinitelyMany, NewWalkCut
<1> HIDE DEF walk
<1> QED
  BY <1>1 DEF OnCourse, walk

LEMMA RequestOnCourse ==
  ASSUME Consistent, NEW limit \in Nat, NEW walk, OnCourse(Flat(roster.pages), walk), ~walk.done
  PROVE  OnCourse(Flat(roster.pages), Received(walk, GetAllowlistPage(Len(walk.seen), limit)))
<1> DEFINE list == Flat(roster.pages)
           cap == CappedLimit(limit)
           reply == GetAllowlistPage(Len(walk.seen), limit)
           after == Received(walk, reply)
<1>1. list \in Seq(Address) /\ Distinct(list)
  BY PagesGood
<1>2. cap \in Nat \ {0}
  BY ConstantsAssumption DEF CappedLimit
<1>3. walk \in WalkOf(Address) /\ Len(walk.seen) \in Nat
  <2>1. walk \in WalkOf(Address)
    BY DEF OnCourse
  <2>2. walk.seen \in Seq(Address)
    BY <2>1 DEF WalkOf
  <2> QED
    BY <2>1, <2>2, LenProperties
<1>4. reply = Slice(list, Len(walk.seen), cap)
  <2>1. roster.pages \in Seq(Seq(Address)) /\ roster.pages # <<>>
    BY PagesGood DEF GoodPages
  <2>2. CappedLimit(limit) \in Nat
    BY <1>2
  <2> QED
    BY <1>3, <2>1, <2>2, ReplyIsSlice DEF Flat
<1>5. PICK c : CutAt(list, walk, c, Everybody) /\ NoneAhead(walk, c)
  BY DEF OnCourse
<1> HIDE DEF list, cap, reply
<1>6. /\ after \in WalkOf(Address) /\ Repeated(after) = {}
      /\ after.done => Settled(after)
      /\ ~after.done => \E d : CutAt(list, after, d, Everybody) /\ NoneAhead(after, d)
  <2>1. /\ after \in WalkOf(Address)
        /\ NoneAhead(walk, c) => Repeated(after) = {}
        /\ after.done => Settled(after)
        /\ ~after.done => \E d : /\ CutAt(list, after, d, Everybody)
                                 /\ NoneAhead(walk, c) => NoneAhead(after, d)
    <3>1. Cardinality(Address) <= Everybody
      BY FinitelyMany DEF Everybody
    <3> QED
      BY <1>1, <1>2, <1>3, <1>4, <1>5, <3>1, FinitelyMany, CutReceived
  <2> HIDE DEF after
  <2> QED
    BY <1>5, <2>1
<1> HIDE DEF after
<1>7. OnCourse(list, after)
  BY <1>6 DEF OnCourse
<1> QED
  BY <1>7 DEF list, after, reply

LEMMA StepOnCourse ==
  ASSUME NEW l \in Seq(Address), Distinct(l), NEW m \in Seq(Address), Distinct(m), Moves(l, m),
         NEW walk, OnCourse(l, walk)
  PROVE  OnCourse(m, Overtaken(walk, l, m, Everybody))
<1> DEFINE after == Overtaken(walk, l, m, Everybody)
<1>1. CASE walk.done
  <2>1. after = walk
    BY <1>1 DEF Overtaken
  <2>2. OnCourse(m, walk)
    BY <1>1 DEF OnCourse
  <2> QED
    BY <2>1, <2>2
<1>2. CASE ~walk.done
  <2>1. walk \in WalkOf(Address) /\ SameOrder(l, m) /\ NewLast(l, m)
    BY DEF OnCourse, Moves
  <2>2. PICK c : CutAt(l, walk, c, Everybody) /\ NoneAhead(walk, c)
    BY <1>2 DEF OnCourse
  <2>3. /\ after \in WalkOf(Address) /\ ~after.done
        /\ \E d : CutAt(m, after, d, Everybody) /\ NoneAhead(after, d)
    <3>1. /\ after \in WalkOf(Address) /\ ~after.done
          /\ \E d : /\ CutAt(m, after, d, Everybody)
                    /\ NewLast(l, m) /\ NoneAhead(walk, c) => NoneAhead(after, d)
      BY <1>2, <2>1, <2>2, FinitelyMany, CutOvertaken
    <3> HIDE DEF after
    <3> QED
      BY <2>1, <2>2, <3>1
  <2> HIDE DEF after
  <2>4. OnCourse(m, after)
    BY <2>3 DEF OnCourse
  <2> QED
    BY <2>4 DEF after
<1> QED
  BY <1>1, <1>2

LEMMA Reading ==
  ASSUME WalkOnCourse, reader.reading
  PROVE  /\ reader \in [reading : {TRUE}, limit : Nat, walk : WalkOf(Address)]
         /\ OnCourse(Flat(roster.pages), reader.walk)
<1>1. reader # NoReader
  BY DEF NoReader
<1> QED
  BY <1>1 DEF WalkOnCourse

LEMMA NextReaderInv == ReaderInv /\ [ReaderNext]_readerVars => ReaderInv'
<1> SUFFICES ASSUME ReaderInv, [ReaderNext]_readerVars PROVE ReaderInv'
  OBVIOUS
<1>1. Consistent /\ WalkOnCourse
  BY DEF ReaderInv
<1>2. CASE ComplianceStep
  <2>1. [Next]_vars
    BY <1>2 DEF ComplianceStep
  <2>2. Consistent'
    BY <1>1, <2>1, NextConsistent
  <2>3. CASE ~reader.reading
    <3>1. reader' = reader
      BY <1>2, <2>3 DEF ComplianceStep
    <3>2. reader = NoReader
      BY <1>1, <2>3 DEF WalkOnCourse
    <3> QED
      BY <2>2, <3>1, <3>2 DEF ReaderInv, WalkOnCourse
  <2>4. CASE reader.reading
    <3> DEFINE l == Flat(roster.pages)
               m == Flat(roster'.pages)
               walk == reader.walk
               after == Overtaken(walk, l, m, Everybody)
    <3>1. /\ reader \in [reading : {TRUE}, limit : Nat, walk : WalkOf(Address)]
          /\ OnCourse(l, walk)
      BY <1>1, <2>4, Reading
    <3>2. reader' = [reader EXCEPT !.walk = after]
      <4>1. GetAllowlist = l /\ GetAllowlist' = m
        BY DEF GetAllowlist, Flat
      <4>2. reader' = [reader EXCEPT !.walk = Overtaken(@, GetAllowlist, GetAllowlist', Everybody)]
        BY <1>2, <2>4 DEF ComplianceStep, Everybody
      <4> QED
        BY <4>1, <4>2
    <3>3. /\ l \in Seq(Address) /\ Distinct(l)
          /\ m \in Seq(Address) /\ Distinct(m) /\ Moves(l, m)
      BY <1>1, <2>1, PagesGood, ListMoves
    <3> HIDE DEF l, m, walk
    <3>4. OnCourse(m, after)
      BY <3>1, <3>3, StepOnCourse
    <3>5. after \in WalkOf(Address)
      BY <3>4 DEF OnCourse
    <3> HIDE DEF after
    <3>6. /\ reader' \in [reading : {TRUE}, limit : Nat, walk : WalkOf(Address)]
          /\ reader'.walk = after
      BY <3>1, <3>2, <3>5
    <3>7. WalkOnCourse'
      BY <3>4, <3>6 DEF WalkOnCourse, m
    <3> QED
      BY <2>2, <3>7 DEF ReaderInv
  <2> QED
    BY <2>3, <2>4
<1>3. ASSUME UNCHANGED vars PROVE Consistent' /\ Flat(roster'.pages) = Flat(roster.pages)
  <2>1. roster' = roster
    BY <1>3 DEF vars, bookVars
  <2> QED
    BY <1>1, <1>3, <2>1, NextConsistent
<1>4. ASSUME NEW n \in Limit, StartWalk(n) PROVE ReaderInv'
  <2> DEFINE list == Flat(roster.pages)
             walk == NewWalk(list)
  <2>1. reader' = [reading |-> TRUE, limit |-> n, walk |-> walk] /\ UNCHANGED vars
    BY <1>4 DEF StartWalk, GetAllowlist, Flat
  <2>2. OnCourse(list, walk)
    BY <1>1, PagesGood, StartOnCourse
  <2>3. walk \in WalkOf(Address)
    BY <2>2 DEF OnCourse
  <2>4. n \in Nat
    BY ReaderAssumption
  <2> HIDE DEF walk
  <2>5. /\ reader' \in [reading : {TRUE}, limit : Nat, walk : WalkOf(Address)]
        /\ reader'.walk = walk
    BY <2>1, <2>3, <2>4
  <2> QED
    BY <1>3, <2>1, <2>2, <2>5 DEF ReaderInv, WalkOnCourse
<1>5. CASE Request
  <2> DEFINE list == Flat(roster.pages)
             walk == reader.walk
             after == Received(walk, GetAllowlistPage(Len(walk.seen), reader.limit))
  <2>1. /\ reader.reading /\ ~walk.done /\ UNCHANGED vars
        /\ reader' = [reader EXCEPT !.walk = after]
    BY <1>5 DEF Request
  <2>2. /\ reader \in [reading : {TRUE}, limit : Nat, walk : WalkOf(Address)]
        /\ OnCourse(list, walk)
    BY <1>1, <2>1, Reading
  <2>3. reader.limit \in Nat
    BY <2>2
  <2>4. OnCourse(list, after)
    <3> HIDE DEF walk
    <3> QED
      BY <1>1, <2>1, <2>2, <2>3, RequestOnCourse
  <2>5. after \in WalkOf(Address)
    BY <2>4 DEF OnCourse
  <2> HIDE DEF after
  <2>6. /\ reader' \in [reading : {TRUE}, limit : Nat, walk : WalkOf(Address)]
        /\ reader'.walk = after
    BY <2>1, <2>2, <2>5
  <2> QED
    BY <1>3, <2>1, <2>4, <2>6 DEF ReaderInv, WalkOnCourse
<1>6. CASE UNCHANGED readerVars
  <2>1. UNCHANGED vars /\ reader' = reader
    BY <1>6 DEF readerVars
  <2> QED
    BY <1>1, <1>3, <2>1 DEF ReaderInv, WalkOnCourse
<1> QED
  BY <1>2, <1>4, <1>5, <1>6 DEF ReaderNext

\* A client that walks the paged allowlist, whatever its page size, is told
\* of nobody twice, and of everybody who was on the list when it began and
\* still is, but for at most one for every one who left meanwhile: approvals,
\* removals and prunings between its requests included.
THEOREM WalksMissOnlyForLeavers == ReaderSpec => []WalkMissesNoMoreThanLeft
<1>1. ReaderInit => ReaderInv
  BY InitConsistent DEF ReaderInit, ReaderInv, WalkOnCourse, NoReader
<1>2. ReaderInv => WalkMissesNoMoreThanLeft
  <2> SUFFICES ASSUME ReaderInv PROVE WalkMissesNoMoreThanLeft
    OBVIOUS
  <2>1. CASE reader = NoReader
    <3> DEFINE walk == NewWalk(<<>>)
    <3>1. walk.stayed = {} /\ ~walk.done /\ walk.left = 0
      BY DEF NewWalk, Items
    <3>2. reader.walk = walk
      BY <2>1 DEF NoReader
    <3> HIDE DEF walk
    <3>3. Missed(walk) = {} /\ Repeated(walk) = {}
      BY <3>1 DEF Missed, Repeated
    <3>4. Cardinality(Missed(walk)) = 0
      BY <3>3, FS_EmptySet
    <3> QED
      BY <3>1, <3>2, <3>3, <3>4 DEF WalkMissesNoMoreThanLeft
  <2>2. CASE OnCourse(Flat(roster.pages), reader.walk)
    <3> DEFINE list == Flat(roster.pages)
               walk == reader.walk
    <3>1. walk \in WalkOf(Address) /\ OnCourse(list, walk)
      BY <2>2 DEF OnCourse
    <3> HIDE DEF walk, list
    <3>2. Settled(walk) /\ Repeated(walk) = {}
      <4>1. CASE walk.done
        BY <3>1, <4>1 DEF OnCourse
      <4>2. CASE ~walk.done
        <5>1. PICK c : CutAt(list, walk, c, Everybody) /\ NoneAhead(walk, c)
          BY <3>1, <4>2 DEF OnCourse
        <5>2. Cardinality(Address) <= Everybody
          BY FinitelyMany DEF Everybody
        <5>3. Settled(walk)
          BY <3>1, <4>2, <5>1, <5>2, FinitelyMany, CutSettles
        <5> QED
          BY <5>1, <5>3 DEF NoneAhead
      <4> QED
        BY <4>1, <4>2
    <3> QED
      BY <3>2 DEF WalkMissesNoMoreThanLeft, Settled, walk
  <2> QED
    BY <2>1, <2>2 DEF ReaderInv, WalkOnCourse
<1> QED
  BY <1>1, <1>2, NextReaderInv, PTL DEF ReaderSpec
=============================================================================
