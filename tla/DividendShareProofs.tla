------------------------ MODULE DividendShareProofs ------------------------
(***************************************************************************)
(* The arithmetic of the floored shares: together they cover the total of  *)
(* a distribution up to less than one unit per listed holder, and no order *)
(* of claims changes that.                                                 *)
(***************************************************************************)
EXTENDS DividendProofs

-----------------------------------------------------------------------------
(* The first m entries of a list of balances, and the shares of their holders. *)

Given(bal, m) == [i \in DOMAIN bal |-> IF i <= m THEN bal[i] ELSE 0]

Shared(share, who, m) ==
    [a \in DOMAIN share |-> IF \E i \in 1..m : who[i] = a THEN share[a] ELSE 0]

LEMMA GivenGrows ==
  ASSUME NEW n \in Nat, NEW bal \in [1..n -> Nat], NEW m \in Nat, m < n
  PROVE  /\ Total(Given(bal, m)) \in Nat
         /\ Total(Given(bal, m + 1)) = Total(Given(bal, m)) + bal[m + 1]
<1> DEFINE I == 1..n
           k == m + 1
           f == Given(bal, m)
           g == Given(bal, k)
<1>1. IsFiniteSet(I) /\ k \in I
  BY FS_Interval
<1>2. f \in [I -> Nat] /\ g \in [I -> Nat]
  BY DEF Given
<1>3. \A i \in I \ {k} : g[i] = f[i]
  BY DEF Given
<1>4. f[k] = 0 /\ g[k] = bal[k] /\ bal[k] \in Nat
  BY <1>1 DEF Given
<1> HIDE DEF I, k, f, g
<1>5. Total(f) \in Nat
  BY <1>1, <1>2, UnitsFinite
<1>6. Total(g) = Total(f) - f[k] + g[k]
  BY <1>1, <1>2, <1>3, TotalUpdate
<1>7. Total(g) = Total(f) + bal[k]
  BY <1>4, <1>5, <1>6
<1> QED
  BY <1>5, <1>7 DEF f, g, k

\* The list names n holders, none of them twice.
Lists(who, n, A) == /\ who \in [1..n -> A]
                    /\ \A i, j \in 1..n : i # j => who[i] # who[j]

LEMMA SharedGrows ==
  ASSUME NEW A, IsFiniteSet(A), NEW share \in [A -> Nat], NEW n \in Nat,
         NEW who, Lists(who, n, A),
         NEW m \in Nat, m < n
  PROVE  /\ Total(Shared(share, who, m)) \in Nat
         /\ Total(Shared(share, who, m + 1)) =
               Total(Shared(share, who, m)) + share[who[m + 1]]
<1> DEFINE k == m + 1
           h == who[k]
           f == Shared(share, who, m)
           g == Shared(share, who, k)
<1>1. /\ k \in 1..n /\ h \in A /\ share[h] \in Nat
      /\ \A i \in 1..m : who[i] # h
      /\ 1..k = (1..m) \union {k}
  BY DEF Lists
<1>2. f \in [A -> Nat] /\ g \in [A -> Nat]
  BY DEF Shared
<1>3. \A a \in A : /\ f[a] = IF \E i \in 1..m : who[i] = a THEN share[a] ELSE 0
                   /\ g[a] = IF \E i \in 1..k : who[i] = a THEN share[a] ELSE 0
  BY DEF Shared
<1> HIDE DEF k, f, g
<1>4. \A a \in A : a # h => g[a] = f[a]
  BY <1>1, <1>3
<1>5. f[h] = 0 /\ g[h] = share[h]
  BY <1>1, <1>3
<1> HIDE DEF h
<1>6. Total(f) \in Nat
  BY <1>2, UnitsFinite
<1>7. Total(g) = Total(f) - f[h] + g[h]
  <2>1. h \in A
    BY <1>1
  <2>2. OtherUnits(g, h) = OtherUnits(f, h)
    BY <1>2, <1>4 DEF OtherUnits
  <2>3. /\ Total(f) = Cardinality(OtherUnits(f, h)) + f[h]
        /\ Cardinality(OtherUnits(f, h)) \in Nat
    BY <1>2, <2>1, TotalSplit
  <2>4. Total(g) = Cardinality(OtherUnits(g, h)) + g[h]
    BY <1>2, <2>1, TotalSplit
  <2>5. f[h] \in Nat /\ g[h] \in Nat
    BY <1>2, <2>1
  <2> QED
    BY <2>2, <2>3, <2>4, <2>5
<1>8. Total(g) = Total(f) + share[h]
  BY <1>1, <1>5, <1>6, <1>7
<1> QED
  BY <1>6, <1>8 DEF f, g, h, k

\* Every listed holder's share is the floored quotient of its part of T.
Floored(share, who, bal, T, S) ==
    \A i \in DOMAIN bal : /\ S * share[who[i]] <= T * bal[i]
                          /\ T * bal[i] <= S * share[who[i]] + (S - 1)

\* Nobody else has a share.
OnlyListed(share, who, n, A) ==
    \A a \in A : (\A i \in 1..n : who[i] # a) => share[a] = 0

\* Shares that are each a quotient of the total by the supply, one per listed
\* holder, add up to the total but for less than one unit per holder.
LEMMA SharesAddUp ==
  ASSUME NEW A, IsFiniteSet(A), NEW T \in Nat, NEW S \in Nat, S > 0,
         NEW n \in Nat, n > 0,
         NEW who, Lists(who, n, A),
         NEW bal \in [1..n -> Nat], Total(bal) = S,
         NEW share \in [A -> Nat],
         Floored(share, who, bal, T, S),
         OnlyListed(share, who, n, A)
  PROVE  /\ Total(share) <= T
         /\ T < Total(share) + n
<1> DEFINE given(m) == Given(bal, m)
           shared(m) == Shared(share, who, m)
           Between(m) == /\ S * Total(shared(m)) <= T * Total(given(m))
                         /\ T * Total(given(m)) <= S * Total(shared(m)) + m * (S - 1)
<1>1. Between(0)
  <2>1. given(0) = [i \in 1..n |-> 0] /\ shared(0) = [a \in A |-> 0]
    BY DEF Given, Shared
  <2>2. Total(given(0)) = 0 /\ Total(shared(0)) = 0
    BY <2>1, TotalOfZeros
  <2>3. S * 0 = 0 /\ T * 0 = 0 /\ 0 * (S - 1) = 0
    OBVIOUS
  <2> HIDE DEF given, shared
  <2> QED
    BY <2>2, <2>3
<1>2. ASSUME NEW m \in Nat, m < n, Between(m) PROVE Between(m + 1)
  <2> DEFINE k == m + 1
             q == share[who[k]]
             b == bal[k]
             x == Total(given(m))
             y == Total(shared(m))
  <2>1. k \in 1..n /\ k \in Nat /\ q \in Nat /\ b \in Nat
    <3>1. m \in Nat /\ m < n
      BY <1>2
    <3> HIDE DEF Between
    <3> QED
      BY <3>1 DEF Lists
  <2>2. Total(given(k)) = x + b /\ x \in Nat
    BY <1>2, GivenGrows
  <2>3. Total(shared(k)) = y + q /\ y \in Nat
    <3>1. m \in Nat /\ m < n
      BY <1>2
    <3> HIDE DEF Between
    <3> QED
      BY <3>1, SharedGrows
  <2>4. x \in Nat /\ y \in Nat
    BY <2>2, <2>3
  <2>5. S * y <= T * x /\ T * x <= S * y + m * (S - 1)
    BY <1>2
  <2>6. S * q <= T * b /\ T * b <= S * q + (S - 1)
    BY <2>1 DEF Floored
  <2> HIDE DEF q, b, x, y, given, shared
  <2>7. /\ S * (y + q) = S * y + S * q /\ T * (x + b) = T * x + T * b
        /\ k * (S - 1) = m * (S - 1) + (S - 1)
    BY <2>1, <2>4
  <2>8. /\ S * y \in Int /\ S * q \in Int /\ T * x \in Int /\ T * b \in Int
        /\ m * (S - 1) \in Int
    BY <2>1, <2>4
  <2>9. S * (y + q) <= T * (x + b) /\ T * (x + b) <= S * (y + q) + k * (S - 1)
    <3> DEFINE sy == S * y
               sq == S * q
               tx == T * x
               tb == T * b
               dust == m * (S - 1)
    <3>1. sy \in Int /\ sq \in Int /\ tx \in Int /\ tb \in Int /\ dust \in Int
      BY <2>8
    <3>2. sy <= tx /\ tx <= sy + dust /\ sq <= tb /\ tb <= sq + (S - 1)
      BY <2>5, <2>6
    <3>3. /\ S * (y + q) = sy + sq /\ T * (x + b) = tx + tb
          /\ k * (S - 1) = dust + (S - 1)
      BY <2>7
    <3> HIDE DEF sy, sq, tx, tb, dust, k
    <3>4. sy + sq <= tx + tb /\ tx + tb <= sy + sq + (dust + (S - 1))
      BY <3>1, <3>2
    <3> QED
      BY <3>3, <3>4
  <2> QED
    BY <2>2, <2>3, <2>9
<1>3. Between(n)
  <2> DEFINE Bad == {m \in 0..n : ~Between(m)}
  <2> SUFFICES ASSUME ~Between(n) PROVE FALSE
    OBVIOUS
  <2> HIDE DEF Between
  <2>1. n \in Bad
    OBVIOUS
  <2>2. Bad \subseteq Nat
    OBVIOUS
  <2>3. PICK m \in Bad : \A i \in Bad : m <= i
    BY <2>1, <2>2, LeastNatural
  <2>4. m \in 0..n /\ ~Between(m) /\ m # 0
    BY <1>1, <2>3
  <2>5. m - 1 \in Nat /\ m - 1 < n /\ m - 1 \in 0..n /\ (m - 1) + 1 = m /\ m - 1 < m
    BY <2>4
  <2>6. Between(m - 1)
    BY <2>3, <2>5
  <2>7. Between((m - 1) + 1)
    BY <1>2, <2>5, <2>6
  <2> QED
    BY <2>4, <2>5, <2>7
<1>4. given(n) = bal /\ shared(n) = share
  <2>1. given(n) = bal
    <3>1. given(n) = [i \in 1..n |-> bal[i]]
      BY DEF Given
    <3> QED
      BY <3>1
  <2>2. shared(n) = share
    <3>1. shared(n) = [a \in A |-> share[a]]
      BY DEF Shared, OnlyListed
    <3> QED
      BY <3>1
  <2> QED
    BY <2>1, <2>2
<1>5. Total(share) \in Nat
  BY UnitsFinite
<1> DEFINE Q == Total(share)
<1>6. S * Q <= S * T /\ S * T <= S * Q + n * (S - 1)
  <2>1. S * Q <= T * S /\ T * S <= S * Q + n * (S - 1)
    BY <1>3, <1>4
  <2>2. T * S = S * T
    OBVIOUS
  <2> QED
    BY <2>1, <2>2
<1> HIDE DEF Q
<1>7. Q \in Nat
  BY <1>5 DEF Q
<1>8. S * T < S * (Q + n)
  <2>1. S * (Q + n) = S * Q + n * S /\ n * (S - 1) = n * S - n
    BY <1>7
  <2>2. S * Q \in Int /\ n * S \in Int /\ S * T \in Int
    BY <1>7
  <2> QED
    BY <1>6, <2>1, <2>2
<1>9. Q <= T /\ T < Q + n
  BY <1>6, <1>7, <1>8, ProductCancels
<1> QED
  BY <1>9 DEF Q

-----------------------------------------------------------------------------
(* The shares of a frozen list before anybody has claimed. *)

BalanceIn(list, holder) ==
    LET hits == {i \in DOMAIN list : list[i].holder = holder}
    IN  IF hits = {} THEN 0
        ELSE list[CHOOSE i \in hits : \A j \in hits : i <= j].balance

FreshShare(list, T, S, holder) ==
    IF BalanceIn(list, holder) <= 0 THEN 0 ELSE (T * BalanceIn(list, holder)) \div S

NoRepeats(list) ==
    \A i, j \in DOMAIN list : i # j => list[i].holder # list[j].holder

LEMMA BalanceOfListed ==
  ASSUME NEW list \in Seq(Holding), NoRepeats(list), NEW i \in DOMAIN list
  PROVE  BalanceIn(list, list[i].holder) = list[i].balance
<1> DEFINE hits == {j \in DOMAIN list : list[j].holder = list[i].holder}
           first == CHOOSE j \in hits : \A m \in hits : j <= m
<1>1. hits = {i} /\ i \in Nat
  BY LenProperties DEF NoRepeats
<1>2. first = i
  <2> HIDE DEF hits
  <2>1. i \in hits /\ \A m \in hits : i <= m
    BY <1>1
  <2>2. \E j \in hits : \A m \in hits : j <= m
    BY <2>1
  <2>3. first \in hits
    BY <2>2
  <2> HIDE DEF first
  <2> QED
    BY <1>1, <2>3
<1>3. hits # {}
  BY <1>1
<1> QED
  BY <1>2, <1>3 DEF BalanceIn

LEMMA FreshShareTyped ==
  ASSUME NEW T \in Nat, NEW S \in Nat, S > 0, NEW b \in Nat
  PROVE  /\ (T * b) \div S \in Nat
         /\ S * ((T * b) \div S) <= T * b
         /\ T * b <= S * ((T * b) \div S) + (S - 1)
<1> DEFINE n == T * b
<1>1. n \in Nat
  BY ProductsNatural
<1> HIDE DEF n
<1>2. n \div S \in Nat /\ S * (n \div S) <= n /\ n <= S * (n \div S) + (S - 1)
  BY <1>1, Quotient
<1> QED
  BY <1>2 DEF n

\* Before the first claim the shares of a list without repeated holders add
\* up to the total but for less than one unit per entry.
LEMMA FreshSharesAddUp ==
  ASSUME NEW list \in Seq(Holding), NoRepeats(list), list # <<>>,
         NEW T \in Nat, NEW S \in Nat, S > 0, SnapshotSupply(list) = S
  PROVE  LET shares == [a \in Address |-> FreshShare(list, T, S, a)]
         IN  /\ shares \in [Address -> Nat]
             /\ Total(shares) <= T
             /\ T < Total(shares) + Len(list)
<1> DEFINE n == Len(list)
           who == [i \in 1..n |-> list[i].holder]
           bal == [i \in 1..n |-> list[i].balance]
           shares == [a \in Address |-> FreshShare(list, T, S, a)]
<1>1. n \in Nat /\ n > 0 /\ DOMAIN list = 1..n
  BY LenProperties, EmptySeq
<1>2. \A i \in 1..n : list[i] \in Holding
  BY <1>1, ElementOfSeq
<1>3. \A i \in 1..n : list[i].holder \in Address /\ list[i].balance \in Nat
  BY <1>2, ConstantsAssumption DEF Holding
<1>4. Lists(who, n, Address)
  BY <1>1, <1>3 DEF Lists, NoRepeats
<1>5. bal \in [1..n -> Nat] /\ Total(bal) = S
  BY <1>1, <1>3 DEF SnapshotSupply
<1>6. \A i \in 1..n : BalanceIn(list, who[i]) = bal[i]
  BY <1>1, BalanceOfListed
<1>7. ASSUME NEW a \in Address, \A i \in 1..n : who[i] # a
      PROVE  BalanceIn(list, a) = 0
  BY <1>1, <1>7 DEF BalanceIn
<1>8. ASSUME NEW a \in Address PROVE BalanceIn(list, a) \in Nat
  <2>1. CASE \E i \in 1..n : who[i] = a
    BY <1>5, <1>6, <2>1
  <2> QED
    BY <1>7, <2>1
<1>9. shares \in [Address -> Nat]
  <2>1. ASSUME NEW a \in Address PROVE FreshShare(list, T, S, a) \in Nat
    BY <1>8, FreshShareTyped DEF FreshShare
  <2> QED
    BY <2>1
<1>10. Floored(shares, who, bal, T, S)
  <2>1. ASSUME NEW i \in DOMAIN bal
        PROVE  /\ S * shares[who[i]] <= T * bal[i]
               /\ T * bal[i] <= S * shares[who[i]] + (S - 1)
    <3> DEFINE b == bal[i]
               q == shares[who[i]]
    <3>1. i \in 1..n /\ who[i] \in Address /\ b \in Nat
      BY <1>3, <1>5
    <3>2. q = IF b <= 0 THEN 0 ELSE (T * b) \div S
      BY <1>6, <3>1 DEF FreshShare
    <3> HIDE DEF b, q
    <3>3. CASE b = 0
      <4>1. q = 0 /\ S * 0 = 0 /\ T * 0 = 0
        BY <3>2, <3>3
      <4> QED
        BY <3>3, <4>1 DEF b, q
    <3>4. CASE b # 0
      <4>1. q = (T * b) \div S
        BY <3>1, <3>2, <3>4
      <4>2. S * q <= T * b /\ T * b <= S * q + (S - 1)
        BY <3>1, <4>1, FreshShareTyped
      <4> QED
        BY <4>2 DEF b, q
    <3> QED
      BY <3>3, <3>4
  <2> QED
    BY <2>1 DEF Floored
<1>11. OnlyListed(shares, who, n, Address)
  <2>1. ASSUME NEW a \in Address, \A i \in 1..n : who[i] # a PROVE shares[a] = 0
    <3>1. BalanceIn(list, a) = 0
      BY <1>7, <2>1
    <3> QED
      BY <3>1 DEF FreshShare
  <2> QED
    BY <2>1 DEF OnlyListed
<1>12. IsFiniteSet(Address)
  BY ConstantsAssumption
<1> HIDE DEF who, bal, shares, n
<1>13. Total(shares) <= T /\ T < Total(shares) + n
  BY <1>1, <1>4, <1>5, <1>9, <1>10, <1>11, <1>12, SharesAddUp
<1> QED
  BY <1>9, <1>13 DEF n, shares

-----------------------------------------------------------------------------
(* Steps. *)

\* SharesCoverTotalUpToDust of one distribution.
Covered(id) ==
    (Open(id) /\ supply[id] > 0) =>
        LET covered == dist[id].distributed + Total(OpenShares(id))
        IN  /\ covered <= dist[id].total_amount
            /\ dist[id].total_amount < covered + Len(snapshot[id])

\* A step that leaves a distribution alone.
LEMMA CoveredKept ==
  ASSUME NEW id, Covered(id), dist'[id] = dist[id],
         snapshot'[id] = snapshot[id], supply'[id] = supply[id],
         \A h \in Address : HasClaimed(id, h)' <=> HasClaimed(id, h)
  PROVE  Covered(id)'
<1>1. \A h \in Address : Claimable(id, h)' = Claimable(id, h)
  BY ShareKept
<1>2. OpenShares(id)' = OpenShares(id)
  BY <1>1 DEF OpenShares
<1>3. Open(id)' <=> Open(id)
  BY DEF Open
<1> QED
  BY <1>2, <1>3 DEF Covered

\* A new distribution owes its holders what FreshSharesAddUp says.
LEMMA CreationCovered ==
  ASSUME Escrowed, NEW caller \in Address, NEW asset \in AssetToken,
         NEW token \in PaymentToken, NEW total \in TotalAmount, NEW eligible \in Eligible,
         NEW deadline \in 0..MaxLedger,
         CreateDistributionDeadline(caller, asset, token, total, eligible, deadline),
         NEW k, k = Len(dist) + 1
  PROVE  Covered(k)'
<1> DEFINE d == Created(asset, token, total, deadline)
           S == SnapshotSupply(eligible)
           shares == [h \in Address |-> FreshShare(eligible, total, S, h)]
<1>1. d \in Distribution /\ dist'[k] = d /\ \A i \in DOMAIN dist : i # k
  BY CreationTyped
<1>2. /\ total \in Nat
      /\ dist'[k].total_amount = total /\ dist'[k].distributed = 0
  <2>1. d.total_amount = total /\ d.distributed = 0
    BY DEF Created
  <2> HIDE DEF d
  <2> QED
    BY <1>1, <2>1, AmountsNatural
<1>3. /\ ValidEligible(eligible) /\ snapshot' = Append(snapshot, eligible)
      /\ supply' = Append(supply, S) /\ claimed' = claimed
  BY DEF CreateDistributionDeadline
<1>4. eligible \in Seq(Holding) /\ S \in 0..I128Max /\ S \in Nat
  BY <1>3, EligibleTyped, ConstantsAssumption
<1>5. snapshot'[k] = eligible /\ supply'[k] = S
  <2>1. /\ snapshot \in Seq(Seq(Holding)) /\ Len(snapshot) = Len(dist)
        /\ supply \in Seq(0..I128Max) /\ Len(supply) = Len(dist) /\ Len(dist) \in Nat
    BY BooksTyped DEF Escrowed
  <2> DEFINE T == Seq(Holding)
             N == 0..I128Max
  <2> HIDE DEF T, N, S
  <2> QED
    BY <1>3, <1>4, <2>1, AppendProperties DEF T, N
<1>6. ASSUME NEW h PROVE ~HasClaimed(k, h)'
  <2>1. claimed \subseteq (DOMAIN dist) \X Address
    BY DEF Escrowed, TypeOK
  <2>2. <<k, h>> \notin claimed
    BY <1>1, <2>1
  <2> QED
    BY <1>3, <2>2 DEF HasClaimed
<1> HIDE DEF d, S
<1>7. CASE S > 0
  <2>1. ASSUME NEW h \in Address
        PROVE  Claimable(k, h)' = FreshShare(eligible, total, S, h)
    <3>1. SnapshotBalance(k, h)' = BalanceIn(eligible, h)
      BY <1>5 DEF SnapshotBalance, BalanceIn
    <3>2. ~HasClaimed(k, h)' /\ ~(supply'[k] <= 0)
      BY <1>4, <1>5, <1>6, <1>7
    <3> QED
      BY <1>2, <1>5, <3>1, <3>2 DEF Claimable, FreshShare
  <2>2. OpenShares(k)' = shares
    BY <2>1 DEF OpenShares
  <2>3. NoRepeats(eligible) /\ eligible # <<>> /\ SnapshotSupply(eligible) = S
    BY <1>3 DEF ValidEligible, NoRepeats, S
  <2>4. /\ shares \in [Address -> Nat]
        /\ Total(shares) <= total /\ total < Total(shares) + Len(eligible)
    BY <1>2, <1>4, <1>7, <2>3, FreshSharesAddUp
  <2>5. Total(shares) \in Nat
    BY <2>4, UnitsFinite, ConstantsAssumption
  <2> HIDE DEF shares
  <2>6. dist'[k].distributed + Total(OpenShares(k)') = Total(shares)
    BY <1>2, <2>2, <2>5
  <2> QED
    BY <1>2, <1>5, <2>4, <2>6 DEF Covered
<1>8. CASE ~(S > 0)
  BY <1>5, <1>8 DEF Covered
<1> QED
  BY <1>7, <1>8

\* A claim moves one share from the unclaimed to the paid side.
LEMMA ClaimCovered ==
  ASSUME Escrowed, NEW id \in DOMAIN dist, NEW holder \in Address,
         Claim(id, holder), Covered(id)
  PROVE  Covered(id)'
<1> SUFFICES ASSUME Open(id)' PROVE Covered(id)'
  BY DEF Covered
<1> DEFINE n == Claimable(id, holder)
           f == OpenShares(id)
           g == OpenShares(id)'
<1>1. /\ claimed' = claimed \union {<<id, holder>>} /\ ~HasClaimed(id, holder)
      /\ dist' = [dist EXCEPT ![id].distributed = dist[id].distributed + n,
                              ![id].completed =
                                 dist[id].distributed + n >= dist[id].total_amount]
  BY DEF Claim
<1>2. /\ dist \in Seq(Distribution) /\ dist[id] \in Distribution /\ TypeOK
  BY BooksTyped DEF Escrowed
<1>3. /\ dist'[id].distributed = dist[id].distributed + n
      /\ dist'[id].total_amount = dist[id].total_amount
  BY <1>1, <1>2 DEF Distribution
<1>4. Open(id) /\ snapshot'[id] = snapshot[id] /\ supply'[id] = supply[id]
  <2>1. Touched(id)
    BY ClaimDraws, DrawTouches
  <2>2. ~dist'[id].completed
    BY DEF Open
  <2> QED
    BY <2>1, <2>2 DEF Touched, Open
<1>5. g[holder] = 0 /\ f[holder] = n
  <2>1. HasClaimed(id, holder)'
    BY <1>1 DEF HasClaimed
  <2>2. Claimable(id, holder)' = 0
    BY <2>1 DEF Claimable
  <2> QED
    BY <2>2 DEF OpenShares
<1>6. ASSUME NEW h \in Address \ {holder} PROVE g[h] = f[h]
  <2>1. HasClaimed(id, h)' <=> HasClaimed(id, h)
    BY <1>1 DEF HasClaimed
  <2>2. Claimable(id, h)' = Claimable(id, h)
    BY <1>3, <1>4, <2>1, ShareKept
  <2> QED
    BY <2>2 DEF OpenShares
<1>7. f \in [Address -> Nat]
  BY <1>2, ClaimableNatural DEF OpenShares
<1>8. g \in [Address -> Nat]
  <2>1. DOMAIN g = Address /\ g = [h \in Address |-> g[h]]
    BY DEF OpenShares
  <2>2. \A h \in Address : g[h] \in Nat
    BY <1>5, <1>6, <1>7
  <2> HIDE DEF f, g
  <2> QED
    BY <2>1, <2>2
<1> HIDE DEF f, g
<1>9. Total(g) = Total(f) - n
  <2>1. Total(g) = Total(f) - f[holder] + g[holder]
    <3>1. /\ IsFiniteSet(Address) /\ holder \in Address
          /\ \A h \in Address \ {holder} : g[h] = f[h]
      BY <1>6, ConstantsAssumption
    <3> QED
      BY <1>7, <1>8, <3>1, TotalUpdate
  <2>2. Total(f) \in Nat /\ n \in Nat
    BY <1>5, <1>7, UnitsFinite, ConstantsAssumption
  <2> HIDE DEF n
  <2> QED
    BY <1>5, <2>1, <2>2
<1>10. dist'[id].distributed + Total(g) = dist[id].distributed + Total(f)
  <2>1. Total(f) \in Nat /\ n \in Nat /\ dist[id].distributed \in Nat
    BY <1>2, <1>5, <1>7, UnitsFinite, AmountsNatural, ConstantsAssumption
  <2> HIDE DEF n
  <2> QED
    BY <1>3, <1>9, <2>1
<1> QED
  BY <1>3, <1>4, <1>10 DEF Covered, f, g

LEMMA CoverIsOfEach ==
  /\ SharesCoverTotalUpToDust <=> \A id \in DOMAIN dist : Covered(id)
  /\ SharesCoverTotalUpToDust' <=> \A id \in DOMAIN dist' : Covered(id)'
BY DEF SharesCoverTotalUpToDust, Covered

\* A claim, a reclaim or a cancellation leaves all other distributions alone.
LEMMA DrawCovers ==
  ASSUME Escrowed, SharesCoverTotalUpToDust, NEW id \in DOMAIN dist, NEW a \in Address,
         Claim(id, a) \/ ReclaimUnclaimed(a, id) \/ CancelDistribution(a, id)
  PROVE  SharesCoverTotalUpToDust'
<1>1. Touched(id)
  BY ClaimDraws, ReclaimDraws, CancelDraws, DrawTouches
<1>2. claimed \subseteq claimed' /\ claimed' \subseteq claimed \union {<<id, a>>}
  BY DEF Claim, ReclaimUnclaimed, CancelDistribution
<1>3. ASSUME NEW i \in DOMAIN dist, i # id PROVE Covered(i)'
  <2>1. \A h \in Address : HasClaimed(i, h)' <=> HasClaimed(i, h)
    BY <1>2, <1>3 DEF HasClaimed
  <2>2. /\ Covered(i) /\ dist'[i] = dist[i]
        /\ snapshot'[i] = snapshot[i] /\ supply'[i] = supply[i]
    BY <1>1, <1>3, CoverIsOfEach DEF Touched
  <2> QED
    BY <2>1, <2>2, CoveredKept
<1>4. Covered(id)'
  <2>1. CASE Claim(id, a)
    BY <2>1, CoverIsOfEach, ClaimCovered
  <2>2. CASE ReclaimUnclaimed(a, id) \/ CancelDistribution(a, id)
    <3>1. dist'[id].completed
      BY <2>2, ReclaimDraws, CancelDraws, DrawTouches
    <3> QED
      BY <3>1 DEF Covered, Open
  <2> QED
    BY <2>1, <2>2
<1>5. DOMAIN dist' = DOMAIN dist
  BY <1>1 DEF Touched
<1> QED
  BY <1>3, <1>4, <1>5, CoverIsOfEach

LEMMA NextCovers ==
  Escrowed /\ SharesCoverTotalUpToDust /\ [Next]_vars => SharesCoverTotalUpToDust'
<1> SUFFICES ASSUME Escrowed, SharesCoverTotalUpToDust, [Next]_vars
             PROVE  SharesCoverTotalUpToDust'
  OBVIOUS
<1>1. ASSUME UNCHANGED <<dist, snapshot, supply, claimed>> PROVE SharesCoverTotalUpToDust'
  <2>1. ASSUME NEW id \in DOMAIN dist PROVE Covered(id)'
    <3>1. Covered(id)
      BY CoverIsOfEach
    <3>2. \A h \in Address : HasClaimed(id, h)' <=> HasClaimed(id, h)
      BY <1>1 DEF HasClaimed
    <3> QED
      BY <1>1, <3>1, <3>2, CoveredKept
  <2> QED
    BY <1>1, <2>1, CoverIsOfEach
<1>2. ASSUME NEW asset \in AssetToken, NEW token \in PaymentToken, NEW n \in TotalAmount,
             NEW e \in Eligible, NEW d \in 0..MaxLedger, NEW caller \in Address,
             CreateDistributionDeadline(caller, asset, token, n, e, d)
      PROVE  SharesCoverTotalUpToDust'
  <2>1. PICK k : k = Len(dist) + 1
    OBVIOUS
  <2>2. Covered(k)'
    BY <1>2, <2>1, CreationCovered
  <2>3. /\ DOMAIN dist' = DOMAIN dist \union {k}
        /\ \A i \in DOMAIN dist : dist'[i] = dist[i] /\ i # k
    BY <1>2, <2>1, CreationTyped
  <2>4. ASSUME NEW i \in DOMAIN dist PROVE Covered(i)'
    <3>1. \A h \in Address : HasClaimed(i, h)' <=> HasClaimed(i, h)
      BY <1>2 DEF HasClaimed, CreateDistributionDeadline
    <3>2. snapshot'[i] = snapshot[i] /\ supply'[i] = supply[i]
      BY <1>2, CreationLeavesOthers
    <3> QED
      BY <2>3, <3>1, <3>2, CoverIsOfEach, CoveredKept
  <2> QED
    BY <2>2, <2>3, <2>4, CoverIsOfEach
<1>3. ASSUME NEW caller \in Address, IssuerStep(caller) PROVE SharesCoverTotalUpToDust'
  <2>1. ASSUME NEW asset \in AssetToken, NEW t \in PaymentToken, NEW n \in TotalAmount,
               NEW e \in Eligible, CreateDistribution(caller, asset, t, n, e)
        PROVE  SharesCoverTotalUpToDust'
    <3>1. 0 \in 0..MaxLedger
      BY ConstantsAssumption
    <3> QED
      BY <1>2, <2>1, <3>1 DEF CreateDistribution
  <2>2. ASSUME NEW asset \in AssetToken, NEW t \in PaymentToken, NEW n \in TotalAmount,
               NEW e \in Eligible, NEW d \in Deadline,
               CreateDistributionDeadline(caller, asset, t, n, e, d)
        PROVE  SharesCoverTotalUpToDust'
    <3>1. d \in 0..MaxLedger
      BY ConstantsAssumption
    <3> QED
      BY <1>2, <2>2, <3>1
  <2>3. ASSUME NEW a, \/ Initialize(caller) \/ ProposeAdmin(caller, a)
                      \/ CancelAdminProposal(caller) \/ AcceptAdmin(caller)
        PROVE  SharesCoverTotalUpToDust'
    BY <1>1, <2>3
    DEF Initialize, ProposeAdmin, CancelAdminProposal, AcceptAdmin, bookVars
  <2> QED
    BY <1>3, <2>1, <2>2, <2>3, DrawCovers DEF IssuerStep
<1>4. ASSUME NEW holder \in Address, HolderStep(holder) PROVE SharesCoverTotalUpToDust'
  BY <1>4, DrawCovers DEF HolderStep
<1>5. ASSUME EnvironmentStep PROVE SharesCoverTotalUpToDust'
  <2>1. UNCHANGED bookVars
    BY <1>5 DEF EnvironmentStep, CloseLedger, AssetChanges, OutsideTransfer
  <2> QED
    BY <1>1, <2>1 DEF bookVars
<1>6. ASSUME UNCHANGED vars PROVE SharesCoverTotalUpToDust'
  BY <1>1, <1>6 DEF vars, bookVars
<1> QED
  BY <1>3, <1>4, <1>5, <1>6 DEF Next

\* While a distribution with a positive snapshot is open, what was claimed and
\* what is still unclaimed never exceed its total together, and fall short of
\* it by less than one unit per listed holder: no order of claims starves the
\* last claimant, and at most that much dust is left behind.
THEOREM SharesAlwaysCovered == Spec => []SharesCoverTotalUpToDust
<1>1. Init => SharesCoverTotalUpToDust
  BY DEF Init, SharesCoverTotalUpToDust
<1> QED
  BY <1>1, NextCovers, AlwaysEscrowed, PTL DEF Spec

-----------------------------------------------------------------------------
(* Neither check that guards the payment of a claim can fail. *)

\* A share of an open distribution passes the OverDistributed check of claim,
\* and the shared escrow account holds the tokens to pay it.
ShareIsFunded ==
    \A id \in DOMAIN dist, h \in Address :
        (Open(id) /\ Claimable(id, h) > 0) =>
            /\ dist[id].distributed + Claimable(id, h) <= dist[id].total_amount
            /\ Claimable(id, h) <= payment[dist[id].payment_token][Escrow]

LEMMA CoverFundsShares == Escrowed /\ SharesCoverTotalUpToDust => ShareIsFunded
<1> SUFFICES ASSUME Escrowed, SharesCoverTotalUpToDust,
                    NEW id \in DOMAIN dist, NEW h \in Address,
                    Open(id), Claimable(id, h) > 0
             PROVE  /\ dist[id].distributed + Claimable(id, h) <= dist[id].total_amount
                    /\ Claimable(id, h) <= payment[dist[id].payment_token][Escrow]
  BY DEF ShareIsFunded
<1> DEFINE n == Claimable(id, h)
           f == OpenShares(id)
           t == dist[id].payment_token
           o == OwedIn(dist, t)
<1>1. /\ TypeOK /\ dist \in Seq(Distribution) /\ dist[id] \in Distribution
      /\ supply[id] \in 0..I128Max
      /\ \A i \in DOMAIN dist : dist[i].distributed <= dist[i].total_amount
  BY BooksTyped DEF Escrowed, PaidWithinTotals
<1>2. /\ dist[id].distributed \in Nat /\ dist[id].total_amount \in Nat /\ n \in Nat
      /\ t \in PaymentToken
  BY <1>1, AmountsNatural, ClaimableNatural DEF Distribution
<1>3. supply[id] > 0
  BY <1>1, ConstantsAssumption DEF Claimable
<1>4. f \in [Address -> Nat] /\ f[h] = n /\ IsFiniteSet(Address)
  BY <1>1, ClaimableNatural, ConstantsAssumption DEF OpenShares
<1>5. dist[id].distributed + Total(f) <= dist[id].total_amount
  BY <1>3 DEF SharesCoverTotalUpToDust
<1> HIDE DEF f, n
<1>6. n <= Total(f) /\ Total(f) \in Nat
  BY <1>4, EntryAtMostTotal, UnitsFinite
<1>7. dist[id].distributed + n <= dist[id].total_amount
  BY <1>2, <1>5, <1>6
<1>8. n <= payment[t][Escrow]
  <2>1. o[id] = dist[id].total_amount - dist[id].distributed
    BY DEF OwedIn, Open
  <2>2. /\ payment[t][Escrow] = Total(o) + donated[t] /\ donated[t] \in Nat
    BY <1>1, <1>2, BooksTyped, OwedOfBooks DEF Escrowed, EscrowBacksDistributions
  <2>3. IsFiniteSet(DOMAIN dist) /\ o \in [DOMAIN dist -> Nat] /\ Total(o) \in Nat
    BY <1>1, OwedIsNatural
  <2> HIDE DEF o, t
  <2>4. o[id] <= Total(o)
    BY <2>3, EntryAtMostTotal
  <2> QED
    BY <1>2, <1>7, <2>1, <2>2, <2>3, <2>4
<1> QED
  BY <1>7, <1>8 DEF n

\* Whatever was claimed, reclaimed or cancelled before, in this distribution
\* or in another of the same payment token: the two checks that follow the
\* computation of a share never refuse it.
THEOREM SharesAlwaysFunded == Spec => []ShareIsFunded
BY CoverFundsShares, SharesAlwaysCovered, AlwaysEscrowed, PTL
=============================================================================
