--------------------------- MODULE DividendProofs ---------------------------
(***************************************************************************)
(* Theorems about Dividend for every set of addresses, assets and payment  *)
(* tokens, every i128 bound and every set of inputs.                       *)
(***************************************************************************)
EXTENDS Dividend, TotalsProofs, SequenceTheorems

Account == Address \union {Escrow}
Holding == [holder : Address, balance : 0..I128Max]

\* Owed, as a function of the books.
OwedIn(books, t) ==
    [id \in DOMAIN books |->
        IF books[id].payment_token = t /\ ~books[id].completed
        THEN books[id].total_amount - books[id].distributed ELSE 0]

\* What the checks of claim, reclaim and cancel keep between them: no
\* distribution pays more than its total, one that paid it all is closed, and
\* one that somebody claimed from has paid something, so that it can no
\* longer be cancelled.
PaidWithinTotals ==
    \A id \in DOMAIN dist :
        /\ dist[id].distributed <= dist[id].total_amount
        /\ dist[id].distributed = dist[id].total_amount => dist[id].completed
        /\ \A h \in Address : HasClaimed(id, h) => dist[id].distributed > 0

NothingBeforeInitialize == ~Initialized => pending_admin = NoAddress

\* The inductive invariant.  The escrow balance is natural after a payment
\* only because it covers what is owed, and what is owed is natural only
\* because no distribution pays more than its total.
Escrowed ==
    /\ TypeOK
    /\ PaidWithinTotals
    /\ EscrowBacksDistributions
    /\ CancelledPaidNobody
    /\ AssetIndexComplete
    /\ NothingBeforeInitialize

-----------------------------------------------------------------------------
(* Money. *)

\* A payment between two accounts of one token.
LEMMA PayMoves ==
  ASSUME payment \in [PaymentToken -> [Account -> Nat]],
         NEW t \in PaymentToken, NEW from \in Account, NEW to \in Account, from # to,
         NEW amount \in Nat, payment[t][from] >= amount,
         payment' = [payment EXCEPT ![t][from] = @ - amount, ![t][to] = @ + amount]
  PROVE  /\ payment' \in [PaymentToken -> [Account -> Nat]]
         /\ payment'[t][from] = payment[t][from] - amount
         /\ payment'[t][to] = payment[t][to] + amount
         /\ \A a \in Account \ {from, to} : payment'[t][a] = payment[t][a]
         /\ \A u \in PaymentToken \ {t} : payment'[u] = payment[u]
<1>1. payment[t] \in [Account -> Nat]
  OBVIOUS
<1>2. payment'[t] = [payment[t] EXCEPT ![from] = @ - amount, ![to] = @ + amount]
  OBVIOUS
<1>3. payment'[t] \in [Account -> Nat]
  BY <1>1, <1>2
<1>4. payment' \in [PaymentToken -> [Account -> Nat]]
  BY <1>3
<1> QED
  BY <1>1, <1>2, <1>4

LEMMA AmountsNatural ==
  ASSUME NEW d \in Distribution
  PROVE  /\ d.total_amount \in Nat \ {0} /\ d.total_amount <= I128Max
         /\ d.distributed \in Nat
BY ConstantsAssumption DEF Distribution

LEMMA OwedIsNatural ==
  ASSUME NEW books \in Seq(Distribution),
         \A id \in DOMAIN books : books[id].distributed <= books[id].total_amount,
         NEW t
  PROVE  /\ IsFiniteSet(DOMAIN books)
         /\ OwedIn(books, t) \in [DOMAIN books -> Nat]
         /\ Total(OwedIn(books, t)) \in Nat
<1>1. IsFiniteSet(DOMAIN books)
  <2>1. DOMAIN books = 1..Len(books) /\ Len(books) \in Int /\ 1 \in Int
    OBVIOUS
  <2>2. \A n \in Int : IsFiniteSet(1..n)
    BY FS_Interval
  <2> QED
    BY <2>1, <2>2
<1>2. \A id \in DOMAIN books : books[id] \in Distribution
  OBVIOUS
<1>3. OwedIn(books, t) \in [DOMAIN books -> Nat]
  BY <1>2, ConstantsAssumption DEF OwedIn, Distribution
<1> QED
  BY <1>1, <1>3, UnitsFinite

\* One distribution changes: what is owed changes by as much.
LEMMA OwedAfterChange ==
  ASSUME NEW books \in Seq(Distribution), NEW id \in DOMAIN books,
         NEW d \in Distribution, d.distributed <= d.total_amount,
         \A i \in DOMAIN books : books[i].distributed <= books[i].total_amount,
         NEW t
  PROVE  LET after == [books EXCEPT ![id] = d]
         IN  /\ after \in Seq(Distribution)
             /\ Total(OwedIn(after, t)) =
                   Total(OwedIn(books, t)) - OwedIn(books, t)[id] + OwedIn(after, t)[id]
<1> DEFINE after == [books EXCEPT ![id] = d]
<1>1. /\ after \in Seq(Distribution) /\ DOMAIN after = DOMAIN books
      /\ after[id] = d /\ \A i \in DOMAIN books \ {id} : after[i] = books[i]
  OBVIOUS
<1> HIDE DEF after
<1>2. \A i \in DOMAIN after : after[i].distributed <= after[i].total_amount
  BY <1>1
<1>3. /\ IsFiniteSet(DOMAIN books)
      /\ OwedIn(books, t) \in [DOMAIN books -> Nat]
      /\ OwedIn(after, t) \in [DOMAIN books -> Nat]
  BY <1>1, <1>2, OwedIsNatural
<1>4. \A i \in DOMAIN books \ {id} : OwedIn(after, t)[i] = OwedIn(books, t)[i]
  BY <1>1 DEF OwedIn
<1>5. Total(OwedIn(after, t)) =
         Total(OwedIn(books, t)) - OwedIn(books, t)[id] + OwedIn(after, t)[id]
  BY <1>3, <1>4, TotalUpdate
<1> QED
  BY <1>1, <1>5 DEF after

\* A new distribution, open and unpaid: its total is owed on top.
LEMMA OwedAfterCreation ==
  ASSUME NEW books \in Seq(Distribution), NEW d \in Distribution,
         d.distributed = 0, ~d.completed,
         \A i \in DOMAIN books : books[i].distributed <= books[i].total_amount,
         NEW t
  PROVE  Total(OwedIn(Append(books, d), t)) =
            Total(OwedIn(books, t)) + (IF d.payment_token = t THEN d.total_amount ELSE 0)
<1> DEFINE after == Append(books, d)
           k == Len(books) + 1
<1>1. /\ after \in Seq(Distribution) /\ DOMAIN books = 1..Len(books)
      /\ DOMAIN after = 1..k /\ after[k] = d /\ Len(books) \in Nat
      /\ \A i \in DOMAIN books : after[i] = books[i]
  OBVIOUS
<1>2. k \in DOMAIN after /\ DOMAIN books = DOMAIN after \ {k}
  BY <1>1
<1> HIDE DEF after, k
<1>3. \A i \in DOMAIN after : after[i].distributed <= after[i].total_amount
  <2>1. d.distributed <= d.total_amount
    BY ConstantsAssumption DEF Distribution
  <2> QED
    BY <1>1, <1>2, <2>1
<1>4. /\ OwedIn(books, t) \in [DOMAIN after \ {k} -> Nat]
      /\ IsFiniteSet(DOMAIN after) /\ OwedIn(after, t) \in [DOMAIN after -> Nat]
  BY <1>1, <1>2, <1>3, OwedIsNatural
<1>5. \A i \in DOMAIN after \ {k} : OwedIn(after, t)[i] = OwedIn(books, t)[i]
  BY <1>1, <1>2 DEF OwedIn
<1>6. Total(OwedIn(after, t)) = Total(OwedIn(books, t)) + OwedIn(after, t)[k]
  <2> DEFINE new == DOMAIN after
             lf == OwedIn(books, t)
             lg == OwedIn(after, t)
  <2>1. k \in new
    BY <1>2
  <2>2. /\ IsFiniteSet(new) /\ lg \in [new -> Nat]
        /\ lf \in [new \ {k} -> Nat]
        /\ \A i \in new \ {k} : lg[i] = lf[i]
    BY <1>4, <1>5
  <2> HIDE DEF new, lf, lg
  <2>3. Total(lg) = Total(lf) + lg[k]
    <3>1. Total(lg) = Cardinality(OtherUnits(lg, k)) + lg[k]
      BY <2>1, <2>2, TotalSplit
    <3>2. OtherUnits(lg, k) = Units(lf)
      BY <2>2 DEF OtherUnits, Units
    <3> QED
      BY <3>1, <3>2 DEF Total
  <2> QED
    BY <2>3 DEF lf, lg
<1>7. OwedIn(after, t)[k] = IF d.payment_token = t THEN d.total_amount ELSE 0
  <2>1. d.total_amount - d.distributed = d.total_amount
    BY ConstantsAssumption DEF Distribution
  <2> QED
    BY <1>1, <1>2, <2>1 DEF OwedIn
<1> QED
  BY <1>6, <1>7 DEF after

\* Owed is OwedIn of the present books, before and after a step.
LEMMA OwedOfBooks ==
  \A t : Owed(t) = OwedIn(dist, t) /\ Owed(t)' = OwedIn(dist', t)
BY DEF Owed, OwedIn, Open, Remaining

\* The parts of TypeOK a step of the books needs.
LEMMA BooksTyped ==
  ASSUME TypeOK
  PROVE  /\ dist \in Seq(Distribution) /\ Len(dist) \in Nat
         /\ DOMAIN dist = 1..Len(dist)
         /\ snapshot \in Seq(Seq(Holding)) /\ DOMAIN snapshot = DOMAIN dist
         /\ supply \in Seq(0..I128Max) /\ DOMAIN supply = DOMAIN dist
         /\ funder \in Seq(Address) /\ Len(funder) = Len(dist)
         /\ Len(snapshot) = Len(dist) /\ Len(supply) = Len(dist)
         /\ payment \in [PaymentToken -> [Account -> Nat]]
         /\ donated \in [PaymentToken -> Nat]
         /\ \A id \in DOMAIN dist :
               /\ dist[id] \in Distribution
               /\ snapshot[id] \in Seq(Holding) /\ supply[id] \in 0..I128Max
<1>1. /\ dist \in Seq(Distribution)
      /\ snapshot \in Seq(Seq(Holding))
      /\ supply \in Seq(0..I128Max)
      /\ funder \in Seq(Address)
      /\ payment \in [PaymentToken -> [Account -> Nat]]
      /\ donated \in [PaymentToken -> Nat]
      /\ {Len(snapshot), Len(supply), Len(funder)} = {Len(dist)}
  BY DEF TypeOK, Holding, Account
<1>2. Len(funder) = Len(dist) /\ Len(snapshot) = Len(dist) /\ Len(supply) = Len(dist)
  BY <1>1
<1>3. /\ Len(dist) \in Nat /\ DOMAIN dist = 1..Len(dist)
      /\ DOMAIN snapshot = 1..Len(snapshot) /\ DOMAIN supply = 1..Len(supply)
  BY <1>1, LenProperties
<1>4. ASSUME NEW id \in DOMAIN dist
      PROVE  /\ dist[id] \in Distribution
             /\ snapshot[id] \in Seq(Holding) /\ supply[id] \in 0..I128Max
  BY <1>1, <1>2, <1>3, ElementOfSeq
<1> QED
  BY <1>1, <1>2, <1>3, <1>4

-----------------------------------------------------------------------------
(* Claim, reclaim and cancellation all draw on one distribution: its entry *)
(* is replaced, and what it owes no more is paid out of the escrow.        *)

Draw(id, d, to, amount) ==
    /\ ~dist[id].completed
    /\ d.asset_token = dist[id].asset_token
    /\ d.payment_token = dist[id].payment_token
    /\ d.total_amount = dist[id].total_amount
    /\ dist[id].distributed <= d.distributed
    /\ d.distributed <= d.total_amount
    /\ d.distributed = d.total_amount => d.completed
    /\ d.cancelled => d.completed /\ d.distributed = 0
    /\ amount > 0
    /\ amount = LeftIn(dist[id]) - LeftIn(d)
    /\ dist' = [dist EXCEPT ![id] = d]
    /\ Pay(d.payment_token, Escrow, to, amount)
    /\ IF d.completed THEN Close(id) ELSE UNCHANGED <<snapshot, supply>>
    /\ UNCHANGED <<roleVars, asset_ids, funder, envVars>>

LEMMA DrawBacked ==
  ASSUME Escrowed, NEW id \in DOMAIN dist, NEW d \in Distribution, NEW to \in Address,
         NEW amount \in Nat, Draw(id, d, to, amount)
  PROVE  /\ payment' \in [PaymentToken -> [Account -> Nat]]
         /\ EscrowBacksDistributions'
<1> DEFINE u == d.payment_token
<1>0. /\ amount = LeftIn(dist[id]) - LeftIn(d)
      /\ u = dist[id].payment_token /\ d.distributed <= d.total_amount
  BY DEF Draw
<1>1. /\ dist \in Seq(Distribution) /\ payment \in [PaymentToken -> [Account -> Nat]]
      /\ dist[id] \in Distribution
      /\ \A i \in DOMAIN dist : dist[i].distributed <= dist[i].total_amount
  BY BooksTyped DEF Escrowed, PaidWithinTotals
<1>2. u \in PaymentToken /\ Escrow \in Account /\ to \in Account /\ Escrow # to
  BY ConstantsAssumption DEF Distribution, Account
<1>3. /\ payment' \in [PaymentToken -> [Account -> Nat]]
      /\ payment'[u][Escrow] = payment[u][Escrow] - amount
      /\ \A v \in PaymentToken \ {u} : payment'[v] = payment[v]
  <2>1. /\ payment[u][Escrow] >= amount
        /\ payment' = [payment EXCEPT ![u][Escrow] = @ - amount, ![u][to] = @ + amount]
    BY DEF Draw, Pay
  <2> HIDE DEF u
  <2> QED
    BY <1>1, <1>2, <2>1, PayMoves
<1>4. ASSUME NEW t \in PaymentToken
      PROVE  payment'[t][Escrow] = Total(Owed(t))' + donated'[t]
  <2>1. Total(Owed(t)') = Total(Owed(t)) - OwedIn(dist, t)[id] + OwedIn(dist', t)[id]
    <3>1. dist' = [dist EXCEPT ![id] = d]
      BY DEF Draw
    <3> QED
      BY <1>0, <1>1, <3>1, OwedAfterChange, OwedOfBooks
  <2>2. /\ OwedIn(dist, t)[id] = IF t = u THEN LeftIn(dist[id]) ELSE 0
        /\ OwedIn(dist', t)[id] = IF t = u THEN LeftIn(d) ELSE 0
    <3>1. dist'[id] = d /\ id \in DOMAIN dist'
      BY DEF Draw
    <3> QED
      BY <1>0, <3>1 DEF OwedIn, LeftIn, Remaining
  <2>3. /\ LeftIn(dist[id]) \in Nat /\ LeftIn(d) \in Nat
    BY <1>0, <1>1, AmountsNatural DEF LeftIn, Remaining
  <2>4. /\ payment[t][Escrow] = Total(Owed(t)) + donated[t]
        /\ Total(Owed(t)) \in Nat /\ donated[t] \in Nat /\ donated' = donated
    <3>1. Total(OwedIn(dist, t)) \in Nat
      BY <1>1, OwedIsNatural
    <3>2. payment[t][Escrow] = Total(Owed(t)) + donated[t]
      BY DEF Escrowed, EscrowBacksDistributions
    <3>3. donated[t] \in Nat
      BY BooksTyped DEF Escrowed
    <3> QED
      BY <3>1, <3>2, <3>3, OwedOfBooks DEF Draw, Pay
  <2>5. CASE t = u
    <3>1. payment'[t][Escrow] = payment[t][Escrow] - amount
      BY <1>3, <2>5
    <3> HIDE DEF u
    <3> QED
      BY <1>0, <2>1, <2>2, <2>3, <2>4, <2>5, <3>1
  <2>6. CASE t # u
    <3>1. payment'[t][Escrow] = payment[t][Escrow]
      BY <1>3, <2>6
    <3> HIDE DEF u
    <3> QED
      BY <2>1, <2>2, <2>4, <2>6, <3>1
  <2> QED
    BY <2>5, <2>6
<1> QED
  BY <1>3, <1>4 DEF EscrowBacksDistributions

\* Closing a distribution, or leaving its entitlement data alone, keeps types.
LEMMA CloseTyped ==
  ASSUME TypeOK, NEW id \in DOMAIN dist, Close(id) \/ UNCHANGED <<snapshot, supply>>
  PROVE  /\ snapshot' \in Seq(Seq(Holding)) /\ Len(snapshot') = Len(dist)
         /\ supply' \in Seq(0..I128Max) /\ Len(supply') = Len(dist)
<1>1. /\ snapshot \in Seq(Seq(Holding)) /\ Len(snapshot) = Len(dist)
      /\ supply \in Seq(0..I128Max) /\ Len(supply) = Len(dist)
  BY BooksTyped
<1>2. CASE Close(id)
  <2>1. snapshot' = [snapshot EXCEPT ![id] = <<>>] /\ supply' = [supply EXCEPT ![id] = 0]
    BY <1>2 DEF Close
  <2>2. <<>> \in Seq(Holding) /\ 0 \in 0..I128Max
    BY ConstantsAssumption
  <2>3. snapshot' \in Seq(Seq(Holding)) /\ Len(snapshot') = Len(snapshot)
    <3> DEFINE T == Seq(Holding)
    <3> HIDE DEF T
    <3> QED
      BY <1>1, <2>1, <2>2, ExceptSeq DEF T
  <2>4. supply' \in Seq(0..I128Max) /\ Len(supply') = Len(supply)
    BY <1>1, <2>1, <2>2, ExceptSeq
  <2> QED
    BY <1>1, <2>3, <2>4
<1> QED
  BY <1>1, <1>2

LEMMA DrawKeepsEscrow ==
  ASSUME Escrowed, NEW id \in DOMAIN dist, NEW d \in Distribution, NEW to \in Address,
         NEW amount \in Nat, Draw(id, d, to, amount),
         \/ claimed' = claimed
         \/ claimed' = claimed \union {<<id, to>>} /\ d.distributed > 0,
         signer' \in Address
  PROVE  Escrowed'
<1>1. /\ dist' = [dist EXCEPT ![id] = d]
      /\ d.asset_token = dist[id].asset_token
      /\ dist[id].distributed <= d.distributed /\ d.distributed <= d.total_amount
      /\ d.distributed = d.total_amount => d.completed
      /\ d.cancelled => d.completed /\ d.distributed = 0
      /\ Close(id) \/ UNCHANGED <<snapshot, supply>>
      /\ UNCHANGED <<admin, pending_admin, asset_ids, funder, asset_admin, asset_supply,
                     ledger, donated>>
  BY DEF Draw, Pay, roleVars, envVars
<1>2. /\ TypeOK /\ dist \in Seq(Distribution)
  BY BooksTyped DEF Escrowed
<1>3. /\ dist' \in Seq(Distribution) /\ Len(dist') = Len(dist)
      /\ DOMAIN dist' = DOMAIN dist
      /\ dist'[id] = d /\ \A i \in DOMAIN dist \ {id} : dist'[i] = dist[i]
  BY <1>1, <1>2
<1>4. payment' \in [PaymentToken -> [Account -> Nat]] /\ EscrowBacksDistributions'
  BY DrawBacked
<1>5. TypeOK'
  <2>1. /\ snapshot' \in Seq(Seq(Holding)) /\ Len(snapshot') = Len(dist)
        /\ supply' \in Seq(0..I128Max) /\ Len(supply') = Len(dist)
    BY <1>1, <1>2, CloseTyped
  <2>2. funder' \in Seq(Address) /\ Len(funder') = Len(dist)
    BY <1>1, <1>2, BooksTyped
  <2>3. {Len(snapshot'), Len(supply'), Len(funder')} = {Len(dist')}
    BY <1>3, <2>1, <2>2
  <2>4. claimed' \subseteq (DOMAIN dist') \X Address
    BY <1>2, <1>3 DEF TypeOK
  <2>5. /\ asset_ids' \in [AssetToken -> Seq(DOMAIN dist')]
        /\ admin' \in Address \union {NoAddress}
        /\ pending_admin' \in Address \union {NoAddress}
        /\ donated' \in [PaymentToken -> Nat]
        /\ asset_admin' \in [AssetToken -> Address]
        /\ asset_supply' \in [AssetToken -> {0, 1}]
        /\ ledger' \in 0..MaxLedger
    BY <1>1, <1>2, <1>3 DEF TypeOK
  <2> QED
    BY <1>3, <1>4, <2>1, <2>2, <2>3, <2>4, <2>5 DEF TypeOK, Holding, Account
<1>6. PaidWithinTotals'
  <2>1. ASSUME NEW i \in DOMAIN dist'
        PROVE  /\ dist'[i].distributed <= dist'[i].total_amount
               /\ dist'[i].distributed = dist'[i].total_amount => dist'[i].completed
               /\ \A h \in Address : HasClaimed(i, h)' => dist'[i].distributed > 0
    <3>1. /\ dist[i].distributed <= dist[i].total_amount
          /\ dist[i].distributed = dist[i].total_amount => dist[i].completed
          /\ \A h \in Address : <<i, h>> \in claimed => dist[i].distributed > 0
      BY <1>3 DEF Escrowed, PaidWithinTotals, HasClaimed
    <3>2. CASE i = id
      <4>1. d.distributed \in Nat /\ dist[id].distributed \in Nat
        BY <1>2, BooksTyped, AmountsNatural
      <4> QED
        BY <1>1, <1>3, <3>1, <3>2, <4>1 DEF HasClaimed
    <3>3. CASE i # id
      BY <1>3, <3>1, <3>3 DEF HasClaimed
    <3> QED
      BY <3>2, <3>3
  <2> QED
    BY <2>1 DEF PaidWithinTotals
<1>7. CancelledPaidNobody'
  <2>1. ASSUME NEW i \in DOMAIN dist', dist'[i].cancelled
        PROVE  /\ dist'[i].completed /\ dist'[i].distributed = 0
               /\ \A h \in Address : <<i, h>> \notin claimed'
    <3>1. CASE i = id
      <4>1. d.completed /\ d.distributed = 0
        BY <1>1, <1>3, <2>1, <3>1
      <4>2. dist[id].distributed = 0
        BY <1>1, <1>2, <4>1, BooksTyped, AmountsNatural
      <4>3. \A h \in Address : <<id, h>> \notin claimed
        BY <4>2 DEF Escrowed, PaidWithinTotals, HasClaimed
      <4>4. claimed' = claimed
        BY <4>1
      <4> QED
        BY <1>3, <3>1, <4>1, <4>3, <4>4
    <3>2. CASE i # id
      BY <1>3, <2>1, <3>2 DEF Escrowed, CancelledPaidNobody, HasClaimed
    <3> QED
      BY <3>1, <3>2
  <2> QED
    BY <2>1 DEF CancelledPaidNobody, HasClaimed
<1>8. AssetIndexComplete'
  <2>1. \A i \in DOMAIN dist : dist'[i].asset_token = dist[i].asset_token
    BY <1>1, <1>3
  <2> QED
    BY <1>1, <1>3, <2>1 DEF Escrowed, AssetIndexComplete
<1>9. NothingBeforeInitialize'
  BY <1>1 DEF Escrowed, NothingBeforeInitialize, Initialized
<1> QED
  BY <1>4, <1>5, <1>6, <1>7, <1>8, <1>9 DEF Escrowed

-----------------------------------------------------------------------------
(* The calls. *)

LEMMA BalanceTyped ==
  ASSUME TypeOK, NEW id \in DOMAIN dist, NEW holder
  PROVE  SnapshotBalance(id, holder) \in 0..I128Max
<1> DEFINE list == snapshot[id]
           hits == {i \in DOMAIN list : list[i].holder = holder}
           first == CHOOSE i \in hits : \A j \in hits : i <= j
<1>1. list \in Seq(Holding) /\ DOMAIN list \subseteq Nat
  <2>1. list \in Seq(Holding)
    BY BooksTyped
  <2> HIDE DEF list
  <2> QED
    BY <2>1, LenProperties
<1>2. CASE hits = {}
  BY <1>2, ConstantsAssumption DEF SnapshotBalance
<1>3. CASE hits # {}
  <2>1. \E i \in hits : \A j \in hits : i <= j
    <3>1. hits \subseteq Nat
      BY <1>1
    <3> HIDE DEF hits
    <3> QED
      BY <1>3, <3>1, LeastNatural
  <2>2. first \in hits
    <3> HIDE DEF hits
    <3> QED
      BY <2>1
  <2>3. first \in DOMAIN list
    <3> HIDE DEF first
    <3> QED
      BY <2>2
  <2>4. list[first].balance \in 0..I128Max
    <3> HIDE DEF first, list
    <3>1. list[first] \in Holding
      BY <1>1, <2>3, ElementOfSeq, LenProperties
    <3> QED
      BY <3>1 DEF Holding
  <2>5. SnapshotBalance(id, holder) = list[first].balance
    BY <1>3 DEF SnapshotBalance
  <2> QED
    BY <2>4, <2>5
<1> QED
  BY <1>2, <1>3

LEMMA ClaimableNatural ==
  ASSUME TypeOK, NEW id \in DOMAIN dist, NEW holder
  PROVE  Claimable(id, holder) \in Nat
<1>1. /\ supply[id] \in Nat /\ SnapshotBalance(id, holder) \in Nat
      /\ dist[id].total_amount \in Nat
  BY BooksTyped, BalanceTyped, AmountsNatural, ConstantsAssumption
<1>2. \A n \in Nat, m \in Nat : n * m \in Nat
  OBVIOUS
<1>3. \A n \in Nat, m \in Nat : m > 0 => n \div m \in Nat
  OBVIOUS
<1> QED
  BY <1>1, <1>2, <1>3 DEF Claimable

\* A claim pays a share; the distribution closes when that was the last of it.
LEMMA ClaimDraws ==
  ASSUME Escrowed, NEW id \in DOMAIN dist, NEW holder \in Address, Claim(id, holder)
  PROVE  \E d \in Distribution :
            /\ Draw(id, d, holder, Claimable(id, holder))
            /\ d.distributed > 0
<1> DEFINE amount == Claimable(id, holder)
           old == dist[id]
           paid == old.distributed + amount
           full == paid >= old.total_amount
           d == [old EXCEPT !.distributed = paid, !.completed = full]
<1>1. /\ amount > 0 /\ ~old.completed /\ paid <= old.total_amount
      /\ signer' = holder /\ claimed' = claimed \union {<<id, holder>>}
      /\ Pay(old.payment_token, Escrow, holder, amount)
      /\ IF full THEN Close(id) ELSE UNCHANGED <<snapshot, supply>>
      /\ UNCHANGED <<roleVars, asset_ids, funder, envVars>>
      /\ dist' = [dist EXCEPT ![id].distributed = paid, ![id].completed = full]
  BY DEF Claim, RequireAuth
<1>2. amount \in Nat /\ old \in Distribution
  BY ClaimableNatural, BooksTyped DEF Escrowed
<1>3. dist' = [dist EXCEPT ![id] = d]
  BY <1>1
<1> HIDE DEF amount, old
<1>4. /\ old.distributed \in Nat /\ old.total_amount \in Nat
      /\ old.total_amount <= I128Max /\ I128Max \in Nat
  BY <1>2, AmountsNatural, ConstantsAssumption
<1>5. paid \in 0..I128Max
  BY <1>1, <1>2, <1>4
<1>5a. full \in BOOLEAN /\ (full <=> paid >= old.total_amount)
  OBVIOUS
<1> HIDE DEF full
<1>6. d \in Distribution
  BY <1>5a, <1>2, <1>5 DEF Distribution
<1>7. /\ d.distributed = paid /\ d.completed = full
      /\ d.total_amount = old.total_amount /\ d.asset_token = old.asset_token
      /\ d.payment_token = old.payment_token /\ d.cancelled = old.cancelled
  BY <1>2 DEF Distribution
<1>8. ~old.cancelled
  BY <1>1 DEF Escrowed, CancelledPaidNobody, old
<1>9. amount = LeftIn(old) - LeftIn(d)
  <2>1. LeftIn(old) = old.total_amount - old.distributed
    BY <1>1 DEF LeftIn, Remaining
  <2>2. CASE full
    <3>1. d.completed /\ paid = old.total_amount
      BY <1>1, <1>4, <1>5, <1>5a, <1>7, <2>2
    <3> HIDE DEF d
    <3> QED
      BY <1>2, <1>4, <2>1, <3>1 DEF LeftIn
  <2>3. CASE ~full
    <3>1. ~d.completed
      BY <1>7, <2>3
    <3>2. LeftIn(d) = old.total_amount - paid
      BY <1>7, <3>1 DEF LeftIn, Remaining
    <3>3. paid < old.total_amount
      BY <1>4, <1>5, <1>5a, <2>3
    <3> HIDE DEF d
    <3> QED
      BY <1>2, <1>4, <1>5, <2>1, <3>1, <3>2, <3>3
  <2> QED
    BY <2>2, <2>3
<1>10. /\ old.distributed <= d.distributed /\ d.distributed > 0
       /\ d.distributed <= d.total_amount
       /\ d.distributed = d.total_amount => d.completed
  <2> HIDE DEF d
  <2> QED
    BY <1>1, <1>2, <1>4, <1>5, <1>5a, <1>7
<1> HIDE DEF d
<1>11. Draw(id, d, holder, amount)
  BY <1>1, <1>3, <1>7, <1>8, <1>9, <1>10 DEF Draw, old
<1> QED
  BY <1>6, <1>9, <1>10, <1>11 DEF amount

\* A reclaim pays what is left.
LEMMA ReclaimDraws ==
  ASSUME Escrowed, NEW caller \in Address, NEW id \in DOMAIN dist, ReclaimUnclaimed(caller, id)
  PROVE  /\ Remaining(dist[id]) \in Nat
         /\ \E d \in Distribution :
               Draw(id, d, caller, Remaining(dist[id])) /\ d.completed
<1> DEFINE old == dist[id]
           amount == Remaining(old)
           d == [old EXCEPT !.distributed = old.total_amount, !.completed = TRUE]
<1>1. /\ amount > 0 /\ ~old.completed
      /\ signer' = caller /\ claimed' = claimed
      /\ Pay(old.payment_token, Escrow, caller, amount)
      /\ Close(id) /\ UNCHANGED <<roleVars, asset_ids, funder, envVars>>
      /\ dist' = [dist EXCEPT ![id].distributed = old.total_amount, ![id].completed = TRUE]
  BY DEF ReclaimUnclaimed, RequireAdmin, RequireAuth
<1>2. old \in Distribution /\ old.distributed <= old.total_amount
  BY BooksTyped DEF Escrowed, PaidWithinTotals
<1>3. dist' = [dist EXCEPT ![id] = d]
  BY <1>1
<1> HIDE DEF amount, old
<1>4. /\ old.distributed \in Nat /\ old.total_amount \in 0..I128Max
  BY <1>2, AmountsNatural, ConstantsAssumption
<1>5. d \in Distribution
  BY <1>2, <1>4 DEF Distribution
<1>6. /\ d.distributed = old.total_amount /\ d.completed
      /\ d.total_amount = old.total_amount /\ d.asset_token = old.asset_token
      /\ d.payment_token = old.payment_token /\ d.cancelled = old.cancelled
  BY <1>2 DEF Distribution
<1>7. ~old.cancelled
  BY <1>1 DEF Escrowed, CancelledPaidNobody, old
<1>8. amount \in Nat /\ amount = LeftIn(old) - LeftIn(d)
  BY <1>1, <1>2, <1>4, <1>6 DEF LeftIn, Remaining, amount
<1> HIDE DEF d
<1>9. old.distributed <= d.distributed /\ d.distributed <= d.total_amount
  BY <1>2, <1>4, <1>6
<1>10. Draw(id, d, caller, amount)
  BY <1>1, <1>3, <1>6, <1>7, <1>8, <1>9 DEF Draw, old
<1> QED
  BY <1>5, <1>6, <1>8, <1>10 DEF amount, old

\* A cancelled distribution had paid nothing, so nobody has claimed from it.
LEMMA CancelDraws ==
  ASSUME Escrowed, NEW caller \in Address, NEW id \in DOMAIN dist,
         CancelDistribution(caller, id)
  PROVE  \E d \in Distribution :
            /\ Draw(id, d, caller, dist[id].total_amount)
            /\ d.completed /\ d.distributed = dist[id].distributed
<1> DEFINE old == dist[id]
           amount == old.total_amount
           d == [old EXCEPT !.completed = TRUE, !.cancelled = TRUE]
<1>1. /\ old.distributed <= 0 /\ ~old.completed
      /\ signer' = caller /\ claimed' = claimed
      /\ Pay(old.payment_token, Escrow, caller, amount)
      /\ Close(id) /\ UNCHANGED <<roleVars, asset_ids, funder, envVars>>
      /\ dist' = [dist EXCEPT ![id].completed = TRUE, ![id].cancelled = TRUE]
  BY DEF CancelDistribution, Cancellable, RequireAdmin, RequireAuth
<1>2. old \in Distribution
  BY BooksTyped DEF Escrowed
<1>3. dist' = [dist EXCEPT ![id] = d]
  BY <1>1
<1> HIDE DEF old
<1>4. old.distributed = 0 /\ amount \in Nat
  BY <1>1, <1>2, AmountsNatural
<1>5. d \in Distribution
  BY <1>2 DEF Distribution
<1>6. /\ d.distributed = old.distributed /\ d.completed
      /\ d.total_amount = old.total_amount /\ d.asset_token = old.asset_token
      /\ d.payment_token = old.payment_token
  BY <1>2 DEF Distribution
<1>7. amount = LeftIn(old) - LeftIn(d)
  BY <1>1, <1>4, <1>6 DEF LeftIn, Remaining
<1> HIDE DEF d, amount
<1>8. /\ old.distributed <= d.distributed /\ d.distributed <= d.total_amount
      /\ d.distributed = d.total_amount => d.completed
  BY <1>4, <1>6 DEF amount
<1>9. amount > 0
  BY <1>2, AmountsNatural DEF amount
<1>10. Draw(id, d, caller, amount)
  BY <1>1, <1>3, <1>4, <1>6, <1>7, <1>8, <1>9 DEF Draw, old, amount
<1> QED
  BY <1>4, <1>5, <1>6, <1>10 DEF amount, old

\* So all three keep the invariant.
LEMMA DrawsKeepEscrow ==
  ASSUME Escrowed, NEW id \in DOMAIN dist, NEW a \in Address,
         Claim(id, a) \/ ReclaimUnclaimed(a, id) \/ CancelDistribution(a, id)
  PROVE  Escrowed'
<1>1. CASE Claim(id, a)
  <2>1. PICK d \in Distribution : Draw(id, d, a, Claimable(id, a)) /\ d.distributed > 0
    BY <1>1, ClaimDraws
  <2>2. Claimable(id, a) \in Nat
    BY ClaimableNatural DEF Escrowed
  <2>3. claimed' = claimed \union {<<id, a>>} /\ signer' = a
    BY <1>1 DEF Claim, RequireAuth
  <2> QED
    BY <2>1, <2>2, <2>3, DrawKeepsEscrow
<1>2. CASE ReclaimUnclaimed(a, id)
  <2>1. claimed' = claimed /\ signer' = a
    BY <1>2 DEF ReclaimUnclaimed, RequireAdmin, RequireAuth
  <2> QED
    BY <1>2, <2>1, ReclaimDraws, DrawKeepsEscrow
<1>3. CASE CancelDistribution(a, id)
  <2>1. claimed' = claimed /\ signer' = a
    BY <1>3 DEF CancelDistribution, RequireAdmin, RequireAuth
  <2>2. dist[id].total_amount \in Nat
    BY BooksTyped, AmountsNatural DEF Escrowed
  <2> QED
    BY <1>3, <2>1, <2>2, CancelDraws, DrawKeepsEscrow
<1> QED
  BY <1>1, <1>2, <1>3

\* A list that passes the checks has balances and a supply within i128.
LEMMA EligibleTyped ==
  ASSUME NEW eligible \in Eligible, ValidEligible(eligible)
  PROVE  eligible \in Seq(Holding) /\ SnapshotSupply(eligible) \in 0..I128Max
<1> DEFINE n == Len(eligible)
           balances == [i \in DOMAIN eligible |-> eligible[i].balance]
<1>1. /\ eligible \in Seq([holder : Address, balance : -I128Max..I128Max])
      /\ I128Max \in Nat
  BY ConstantsAssumption
<1>2. n \in Nat /\ DOMAIN eligible = 1..n
  BY <1>1, LenProperties
<1>3. ASSUME NEW i \in 1..n PROVE eligible[i] \in Holding
  <2>1. /\ eligible[i] \in [holder : Address, balance : -I128Max..I128Max]
        /\ eligible[i].balance >= 0
    BY <1>1, <1>2, ElementOfSeq DEF ValidEligible
  <2>2. eligible[i].balance \in 0..I128Max
    BY <1>1, <2>1
  <2> QED
    BY <2>1, <2>2 DEF Holding
<1>4. eligible \in Seq(Holding)
  BY <1>1, <1>2, <1>3
<1>5. SnapshotSupply(eligible) \in Nat
  <2>1. IsFiniteSet(DOMAIN eligible)
    BY <1>2, FS_Interval
  <2>2. balances \in [DOMAIN eligible -> Nat]
    BY <1>1, <1>2, <1>3 DEF Holding
  <2>3. Total(balances) \in Nat
    BY <2>1, <2>2, UnitsFinite
  <2> QED
    BY <2>3 DEF SnapshotSupply
<1> QED
  BY <1>1, <1>4, <1>5 DEF ValidEligible

\* What a creation appends.
Created(asset, token, total, deadline) ==
    [asset_token |-> asset, payment_token |-> token, total_amount |-> total,
     distributed |-> 0, completed |-> FALSE, deadline |-> deadline, cancelled |-> FALSE]

LEMMA CreationTyped ==
  ASSUME Escrowed, NEW caller \in Address, NEW asset \in AssetToken,
         NEW token \in PaymentToken, NEW total \in TotalAmount, NEW eligible \in Eligible,
         NEW deadline \in 0..MaxLedger,
         CreateDistributionDeadline(caller, asset, token, total, eligible, deadline)
  PROVE  LET d == Created(asset, token, total, deadline)
         IN  /\ d \in Distribution
             /\ dist' = Append(dist, d)
             /\ dist' \in Seq(Distribution) /\ Len(dist') = Len(dist) + 1
             /\ DOMAIN dist' = DOMAIN dist \union {Len(dist) + 1}
             /\ dist'[Len(dist) + 1] = d
             /\ \A i \in DOMAIN dist : dist'[i] = dist[i] /\ i # Len(dist) + 1
<1> DEFINE d == Created(asset, token, total, deadline)
<1>1. dist' = Append(dist, d) /\ total > 0
  BY DEF CreateDistributionDeadline, Created
<1>2. total \in 1..I128Max /\ 0 \in 0..I128Max
  BY <1>1, ConstantsAssumption
<1>3. d \in Distribution
  BY <1>2 DEF Distribution, Created
<1>4. dist \in Seq(Distribution) /\ Len(dist) \in Nat /\ DOMAIN dist = 1..Len(dist)
  BY BooksTyped DEF Escrowed
<1> HIDE DEF d
<1>5. /\ dist' \in Seq(Distribution) /\ Len(dist') = Len(dist) + 1
      /\ dist'[Len(dist) + 1] = d
      /\ \A i \in 1..Len(dist) : dist'[i] = dist[i]
  BY <1>1, <1>3, <1>4, AppendProperties
<1>6. /\ DOMAIN dist' = DOMAIN dist \union {Len(dist) + 1}
      /\ \A i \in DOMAIN dist : i # Len(dist) + 1
  <2>1. DOMAIN dist' = 1..(Len(dist) + 1)
    BY <1>5, LenProperties
  <2> QED
    BY <1>4, <2>1
<1> QED
  BY <1>1, <1>3, <1>4, <1>5, <1>6 DEF d

\* The payer's tokens move to the escrow, which owes that much more.
LEMMA CreationBacked ==
  ASSUME Escrowed, NEW caller \in Address, NEW asset \in AssetToken,
         NEW token \in PaymentToken, NEW total \in TotalAmount, NEW eligible \in Eligible,
         NEW deadline \in 0..MaxLedger,
         CreateDistributionDeadline(caller, asset, token, total, eligible, deadline)
  PROVE  payment' \in [PaymentToken -> [Account -> Nat]] /\ EscrowBacksDistributions'
<1> DEFINE d == Created(asset, token, total, deadline)
<1>1. /\ d \in Distribution /\ d.distributed = 0 /\ ~d.completed
      /\ d.payment_token = token /\ d.total_amount = total
  BY CreationTyped DEF Created
<1>2. /\ dist \in Seq(Distribution) /\ payment \in [PaymentToken -> [Account -> Nat]]
      /\ \A i \in DOMAIN dist : dist[i].distributed <= dist[i].total_amount
  BY BooksTyped DEF Escrowed, PaidWithinTotals
<1>3. caller \in Account /\ Escrow \in Account /\ caller # Escrow
  BY ConstantsAssumption DEF Account
<1>4. total \in Nat
  BY <1>1, AmountsNatural
<1>5. /\ payment[token][caller] >= total
      /\ payment' = [payment EXCEPT ![token][caller] = @ - total,
                                    ![token][Escrow] = @ + total]
      /\ donated' = donated
  BY DEF CreateDistributionDeadline, Pay
<1>6. /\ payment' \in [PaymentToken -> [Account -> Nat]]
      /\ payment'[token][Escrow] = payment[token][Escrow] + total
      /\ \A v \in PaymentToken \ {token} : payment'[v] = payment[v]
  BY <1>2, <1>3, <1>4, <1>5, PayMoves
<1>7. ASSUME NEW t \in PaymentToken
      PROVE  payment'[t][Escrow] = Total(Owed(t))' + donated'[t]
  <2>1. Total(Owed(t)') = Total(Owed(t)) + (IF token = t THEN total ELSE 0)
    <3>1. dist' = Append(dist, d)
      BY CreationTyped
    <3> HIDE DEF d
    <3>2. Total(OwedIn(Append(dist, d), t)) =
             Total(OwedIn(dist, t)) + (IF d.payment_token = t THEN d.total_amount ELSE 0)
      BY <1>1, <1>2, OwedAfterCreation
    <3> QED
      BY <1>1, <3>1, <3>2, OwedOfBooks
  <2>2. /\ payment[t][Escrow] = Total(Owed(t)) + donated[t]
        /\ Total(Owed(t)) \in Nat /\ donated[t] \in Nat
    <3>1. Total(OwedIn(dist, t)) \in Nat
      BY <1>2, OwedIsNatural
    <3>2. payment[t][Escrow] = Total(Owed(t)) + donated[t]
      BY DEF Escrowed, EscrowBacksDistributions
    <3>3. donated[t] \in Nat
      BY BooksTyped DEF Escrowed
    <3> QED
      BY <3>1, <3>2, <3>3, OwedOfBooks
  <2>3. payment'[t][Escrow] = payment[t][Escrow] + (IF token = t THEN total ELSE 0)
    <3>1. payment[t][Escrow] \in Nat
      BY <1>2, <1>3
    <3> QED
      BY <1>6, <3>1
  <2> QED
    BY <1>4, <1>5, <2>1, <2>2, <2>3
<1> QED
  BY <1>6, <1>7 DEF EscrowBacksDistributions

LEMMA CreationKeepsEscrow ==
  ASSUME Escrowed, NEW caller \in Address, NEW asset \in AssetToken,
         NEW token \in PaymentToken, NEW total \in TotalAmount, NEW eligible \in Eligible,
         NEW deadline \in 0..MaxLedger,
         CreateDistributionDeadline(caller, asset, token, total, eligible, deadline)
  PROVE  Escrowed'
<1> DEFINE d == Created(asset, token, total, deadline)
           k == Len(dist) + 1
<1>1. /\ d \in Distribution /\ dist' \in Seq(Distribution) /\ Len(dist') = k
      /\ DOMAIN dist' = DOMAIN dist \union {k} /\ dist'[k] = d
      /\ \A i \in DOMAIN dist : dist'[i] = dist[i] /\ i # k
  BY CreationTyped
<1>2. /\ TypeOK /\ Len(dist) \in Nat /\ DOMAIN dist = 1..Len(dist)
      /\ snapshot \in Seq(Seq(Holding)) /\ Len(snapshot) = Len(dist)
      /\ supply \in Seq(0..I128Max) /\ Len(supply) = Len(dist)
      /\ funder \in Seq(Address) /\ Len(funder) = Len(dist)
  BY BooksTyped DEF Escrowed
<1>3. /\ d.distributed = 0 /\ ~d.completed /\ ~d.cancelled /\ d.total_amount > 0
      /\ d.asset_token = asset
  <2>1. d.total_amount > 0
    BY <1>1, AmountsNatural
  <2> QED
    BY <2>1 DEF Created
<1>4. payment' \in [PaymentToken -> [Account -> Nat]] /\ EscrowBacksDistributions'
  BY CreationBacked
<1>5. /\ ValidEligible(eligible) /\ signer' = caller
      /\ snapshot' = Append(snapshot, eligible)
      /\ supply' = Append(supply, SnapshotSupply(eligible))
      /\ funder' = Append(funder, caller)
      /\ asset_ids' = [asset_ids EXCEPT ![asset] = Append(@, k)]
      /\ UNCHANGED <<admin, pending_admin, claimed, asset_admin, asset_supply, ledger,
                     donated>>
  BY DEF CreateDistributionDeadline, RequireAdminOrAssetAdmin, RequireAuth, NextId, Counter,
         Pay, roleVars, envVars
<1>6. \A h \in Address : <<k, h>> \notin claimed
  BY <1>1, <1>2 DEF TypeOK
<1> HIDE DEF d, k
<1>7. TypeOK'
  <2>1. snapshot' \in Seq(Seq(Holding)) /\ Len(snapshot') = k
    <3>1. eligible \in Seq(Holding)
      BY <1>5, EligibleTyped
    <3> DEFINE T == Seq(Holding)
    <3> HIDE DEF T
    <3> QED
      BY <1>2, <1>5, <3>1, AppendProperties DEF T, k
  <2>2. supply' \in Seq(0..I128Max) /\ Len(supply') = k
    BY <1>2, <1>5, EligibleTyped, AppendProperties DEF k
  <2>3. funder' \in Seq(Address) /\ Len(funder') = k
    BY <1>2, <1>5, AppendProperties DEF k
  <2>4. {Len(snapshot'), Len(supply'), Len(funder')} = {Len(dist')}
    BY <1>1, <2>1, <2>2, <2>3
  <2>5. claimed' \subseteq (DOMAIN dist') \X Address
    BY <1>1, <1>2, <1>5 DEF TypeOK
  <2>6. asset_ids' \in [AssetToken -> Seq(DOMAIN dist')]
    <3>1. asset_ids \in [AssetToken -> Seq(DOMAIN dist)]
      BY <1>2 DEF TypeOK
    <3>2. \A a \in AssetToken : asset_ids[a] \in Seq(DOMAIN dist')
      BY <1>1, <3>1, SeqMonotonic
    <3>3. asset_ids[asset] \in Seq(DOMAIN dist') /\ k \in DOMAIN dist'
      BY <1>1, <3>2
    <3>4. Append(asset_ids[asset], k) \in Seq(DOMAIN dist')
      BY <3>3, AppendProperties
    <3> QED
      BY <1>5, <3>1, <3>2, <3>4
  <2>7. /\ admin' \in Address \union {NoAddress}
        /\ pending_admin' \in Address \union {NoAddress}
        /\ donated' \in [PaymentToken -> Nat]
        /\ asset_admin' \in [AssetToken -> Address]
        /\ asset_supply' \in [AssetToken -> {0, 1}]
        /\ ledger' \in 0..MaxLedger
        /\ signer' \in Address \union {NoAddress}
    BY <1>2, <1>5 DEF TypeOK
  <2> QED
    BY <1>1, <1>4, <2>1, <2>2, <2>3, <2>4, <2>5, <2>6, <2>7 DEF TypeOK, Holding, Account
<1>8. PaidWithinTotals'
  <2>1. ASSUME NEW i \in DOMAIN dist'
        PROVE  /\ dist'[i].distributed <= dist'[i].total_amount
               /\ dist'[i].distributed = dist'[i].total_amount => dist'[i].completed
               /\ \A h \in Address : HasClaimed(i, h)' => dist'[i].distributed > 0
    <3>1. CASE i = k
      <4>1. d.total_amount \in Nat
        BY <1>1, AmountsNatural
      <4>2. dist'[i] = d
        BY <1>1, <3>1
      <4>3. \A h \in Address : ~HasClaimed(i, h)'
        BY <1>5, <1>6, <3>1 DEF HasClaimed
      <4> QED
        BY <1>3, <4>1, <4>2, <4>3
    <3>2. CASE i \in DOMAIN dist
      BY <1>1, <1>5, <3>2 DEF Escrowed, PaidWithinTotals, HasClaimed
    <3> QED
      BY <1>1, <3>1, <3>2
  <2> QED
    BY <2>1 DEF PaidWithinTotals
<1>9. CancelledPaidNobody'
  <2>1. ASSUME NEW i \in DOMAIN dist', dist'[i].cancelled
        PROVE  /\ dist'[i].completed /\ dist'[i].distributed = 0
               /\ \A h \in Address : ~HasClaimed(i, h)'
    <3>1. i \in DOMAIN dist
      BY <1>1, <1>3, <2>1
    <3> QED
      BY <1>1, <1>5, <2>1, <3>1 DEF Escrowed, CancelledPaidNobody, HasClaimed
  <2> QED
    BY <2>1 DEF CancelledPaidNobody
<1>10. AssetIndexComplete'
  <2>1. ASSUME NEW a \in AssetToken
        PROVE  LET ids == asset_ids'[a]
               IN  /\ {ids[m] : m \in DOMAIN ids} =
                         {i \in DOMAIN dist' : dist'[i].asset_token = a}
                   /\ \A m, n \in DOMAIN ids : m < n => ids[m] < ids[n]
    <3> DEFINE ids == asset_ids[a]
    <3>1. /\ {ids[m] : m \in DOMAIN ids} = {i \in DOMAIN dist : dist[i].asset_token = a}
          /\ \A m, n \in DOMAIN ids : m < n => ids[m] < ids[n]
      BY DEF Escrowed, AssetIndexComplete
    <3>2. ids \in Seq(DOMAIN dist) /\ asset_ids \in [AssetToken -> Seq(DOMAIN dist)]
      BY <1>2 DEF TypeOK
    <3>3. CASE a = asset
      <4>1. asset_ids'[a] = Append(ids, k)
        BY <1>5, <3>2, <3>3
      <4>2. /\ Len(ids) \in Nat /\ DOMAIN ids = 1..Len(ids)
            /\ \A m \in DOMAIN ids : ids[m] \in 1..Len(dist)
        BY <1>2, <3>2, LenProperties, ElementOfSeq
      <4> HIDE DEF ids
      <4> DEFINE more == Append(ids, k)
      <4>3. /\ DOMAIN more = DOMAIN ids \union {Len(ids) + 1}
            /\ more[Len(ids) + 1] = k
            /\ \A m \in DOMAIN ids : more[m] = ids[m] /\ m < Len(ids) + 1 /\ m \in Nat
        BY <4>2, <3>2
      <4> HIDE DEF more
      <4>4. {more[m] : m \in DOMAIN more} = {ids[m] : m \in DOMAIN ids} \union {k}
        BY <4>3
      <4>5. {i \in DOMAIN dist' : dist'[i].asset_token = a} =
               {i \in DOMAIN dist : dist[i].asset_token = a} \union {k}
        BY <1>1, <1>3, <3>3
      <4>6. ASSUME NEW m \in DOMAIN more, NEW n \in DOMAIN more, m < n
            PROVE  more[m] < more[n]
        <5>1. m \in DOMAIN ids
          BY <4>2, <4>3, <4>6
        <5>2. CASE n \in DOMAIN ids
          BY <3>1, <4>3, <4>6, <5>1, <5>2
        <5>3. CASE n = Len(ids) + 1
          BY <1>2, <4>2, <4>3, <5>1, <5>3 DEF k
        <5> QED
          BY <4>3, <5>2, <5>3
      <4> QED
        BY <3>1, <4>1, <4>4, <4>5, <4>6 DEF more
    <3>4. CASE a # asset
      <4>1. asset_ids'[a] = ids
        BY <1>5, <3>2, <3>4
      <4>2. {i \in DOMAIN dist' : dist'[i].asset_token = a} =
               {i \in DOMAIN dist : dist[i].asset_token = a}
        BY <1>1, <1>3, <3>4
      <4> HIDE DEF ids
      <4> QED
        BY <3>1, <4>1, <4>2
    <3> QED
      BY <3>3, <3>4
  <2> QED
    BY <2>1 DEF AssetIndexComplete
<1>11. NothingBeforeInitialize'
  BY <1>5 DEF Escrowed, NothingBeforeInitialize, Initialized
<1> QED
  BY <1>4, <1>7, <1>8, <1>9, <1>10, <1>11 DEF Escrowed

-----------------------------------------------------------------------------
(* The inductive invariant. *)

LEMMA InitEscrowed == Init => Escrowed
<1> SUFFICES ASSUME Init PROVE Escrowed
  OBVIOUS
<1>1. /\ dist = <<>> /\ snapshot = <<>> /\ supply = <<>> /\ funder = <<>> /\ claimed = {}
      /\ Len(<<>>) = 0 /\ DOMAIN dist = {}
  BY DEF Init
<1>2. \A a \in Account, t \in PaymentToken : a # Escrow => Endowment[t][a] \in Nat
  BY ConstantsAssumption DEF Account
<1>3. payment \in [PaymentToken -> [Account -> Nat]]
  BY <1>2 DEF Init, Account
<1>4. TypeOK
  <2>1. /\ dist \in Seq(Distribution) /\ snapshot \in Seq(Seq(Holding))
        /\ supply \in Seq(0..I128Max) /\ funder \in Seq(Address)
    BY <1>1
  <2>2. /\ admin \in Address \union {NoAddress}
        /\ pending_admin \in Address \union {NoAddress}
        /\ signer \in Address \union {NoAddress}
        /\ donated \in [PaymentToken -> Nat]
        /\ asset_admin \in [AssetToken -> Address]
        /\ asset_supply \in [AssetToken -> {0, 1}]
        /\ ledger \in 0..MaxLedger
        /\ asset_ids \in [AssetToken -> Seq(DOMAIN dist)]
    BY ConstantsAssumption DEF Init
  <2>3. {Len(snapshot), Len(supply), Len(funder)} = {Len(dist)}
    BY <1>1
  <2> QED
    BY <1>1, <1>3, <2>1, <2>2, <2>3 DEF TypeOK, Holding, Account
<1>5. EscrowBacksDistributions
  <2>1. ASSUME NEW t \in PaymentToken PROVE payment[t][Escrow] = Total(Owed(t)) + donated[t]
    <3>1. Owed(t) = [id \in {} |-> 0]
      BY <1>1 DEF Owed
    <3>2. Total(Owed(t)) = 0
      BY <3>1, TotalOfZeros
    <3>3. payment[t][Escrow] = 0 /\ donated[t] = 0
      BY DEF Init
    <3> QED
      BY <3>2, <3>3
  <2> QED
    BY <2>1 DEF EscrowBacksDistributions
<1>6. PaidWithinTotals /\ CancelledPaidNobody
  BY <1>1 DEF PaidWithinTotals, CancelledPaidNobody
<1>7. AssetIndexComplete
  BY <1>1 DEF AssetIndexComplete, Init
<1>8. NothingBeforeInitialize
  BY DEF NothingBeforeInitialize, Init
<1> QED
  BY <1>4, <1>5, <1>6, <1>7, <1>8 DEF Escrowed

\* Steps of the roles, the ledger and the asset tokens leave books and money alone.
LEMMA BooksKept ==
  ASSUME Escrowed, UNCHANGED <<bookVars, moneyVars>>,
         admin' \in Address \union {NoAddress},
         pending_admin' \in Address \union {NoAddress},
         NothingBeforeInitialize',
         asset_admin' \in [AssetToken -> Address],
         asset_supply' \in [AssetToken -> {0, 1}],
         ledger' \in 0..MaxLedger,
         signer' \in Address \union {NoAddress}
  PROVE  Escrowed'
<1>1. UNCHANGED <<dist, snapshot, supply, claimed, asset_ids, funder, payment, donated>>
  BY DEF bookVars, moneyVars
<1>2. TypeOK'
  BY <1>1 DEF Escrowed, TypeOK
<1>3. PaidWithinTotals'
  BY <1>1 DEF Escrowed, PaidWithinTotals, HasClaimed
<1>4. EscrowBacksDistributions'
  <2>1. \A t : Owed(t)' = Owed(t)
    BY <1>1 DEF Owed, Open, Remaining
  <2> QED
    BY <1>1, <2>1 DEF Escrowed, EscrowBacksDistributions
<1>5. CancelledPaidNobody'
  BY <1>1 DEF Escrowed, CancelledPaidNobody, HasClaimed
<1>6. AssetIndexComplete'
  BY <1>1 DEF Escrowed, AssetIndexComplete
<1> QED
  BY <1>2, <1>3, <1>4, <1>5, <1>6 DEF Escrowed

LEMMA OutsideKeepsEscrow ==
  ASSUME Escrowed, NEW t \in PaymentToken, NEW from \in Address, NEW to \in Account,
         NEW n \in Gift, OutsideTransfer(t, from, to, n)
  PROVE  Escrowed'
<1>1. /\ payment \in [PaymentToken -> [Account -> Nat]]
      /\ donated \in [PaymentToken -> Nat]
  BY BooksTyped DEF Escrowed
<1>2. from \in Account /\ Escrow \in Account /\ from # Escrow /\ n \in Nat
  BY ConstantsAssumption DEF Account
<1>3. /\ from # to /\ payment[t][from] >= n /\ signer' = from
      /\ payment' = [payment EXCEPT ![t][from] = @ - n, ![t][to] = @ + n]
      /\ donated' = [donated EXCEPT ![t] = IF to = Escrow THEN @ + n ELSE @]
      /\ UNCHANGED <<admin, pending_admin, dist, snapshot, supply, claimed, asset_ids,
                     funder, asset_admin, asset_supply, ledger>>
  BY DEF OutsideTransfer, roleVars, bookVars, envVars
<1>4. /\ payment' \in [PaymentToken -> [Account -> Nat]]
      /\ payment'[t][to] = payment[t][to] + n
      /\ \A a \in Account \ {from, to} : payment'[t][a] = payment[t][a]
      /\ \A u \in PaymentToken \ {t} : payment'[u] = payment[u]
  BY <1>1, <1>2, <1>3, PayMoves
<1>5. donated' \in [PaymentToken -> Nat]
  BY <1>1, <1>2, <1>3
<1>6. TypeOK'
  BY <1>3, <1>4, <1>5 DEF Escrowed, TypeOK, Account
<1>7. EscrowBacksDistributions'
  <2>1. ASSUME NEW u \in PaymentToken
        PROVE  payment'[u][Escrow] = Total(Owed(u))' + donated'[u]
    <3>1. Owed(u)' = Owed(u)
      BY <1>3 DEF Owed, Open, Remaining
    <3>2. payment[u][Escrow] = Total(Owed(u)) + donated[u]
      BY DEF Escrowed, EscrowBacksDistributions
    <3>3. Total(Owed(u)) \in Nat /\ donated[u] \in Nat
      BY <1>1, BooksTyped, OwedIsNatural, OwedOfBooks DEF Escrowed, PaidWithinTotals
    <3>4. CASE u = t /\ to = Escrow
      <4>1. donated'[u] = donated[u] + n
        BY <1>1, <1>3, <3>4
      <4> QED
        BY <1>2, <1>4, <3>1, <3>2, <3>3, <3>4, <4>1
    <3>5. CASE ~(u = t /\ to = Escrow)
      <4>1. donated'[u] = donated[u]
        BY <1>1, <1>3, <3>5
      <4>2. payment'[u][Escrow] = payment[u][Escrow]
        BY <1>2, <1>4, <3>5
      <4> QED
        BY <3>1, <3>2, <4>1, <4>2
    <3> QED
      BY <3>4, <3>5
  <2> QED
    BY <2>1 DEF EscrowBacksDistributions
<1>8. PaidWithinTotals' /\ CancelledPaidNobody'
  BY <1>3 DEF Escrowed, PaidWithinTotals, CancelledPaidNobody, HasClaimed
<1>9. AssetIndexComplete'
  BY <1>3 DEF Escrowed, AssetIndexComplete
<1>10. NothingBeforeInitialize'
  BY <1>3 DEF Escrowed, NothingBeforeInitialize, Initialized
<1> QED
  BY <1>6, <1>7, <1>8, <1>9, <1>10 DEF Escrowed

LEMMA NextEscrowed == Escrowed /\ [Next]_vars => Escrowed'
<1> SUFFICES ASSUME Escrowed, [Next]_vars PROVE Escrowed'
  OBVIOUS
<1>1. /\ admin \in Address \union {NoAddress} /\ pending_admin \in Address \union {NoAddress}
      /\ asset_admin \in [AssetToken -> Address] /\ asset_supply \in [AssetToken -> {0, 1}]
      /\ ledger \in 0..MaxLedger /\ signer \in Address \union {NoAddress}
      /\ NothingBeforeInitialize
  BY DEF Escrowed, TypeOK
<1>2. ASSUME NEW caller \in Address, IssuerStep(caller) PROVE Escrowed'
  <2>1. ASSUME Initialize(caller) PROVE Escrowed'
    <3>1. NothingBeforeInitialize'
      BY <2>1, ConstantsAssumption DEF Initialize, NothingBeforeInitialize, Initialized
    <3> QED
      BY <1>1, <2>1, <3>1, BooksKept DEF Initialize, RequireAuth, envVars
  <2>2. ASSUME NEW asset \in AssetToken, NEW t \in PaymentToken, NEW n \in TotalAmount,
               NEW e \in Eligible, CreateDistribution(caller, asset, t, n, e)
        PROVE  Escrowed'
    <3>1. 0 \in 0..MaxLedger
      BY ConstantsAssumption
    <3> QED
      BY <2>2, <3>1, CreationKeepsEscrow DEF CreateDistribution
  <2>3. ASSUME NEW asset \in AssetToken, NEW t \in PaymentToken, NEW n \in TotalAmount,
               NEW e \in Eligible, NEW d \in Deadline,
               CreateDistributionDeadline(caller, asset, t, n, e, d)
        PROVE  Escrowed'
    <3>1. d \in 0..MaxLedger
      BY ConstantsAssumption
    <3> QED
      BY <2>3, <3>1, CreationKeepsEscrow
  <2>4. ASSUME NEW a \in Nominee, ProposeAdmin(caller, a) PROVE Escrowed'
    <3>1. NothingBeforeInitialize'
      BY <2>4 DEF ProposeAdmin, RequireAdmin, NothingBeforeInitialize, Initialized
    <3> QED
      BY <1>1, <2>4, <3>1, BooksKept, ConstantsAssumption
      DEF ProposeAdmin, RequireAdmin, RequireAuth, envVars
  <2>5. ASSUME CancelAdminProposal(caller) PROVE Escrowed'
    <3>1. NothingBeforeInitialize'
      BY <2>5 DEF CancelAdminProposal, NothingBeforeInitialize
    <3> QED
      BY <1>1, <2>5, <3>1, BooksKept DEF CancelAdminProposal, RequireAdmin, RequireAuth, envVars
  <2>6. ASSUME AcceptAdmin(caller) PROVE Escrowed'
    <3>1. NothingBeforeInitialize'
      BY <2>6 DEF AcceptAdmin, NothingBeforeInitialize
    <3> QED
      BY <1>1, <2>6, <3>1, BooksKept DEF AcceptAdmin, RequireAuth, envVars
  <2> QED
    BY <1>2, <2>1, <2>2, <2>3, <2>4, <2>5, <2>6, DrawsKeepEscrow DEF IssuerStep
<1>3. ASSUME NEW holder \in Address, HolderStep(holder) PROVE Escrowed'
  BY <1>3, DrawsKeepEscrow DEF HolderStep
<1>4. ASSUME EnvironmentStep PROVE Escrowed'
  <2>1. ASSUME CloseLedger PROVE Escrowed'
    <3>1. NothingBeforeInitialize'
      BY <1>1, <2>1 DEF CloseLedger, NothingBeforeInitialize, Initialized, roleVars
    <3>2. ledger' \in 0..MaxLedger
      BY <1>1, <2>1, ConstantsAssumption DEF CloseLedger
    <3> QED
      BY <1>1, <2>1, <3>1, <3>2, BooksKept DEF CloseLedger, roleVars
  <2>2. ASSUME NEW asset \in AssetToken, AssetChanges(asset) PROVE Escrowed'
    <3>1. NothingBeforeInitialize'
      BY <1>1, <2>2 DEF AssetChanges, NothingBeforeInitialize, Initialized, roleVars
    <3>2. asset_admin' \in [AssetToken -> Address] /\ asset_supply' \in [AssetToken -> {0, 1}]
      <4>1. 1 - asset_supply[asset] \in {0, 1}
        BY <1>1
      <4> QED
        BY <1>1, <2>2, <4>1, ConstantsAssumption DEF AssetChanges
    <3> QED
      BY <1>1, <2>2, <3>1, <3>2, BooksKept DEF AssetChanges, roleVars
  <2> QED
    BY <1>4, <2>1, <2>2, OutsideKeepsEscrow DEF EnvironmentStep, Account
<1>5. ASSUME UNCHANGED vars PROVE Escrowed'
  <2>1. NothingBeforeInitialize'
    BY <1>1, <1>5 DEF vars, NothingBeforeInitialize, Initialized, roleVars
  <2> QED
    BY <1>1, <1>5, <2>1, BooksKept DEF vars, roleVars, envVars
<1> QED
  BY <1>2, <1>3, <1>4, <1>5 DEF Next

LEMMA AlwaysEscrowed == Spec => []Escrowed
BY InitEscrowed, NextEscrowed, PTL DEF Spec

-----------------------------------------------------------------------------
(* The results. *)

\* Every variable stays in its type: in particular no balance of a payment
\* token goes below zero and no amount leaves i128.
THEOREM TypeCorrectness == Spec => []TypeOK
<1>1. Escrowed => TypeOK
  BY DEF Escrowed
<1> QED
  BY <1>1, AlwaysEscrowed, PTL

\* The escrow account of a payment token holds exactly what the open
\* distributions paid in it owe, plus what was given away to it.
THEOREM EscrowAlwaysBacked == Spec => []EscrowBacksDistributions
<1>1. Escrowed => EscrowBacksDistributions
  BY DEF Escrowed
<1> QED
  BY <1>1, AlwaysEscrowed, PTL

\* Nobody was ever paid out of a distribution that carries the cancelled flag.
THEOREM CancelledNeverPaid == Spec => []CancelledPaidNobody
<1>1. Escrowed => CancelledPaidNobody
  BY DEF Escrowed
<1> QED
  BY <1>1, AlwaysEscrowed, PTL

\* The index of an asset lists its distributions, each once, in order.
THEOREM AssetIndexAlwaysComplete == Spec => []AssetIndexComplete
<1>1. Escrowed => AssetIndexComplete
  BY DEF Escrowed
<1> QED
  BY <1>1, AlwaysEscrowed, PTL

\* The dividend contract implements the abstract two-step admin handover.
THEOREM ImplementsAdminHandover == Spec => AdminRoleHandover
<1>1. Init => Handover!Init
  BY DEF Init, Handover!Init
<1>2. Escrowed /\ [Next]_vars => [Handover!Next]_<<admin, pending_admin, signer>>
  <2> SUFFICES ASSUME Escrowed, [Next]_vars
               PROVE  [Handover!Next]_<<admin, pending_admin, signer>>
    OBVIOUS
  <2> USE DEF roleVars, RequireAuth, RequireAdmin, Initialized, Handover!Next, Handover!Other
  <2>1. ASSUME NEW caller \in Address, IssuerStep(caller) PROVE Handover!Next
    <3>1. ASSUME Initialize(caller) PROVE Handover!Appoint(caller)
      BY <3>1 DEF Initialize, Handover!Appoint
    <3>2. ASSUME NEW a \in Nominee, ProposeAdmin(caller, a) PROVE Handover!Nominate(a)
      BY <3>2 DEF ProposeAdmin, Handover!Nominate
    <3>3. ASSUME CancelAdminProposal(caller) PROVE Handover!Withdraw
      BY <3>3 DEF CancelAdminProposal, Handover!Withdraw
    <3>4. ASSUME AcceptAdmin(caller) PROVE Handover!TakeOver
      BY <3>4 DEF AcceptAdmin, Handover!TakeOver
    <3>5. ASSUME NEW asset, NEW t, NEW n, NEW e, NEW d,
                 CreateDistributionDeadline(caller, asset, t, n, e, d)
          PROVE  Handover!Other
      BY <3>5 DEF CreateDistributionDeadline, RequireAdminOrAssetAdmin
    <3>6. ASSUME NEW id, ReclaimUnclaimed(caller, id) \/ CancelDistribution(caller, id)
          PROVE  Handover!Other
      BY <3>6 DEF ReclaimUnclaimed, CancelDistribution
    <3> QED
      BY <2>1, <3>1, <3>2, <3>3, <3>4, <3>5, <3>6, ConstantsAssumption
      DEF IssuerStep, CreateDistribution
  <2>2. ASSUME NEW holder \in Address, HolderStep(holder) PROVE Handover!Next
    BY <2>2 DEF HolderStep, Claim
  <2>3. ASSUME EnvironmentStep PROVE Handover!Next
    <3>1. CASE CloseLedger
      BY <3>1 DEF CloseLedger
    <3>2. ASSUME NEW asset, AssetChanges(asset) PROVE Handover!Other
      BY <3>2 DEF AssetChanges
    <3>3. ASSUME NEW t, NEW from \in Address, NEW to, NEW n, OutsideTransfer(t, from, to, n)
          PROVE  Handover!Other
      BY <3>3 DEF OutsideTransfer
    <3> QED
      BY <2>3, <3>1, <3>2, <3>3 DEF EnvironmentStep
  <2>4. CASE UNCHANGED vars
    BY <2>4 DEF vars
  <2> QED
    BY <2>1, <2>2, <2>3, <2>4 DEF Next
<1> QED
  BY <1>1, <1>2, AlwaysEscrowed, PTL DEF Spec, AdminRoleHandover, Handover!Spec

-----------------------------------------------------------------------------
(* What one step does to an open distribution. *)

\* A claim, a reclaim or a cancellation of one distribution, seen from all:
\* only its own entry and entitlement data change.
Touched(id) ==
    /\ dist[id].completed = FALSE
    /\ DOMAIN dist' = DOMAIN dist
    /\ \A i \in DOMAIN dist \ {id} :
          dist'[i] = dist[i] /\ snapshot'[i] = snapshot[i] /\ supply'[i] = supply[i]
    /\ dist'[id].total_amount = dist[id].total_amount
    /\ \/ dist'[id].completed
       \/ snapshot'[id] = snapshot[id] /\ supply'[id] = supply[id]

\* The possible effects of a step on the books.
BooksStep ==
    \/ \E id \in DOMAIN dist, h \in Address :       \* a claim
          /\ Touched(id)
          /\ <<id, h>> \notin claimed /\ claimed' = claimed \union {<<id, h>>}
    \/ \E id \in DOMAIN dist :                      \* a reclaim
          /\ Touched(id)
          /\ dist'[id].completed /\ claimed' = claimed /\ ~ClaimOpen(dist[id])
    \/ \E id \in DOMAIN dist :                      \* a cancellation
          /\ Touched(id)
          /\ dist'[id].completed /\ claimed' = claimed
          /\ dist'[id].distributed = dist[id].distributed
    \/ /\ \A i \in DOMAIN dist :                    \* anything else
             dist'[i] = dist[i] /\ snapshot'[i] = snapshot[i] /\ supply'[i] = supply[i]
       /\ claimed' = claimed

LEMMA DrawTouches ==
  ASSUME Escrowed, NEW id \in DOMAIN dist, NEW d \in Distribution, NEW to, NEW amount,
         Draw(id, d, to, amount)
  PROVE  Touched(id) /\ dist'[id] = d
<1>1. /\ dist \in Seq(Distribution) /\ dist[id] \in Distribution
      /\ DOMAIN snapshot = DOMAIN dist /\ DOMAIN supply = DOMAIN dist
  BY BooksTyped DEF Escrowed
<1>2. /\ ~dist[id].completed /\ d.total_amount = dist[id].total_amount
      /\ dist' = [dist EXCEPT ![id] = d]
      /\ IF d.completed THEN Close(id) ELSE UNCHANGED <<snapshot, supply>>
  BY DEF Draw
<1>3. /\ DOMAIN dist' = DOMAIN dist /\ dist'[id] = d
      /\ \A i \in DOMAIN dist \ {id} : dist'[i] = dist[i]
  BY <1>1, <1>2
<1>4. \A i \in DOMAIN dist \ {id} : snapshot'[i] = snapshot[i] /\ supply'[i] = supply[i]
  BY <1>1, <1>2 DEF Close
<1>5. dist[id].completed = FALSE
  BY <1>1, <1>2 DEF Distribution
<1> QED
  BY <1>2, <1>3, <1>4, <1>5 DEF Touched

LEMMA DrawsTouch ==
  ASSUME Escrowed, NEW id \in DOMAIN dist, NEW a \in Address,
         Claim(id, a) \/ ReclaimUnclaimed(a, id) \/ CancelDistribution(a, id)
  PROVE  BooksStep
<1>1. CASE Claim(id, a)
  <2>1. Touched(id)
    BY <1>1, ClaimDraws, DrawTouches
  <2>2. <<id, a>> \notin claimed /\ claimed' = claimed \union {<<id, a>>}
    BY <1>1 DEF Claim, HasClaimed
  <2> QED
    BY <2>1, <2>2 DEF BooksStep
<1>2. CASE ReclaimUnclaimed(a, id)
  <2>1. Touched(id) /\ dist'[id].completed
    BY <1>2, ReclaimDraws, DrawTouches
  <2>2. claimed' = claimed /\ Expired(dist[id])
    BY <1>2 DEF ReclaimUnclaimed
  <2>3. ~ClaimOpen(dist[id])
    <3>1. dist[id].deadline \in 0..MaxLedger /\ ledger \in 0..MaxLedger
      BY BooksTyped DEF Distribution, Escrowed, TypeOK
    <3>2. dist[id].deadline # 0 /\ ledger > dist[id].deadline
      BY <2>2 DEF Expired
    <3> QED
      BY <3>1, <3>2, ConstantsAssumption DEF ClaimOpen
  <2> QED
    BY <2>1, <2>2, <2>3 DEF BooksStep
<1>3. CASE CancelDistribution(a, id)
  <2>1. /\ Touched(id) /\ dist'[id].completed
        /\ dist'[id].distributed = dist[id].distributed
    BY <1>3, CancelDraws, DrawTouches
  <2>2. claimed' = claimed
    BY <1>3 DEF CancelDistribution
  <2> QED
    BY <2>1, <2>2 DEF BooksStep
<1> QED
  BY <1>1, <1>2, <1>3

LEMMA CreationLeavesOthers ==
  ASSUME Escrowed, NEW caller \in Address, NEW asset \in AssetToken,
         NEW token \in PaymentToken, NEW total \in TotalAmount, NEW eligible \in Eligible,
         NEW deadline \in 0..MaxLedger,
         CreateDistributionDeadline(caller, asset, token, total, eligible, deadline)
  PROVE  /\ \A i \in DOMAIN dist :
               dist'[i] = dist[i] /\ snapshot'[i] = snapshot[i] /\ supply'[i] = supply[i]
         /\ claimed' = claimed
<1>1. \A i \in DOMAIN dist : dist'[i] = dist[i]
  BY CreationTyped
<1>2. /\ claimed' = claimed /\ ValidEligible(eligible)
      /\ snapshot' = Append(snapshot, eligible)
      /\ supply' = Append(supply, SnapshotSupply(eligible))
  BY DEF CreateDistributionDeadline
<1>3. /\ snapshot \in Seq(Seq(Holding)) /\ Len(snapshot) = Len(dist)
      /\ supply \in Seq(0..I128Max) /\ Len(supply) = Len(dist)
      /\ DOMAIN dist = 1..Len(dist)
  BY BooksTyped DEF Escrowed
<1>4. eligible \in Seq(Holding) /\ SnapshotSupply(eligible) \in 0..I128Max
  BY <1>2, EligibleTyped
<1>5. \A i \in DOMAIN dist : snapshot'[i] = snapshot[i]
  <2> DEFINE T == Seq(Holding)
  <2> HIDE DEF T
  <2> QED
    BY <1>2, <1>3, <1>4, AppendProperties DEF T
<1>6. \A i \in DOMAIN dist : supply'[i] = supply[i]
  BY <1>2, <1>3, <1>4, AppendProperties
<1> QED
  BY <1>1, <1>2, <1>5, <1>6

LEMMA NextBooks == Escrowed /\ [Next]_vars => BooksStep
<1> SUFFICES ASSUME Escrowed, [Next]_vars PROVE BooksStep
  OBVIOUS
<1>1. ASSUME UNCHANGED <<dist, snapshot, supply, claimed>> PROVE BooksStep
  BY <1>1 DEF BooksStep
<1>2. ASSUME NEW caller \in Address, IssuerStep(caller) PROVE BooksStep
  <2>1. ASSUME NEW asset \in AssetToken, NEW t \in PaymentToken, NEW n \in TotalAmount,
               NEW e \in Eligible, CreateDistribution(caller, asset, t, n, e)
        PROVE  BooksStep
    <3>1. 0 \in 0..MaxLedger
      BY ConstantsAssumption
    <3> QED
      BY <2>1, <3>1, CreationLeavesOthers DEF CreateDistribution, BooksStep
  <2>2. ASSUME NEW asset \in AssetToken, NEW t \in PaymentToken, NEW n \in TotalAmount,
               NEW e \in Eligible, NEW d \in Deadline,
               CreateDistributionDeadline(caller, asset, t, n, e, d)
        PROVE  BooksStep
    <3>1. d \in 0..MaxLedger
      BY ConstantsAssumption
    <3> QED
      BY <2>2, <3>1, CreationLeavesOthers DEF BooksStep
  <2>3. ASSUME NEW a, \/ Initialize(caller) \/ ProposeAdmin(caller, a)
                      \/ CancelAdminProposal(caller) \/ AcceptAdmin(caller)
        PROVE  BooksStep
    BY <1>1, <2>3
    DEF Initialize, ProposeAdmin, CancelAdminProposal, AcceptAdmin, bookVars
  <2> QED
    BY <1>2, <2>1, <2>2, <2>3, DrawsTouch DEF IssuerStep
<1>3. ASSUME NEW holder \in Address, HolderStep(holder) PROVE BooksStep
  BY <1>3, DrawsTouch DEF HolderStep
<1>4. ASSUME EnvironmentStep PROVE BooksStep
  <2>1. UNCHANGED bookVars
    BY <1>4 DEF EnvironmentStep, CloseLedger, AssetChanges, OutsideTransfer
  <2> QED
    BY <1>1, <2>1 DEF bookVars
<1>5. ASSUME UNCHANGED vars PROVE BooksStep
  BY <1>1, <1>5 DEF vars, bookVars
<1> QED
  BY <1>2, <1>3, <1>4, <1>5 DEF Next

\* A share depends on the flag of its holder, the frozen list and supply and
\* the total of its distribution, and on nothing else.
LEMMA ShareKept ==
  ASSUME NEW id, NEW h, HasClaimed(id, h)' <=> HasClaimed(id, h),
         snapshot'[id] = snapshot[id], supply'[id] = supply[id],
         dist'[id].total_amount = dist[id].total_amount
  PROVE  Claimable(id, h)' = Claimable(id, h)
<1>1. SnapshotBalance(id, h)' = SnapshotBalance(id, h)
  BY DEF SnapshotBalance
<1> QED
  BY <1>1 DEF Claimable

\* While a distribution stays open, nothing but the holder's own claim changes
\* the holder's share of it.
THEOREM EntitlementsFrozen == Spec => EntitlementIsFrozen
<1>1. ASSUME Escrowed, BooksStep,
             NEW id \in DOMAIN dist, NEW h \in Address,
             Open(id), Open(id)', <<id, h>> \notin claimed'
      PROVE  Claimable(id, h)' = Claimable(id, h)
  <2>1. ~dist'[id].completed
    BY <1>1 DEF Open
  <2>2. claimed \subseteq claimed'
    BY <1>1 DEF BooksStep
  <2>3. /\ snapshot'[id] = snapshot[id] /\ supply'[id] = supply[id]
        /\ dist'[id].total_amount = dist[id].total_amount
    BY <1>1, <2>1 DEF BooksStep, Touched
  <2>4. HasClaimed(id, h)' <=> HasClaimed(id, h)
    BY <1>1, <2>2 DEF HasClaimed
  <2> QED
    BY <2>3, <2>4, ShareKept
<1>2. Escrowed /\ [Next]_vars =>
          [\A id \in DOMAIN dist, h \in Address :
             (Open(id) /\ Open(id)' /\ <<id, h>> \notin claimed') =>
                 Claimable(id, h)' = Claimable(id, h)]_vars
  BY <1>1, NextBooks
<1> QED
  BY <1>2, AlwaysEscrowed, PTL DEF Spec, EntitlementIsFrozen

\* A reclaim never takes a share that its holder could still have claimed in
\* the same ledger.
THEOREM ReclaimTakesNoLiveShare == Spec => ReclaimNeverTakesClaimableShare
<1>1. ASSUME Escrowed, BooksStep, NEW id \in DOMAIN dist,
             dist'[id].distributed > dist[id].distributed, claimed' = claimed
      PROVE  ~ClaimOpen(dist[id])
  <2>1. dist[id].distributed \in Nat
    BY <1>1, BooksTyped, AmountsNatural DEF Escrowed
  <2>2. dist'[id].distributed # dist[id].distributed
    BY <1>1, <2>1
  <2> QED
    BY <1>1, <2>2 DEF BooksStep, Touched
<1>2. Escrowed /\ [Next]_vars =>
          [\A id \in DOMAIN dist :
             (dist'[id].distributed > dist[id].distributed /\ claimed' = claimed) =>
                 \A h \in Address : ~(ClaimOpen(dist[id]) /\ Claimable(id, h) > 0)]_vars
  BY <1>1, NextBooks
<1> QED
  BY <1>2, AlwaysEscrowed, PTL DEF Spec, ReclaimNeverTakesClaimableShare

-----------------------------------------------------------------------------
(* The refinement of EscrowPots. *)

\* The wallets and pots of the refinement mapping, for given balances and books.
WalletsOf(balances) == [t \in PaymentToken |-> [a \in Address |-> balances[t][a]]]

PotsOf(books) == [id \in DOMAIN books |-> PotOf(books[id])]

\* A payment between the escrow and an address is a change of that wallet alone.
LEMMA EscrowWallet ==
  ASSUME payment \in [PaymentToken -> [Account -> Nat]],
         NEW t \in PaymentToken, NEW a \in Address, NEW n \in Nat,
         \/ Pay(t, a, Escrow, n)
         \/ Pay(t, Escrow, a, n)
  PROVE  /\ Pay(t, a, Escrow, n) =>
               /\ WalletsOf(payment)[t][a] >= n
               /\ WalletsOf(payment') = [WalletsOf(payment) EXCEPT ![t][a] = @ - n]
         /\ Pay(t, Escrow, a, n) =>
               WalletsOf(payment') = [WalletsOf(payment) EXCEPT ![t][a] = @ + n]
<1> DEFINE w == WalletsOf(payment)
           after == WalletsOf(payment')
           mine == [b \in Address |-> payment[t][b]]
<1>1. Escrow \in Account /\ a \in Account /\ a # Escrow /\ Address \subseteq Account
      /\ Escrow \notin Address
  BY ConstantsAssumption DEF Account
<1>2. ASSUME NEW from \in Account, NEW to \in Account, from # to, Pay(t, from, to, n)
      PROVE  /\ payment[t][from] >= n
             /\ payment'[t][from] = payment[t][from] - n
             /\ payment'[t][to] = payment[t][to] + n
             /\ \A b \in Account \ {from, to} : payment'[t][b] = payment[t][b]
             /\ \A u \in PaymentToken \ {t} : payment'[u] = payment[u]
  BY <1>2, PayMoves DEF Pay
<1>3. /\ \A b \in Address \ {a} : payment'[t][b] = payment[t][b]
      /\ \A u \in PaymentToken \ {t} : payment'[u] = payment[u]
      /\ Pay(t, a, Escrow, n) => /\ payment[t][a] >= n
                                 /\ payment'[t][a] = payment[t][a] - n
      /\ Pay(t, Escrow, a, n) => payment'[t][a] = payment[t][a] + n
  BY <1>1, <1>2
<1>4. /\ w = [u \in PaymentToken |-> w[u]] /\ w[t] = mine /\ w[t][a] = payment[t][a]
      /\ after = [u \in PaymentToken |-> after[u]]
      /\ after[t] = [b \in Address |-> payment'[t][b]]
      /\ \A u \in PaymentToken \ {t} : after[u] = w[u]
  BY <1>3 DEF WalletsOf
<1>5. after[t] = [mine EXCEPT ![a] = payment'[t][a]]
  BY <1>3, <1>4
<1> HIDE DEF w, after, mine
<1>6. after = [w EXCEPT ![t] = [mine EXCEPT ![a] = payment'[t][a]]]
  BY <1>4, <1>5
<1>7. after = [w EXCEPT ![t][a] = payment'[t][a]]
  BY <1>4, <1>6
<1>8. Pay(t, a, Escrow, n) => w[t][a] >= n /\ after = [w EXCEPT ![t][a] = @ - n]
  BY <1>3, <1>4, <1>7
<1>9. Pay(t, Escrow, a, n) => after = [w EXCEPT ![t][a] = @ + n]
  BY <1>3, <1>4, <1>7
<1> QED
  BY <1>8, <1>9 DEF w, after

\* What the mapping makes of one changed or one new entry.
LEMMA PotsAfterChange ==
  ASSUME NEW books \in Seq(Distribution), NEW id \in DOMAIN books, NEW d \in Distribution
  PROVE  PotsOf([books EXCEPT ![id] = d]) = [PotsOf(books) EXCEPT ![id] = PotOf(d)]
BY DEF PotsOf

LEMMA PotsAfterCreation ==
  ASSUME NEW books \in Seq(Distribution), NEW d \in Distribution
  PROVE  PotsOf(Append(books, d)) = Append(PotsOf(books), PotOf(d))
<1> DEFINE n == Len(books)
           k == n + 1
           old == PotsOf(books)
           new == PotsOf(Append(books, d))
           P == {PotOf(e) : e \in Distribution}
<1>1. /\ n \in Nat /\ DOMAIN books = 1..n /\ Append(books, d) \in Seq(Distribution)
      /\ DOMAIN Append(books, d) = 1..k /\ Append(books, d)[k] = d
      /\ \A i \in 1..n : books[i] \in Distribution /\ Append(books, d)[i] = books[i]
  OBVIOUS
<1>2. /\ old \in Seq(P) /\ Len(old) = n /\ DOMAIN old = 1..n
      /\ \A i \in 1..n : old[i] = PotOf(books[i])
  <2>1. old = [i \in 1..n |-> PotOf(books[i])]
    BY <1>1 DEF PotsOf
  <2>2. \A i \in 1..n : PotOf(books[i]) \in P
    BY <1>1
  <2> HIDE DEF P, old
  <2>3. old \in [1..n -> P]
    BY <2>1, <2>2
  <2>4. old \in Seq(P)
    BY <1>1, <2>3, SeqDef
  <2>5. Len(old) = n
    BY <1>1, <2>3, <2>4, LenProperties
  <2> QED
    BY <2>1, <2>3, <2>4, <2>5
<1>3. /\ DOMAIN new = 1..k /\ new[k] = PotOf(d)
      /\ \A i \in 1..n : new[i] = PotOf(books[i])
      /\ new = [i \in DOMAIN new |-> new[i]]
  <2> DEFINE more == Append(books, d)
  <2>1. new = [i \in 1..k |-> PotOf(more[i])]
    BY <1>1 DEF PotsOf
  <2>2. /\ k \in 1..k /\ more[k] = d
        /\ \A i \in 1..n : i \in 1..k /\ more[i] = books[i]
    BY <1>1
  <2> HIDE DEF new, more, k
  <2> QED
    BY <2>1, <2>2
<1>4. PotOf(d) \in P
  OBVIOUS
<1> HIDE DEF old, new, P
<1>5. /\ Append(old, PotOf(d)) \in Seq(P) /\ Len(Append(old, PotOf(d))) = k
      /\ DOMAIN Append(old, PotOf(d)) = 1..k
      /\ \A i \in 1..n : Append(old, PotOf(d))[i] = old[i]
      /\ Append(old, PotOf(d))[k] = PotOf(d)
  BY <1>1, <1>2, <1>4, AppendProperties, LenProperties
<1>6. new = Append(old, PotOf(d))
  <2>1. \A i \in 1..k : new[i] = Append(old, PotOf(d))[i]
    BY <1>1, <1>2, <1>3, <1>5
  <2>2. Append(old, PotOf(d)) = [i \in 1..k |-> Append(old, PotOf(d))[i]]
    BY <1>5, LenProperties
  <2> QED
    BY <1>3, <2>1, <2>2
<1> QED
  BY <1>6 DEF old, new

\* A distribution is closed exactly when nothing is left in it.
LEMMA PotOfLeft ==
  ASSUME NEW d \in Distribution, d.distributed <= d.total_amount,
         d.distributed = d.total_amount => d.completed
  PROVE  LeftIn(d) \in Nat /\ PotOf(d) = Pots!Pot(d.payment_token, LeftIn(d))
<1>1. d.total_amount \in Nat /\ d.distributed \in Nat
  BY AmountsNatural
<1>2. CASE d.completed
  BY <1>2 DEF LeftIn, PotOf, Pots!Pot
<1>3. CASE ~d.completed
  <2>1. LeftIn(d) \in Nat /\ LeftIn(d) > 0
    BY <1>1, <1>3 DEF LeftIn, Remaining
  <2>2. (~d.completed) = TRUE /\ (LeftIn(d) > 0) = TRUE
    BY <1>3, <2>1
  <2> QED
    BY <2>1, <2>2 DEF PotOf, Pots!Pot
<1> QED
  BY <1>2, <1>3

\* The mapping in terms of balances and books.
LEMMA MappingOf ==
  /\ Wallets = WalletsOf(payment) /\ Wallets' = WalletsOf(payment')
  /\ PotList = PotsOf(dist) /\ PotList' = PotsOf(dist')
BY DEF Wallets, WalletsOf, PotList, PotsOf

LEMMA CreationFills ==
  ASSUME Escrowed, NEW caller \in Address, NEW asset \in AssetToken,
         NEW token \in PaymentToken, NEW total \in TotalAmount, NEW eligible \in Eligible,
         NEW deadline \in 0..MaxLedger,
         CreateDistributionDeadline(caller, asset, token, total, eligible, deadline)
  PROVE  total \in 1..Wallets[token][caller] /\ Pots!Fill(token, caller, total)
<1> DEFINE d == Created(asset, token, total, deadline)
<1>1. d \in Distribution /\ dist' = Append(dist, d)
  BY CreationTyped
<1>2. total \in Nat \ {0} /\ d.total_amount = total
  BY <1>1, AmountsNatural DEF Created
<1>3. Pay(token, caller, Escrow, total) /\ claimed' = claimed
  BY DEF CreateDistributionDeadline
<1>4. /\ dist \in Seq(Distribution) /\ payment \in [PaymentToken -> [Account -> Nat]]
  BY BooksTyped DEF Escrowed
<1>5. /\ Wallets[token][caller] >= total
      /\ Wallets' = [Wallets EXCEPT ![token][caller] = @ - total]
  BY <1>2, <1>3, <1>4, EscrowWallet, MappingOf
<1>6. Wallets[token][caller] \in Nat
  BY <1>4 DEF Wallets, Account
<1>7. PotList' = Append(PotList, PotOf(d))
  <2> HIDE DEF d
  <2>1. PotsOf(Append(dist, d)) = Append(PotsOf(dist), PotOf(d))
    BY <1>1, <1>4, PotsAfterCreation
  <2>2. PotsOf(dist') = Append(PotsOf(dist), PotOf(d))
    BY <1>1, <2>1
  <2> QED
    BY <2>2, MappingOf
<1>8. PotOf(d) = Pots!Pot(token, total)
  <2>1. /\ d.distributed = 0 /\ d.total_amount = total /\ d.payment_token = token
        /\ ~d.completed
    BY DEF Created
  <2> HIDE DEF d
  <2>2. LeftIn(d) = total
    BY <1>2, <2>1 DEF LeftIn, Remaining
  <2> QED
    BY <1>1, <1>2, <2>1, <2>2, PotOfLeft
<1>9. PotList' = Append(PotList, Pots!Pot(token, total))
  BY <1>7, <1>8
<1> QED
  BY <1>2, <1>3, <1>5, <1>6, <1>9 DEF Pots!Fill

\* A draw takes from one pot and pays one wallet.
LEMMA DrawPots ==
  ASSUME Escrowed, NEW id \in DOMAIN dist, NEW d \in Distribution, NEW to \in Address,
         NEW n \in Nat, Draw(id, d, to, n)
  PROVE  LET p == PotList[id]
         IN  /\ p.open /\ n \in 1..p.left
             /\ PotList' = [PotList EXCEPT ![id] = Pots!Pot(p.token, p.left - n)]
             /\ Wallets' = [Wallets EXCEPT ![p.token][to] = @ + n]
<1> DEFINE old == dist[id]
           p == PotList[id]
<1>1. /\ dist \in Seq(Distribution) /\ old \in Distribution
      /\ old.distributed <= old.total_amount
      /\ old.distributed = old.total_amount => old.completed
      /\ payment \in [PaymentToken -> [Account -> Nat]]
  BY BooksTyped DEF Escrowed, PaidWithinTotals
<1>2. /\ ~old.completed /\ d.payment_token = old.payment_token
      /\ d.distributed <= d.total_amount
      /\ d.distributed = d.total_amount => d.completed
      /\ n > 0 /\ n = LeftIn(old) - LeftIn(d)
      /\ dist' = [dist EXCEPT ![id] = d]
      /\ Pay(d.payment_token, Escrow, to, n)
  BY DEF Draw
<1>3. LeftIn(old) \in Nat /\ LeftIn(d) \in Nat /\ PotOf(d) = Pots!Pot(d.payment_token, LeftIn(d))
  BY <1>1, <1>2, PotOfLeft
<1>4. p = PotOf(old)
  BY DEF PotList
<1> HIDE DEF old, p
<1>5. p.open /\ p.left = LeftIn(old) /\ p.token = old.payment_token
  <2>1. (~old.completed) = TRUE
    BY <1>2
  <2>2. p = [token |-> old.payment_token, left |-> LeftIn(old), open |-> TRUE]
    BY <1>4, <2>1 DEF PotOf
  <2> QED
    BY <2>2
<1>6. n \in 1..p.left /\ PotOf(d) = Pots!Pot(p.token, p.left - n)
  BY <1>2, <1>3, <1>5
<1>7. PotList' = [PotList EXCEPT ![id] = PotOf(d)]
  <2>1. PotsOf([dist EXCEPT ![id] = d]) = [PotsOf(dist) EXCEPT ![id] = PotOf(d)]
    BY <1>1, PotsAfterChange
  <2>2. PotsOf(dist') = [PotsOf(dist) EXCEPT ![id] = PotOf(d)]
    BY <1>2, <2>1
  <2> QED
    BY <2>2 DEF PotList, PotsOf
<1>8. Wallets' = [Wallets EXCEPT ![p.token][to] = @ + n]
  <2> DEFINE u == p.token
  <2>1. u \in PaymentToken /\ Pay(u, Escrow, to, n)
    BY <1>1, <1>2, <1>5 DEF Distribution
  <2> HIDE DEF u
  <2>2. WalletsOf(payment') = [WalletsOf(payment) EXCEPT ![u][to] = @ + n]
    BY <1>1, <2>1, EscrowWallet
  <2>3. Wallets' = [Wallets EXCEPT ![u][to] = @ + n]
    BY <2>2 DEF Wallets, WalletsOf
  <2> QED
    BY <2>3 DEF u
<1>9. PotList' = [PotList EXCEPT ![id] = Pots!Pot(p.token, p.left - n)]
  BY <1>6, <1>7
<1> QED
  BY <1>5, <1>6, <1>8, <1>9 DEF p

LEMMA DrawsFromPots ==
  ASSUME Escrowed, NEW id \in DOMAIN dist, NEW a \in Address,
         Claim(id, a) \/ ReclaimUnclaimed(a, id) \/ CancelDistribution(a, id)
  PROVE  /\ id \in DOMAIN PotList
         /\ \/ \E n \in 1..PotList[id].left : Pots!Pay(id, a, n)
            \/ Pots!HandBack(id, a)
<1>1. id \in DOMAIN PotList
  BY DEF PotList
<1>2. CASE Claim(id, a)
  <2> DEFINE n == Claimable(id, a)
  <2>1. PICK d \in Distribution : Draw(id, d, a, n)
    BY <1>2, ClaimDraws
  <2>2. n \in Nat
    BY ClaimableNatural DEF Escrowed
  <2>3. <<id, a>> \notin claimed /\ claimed' = claimed \union {<<id, a>>}
    BY <1>2 DEF Claim, HasClaimed
  <2> HIDE DEF n
  <2> QED
    BY <1>1, <2>1, <2>2, <2>3, DrawPots DEF Pots!Pay
<1>3. ASSUME NEW n \in Nat, NEW d \in Distribution, Draw(id, d, a, n), LeftIn(d) = 0,
             claimed' = claimed
      PROVE  Pots!HandBack(id, a)
  <2> DEFINE p == PotList[id]
  <2>1. /\ p.open /\ n \in 1..p.left
        /\ PotList' = [PotList EXCEPT ![id] = Pots!Pot(p.token, p.left - n)]
        /\ Wallets' = [Wallets EXCEPT ![p.token][a] = @ + n]
    BY <1>3, DrawPots
  <2>2. p.left = LeftIn(dist[id])
    BY DEF PotList, PotOf
  <2>3. n = LeftIn(dist[id]) - LeftIn(d)
    BY <1>3 DEF Draw
  <2>4. LeftIn(dist[id]) \in Nat
    BY BooksTyped, PotOfLeft DEF Escrowed, PaidWithinTotals
  <2> HIDE DEF p
  <2>5. p.left = n /\ p.left - n = 0 /\ p.left > 0
    BY <1>3, <2>1, <2>2, <2>3, <2>4
  <2>6. /\ PotList' = [PotList EXCEPT ![id] = Pots!Pot(p.token, 0)]
        /\ Wallets' = [Wallets EXCEPT ![p.token][a] = @ + p.left]
    BY <2>1, <2>5
  <2> QED
    BY <1>3, <2>1, <2>5, <2>6 DEF Pots!HandBack, p
<1>4. CASE ReclaimUnclaimed(a, id)
  <2>1. claimed' = claimed
    BY <1>4 DEF ReclaimUnclaimed
  <2> QED
    BY <1>1, <1>3, <1>4, <2>1, ReclaimDraws DEF LeftIn
<1>5. CASE CancelDistribution(a, id)
  <2>1. dist[id].total_amount \in Nat
    BY BooksTyped, AmountsNatural DEF Escrowed
  <2>2. claimed' = claimed
    BY <1>5 DEF CancelDistribution
  <2> QED
    BY <1>1, <1>3, <1>5, <2>1, <2>2, CancelDraws DEF LeftIn
<1> QED
  BY <1>1, <1>2, <1>4, <1>5

LEMMA SameTables ==
  ASSUME NEW S, NEW T, NEW f \in [S -> [T -> Int]], NEW g \in [S -> [T -> Int]],
         \A x \in S, y \in T : f[x][y] = g[x][y]
  PROVE  f = g
<1>1. ASSUME NEW x \in S PROVE f[x] = g[x]
  <2>1. f[x] \in [T -> Int] /\ g[x] \in [T -> Int]
    OBVIOUS
  <2> QED
    BY <2>1
<1> QED
  BY <1>1

\* A transfer behind the contract's back is a spending or a gift.
LEMMA OutsideSpends ==
  ASSUME Escrowed, NEW t \in PaymentToken, NEW from \in Address, NEW to \in Account,
         NEW n \in Gift, OutsideTransfer(t, from, to, n)
  PROVE  /\ n \in 1..Wallets[t][from]
         /\ \/ Pots!Donate(t, from, n)
            \/ to \in Address /\ Pots!Spend(t, from, to, n)
<1>1. /\ payment \in [PaymentToken -> [Account -> Nat]]
      /\ n \in Nat /\ n > 0 /\ from # Escrow
  BY BooksTyped, ConstantsAssumption DEF Escrowed
<1>2. /\ from # to /\ payment[t][from] >= n
      /\ payment' = [payment EXCEPT ![t][from] = @ - n, ![t][to] = @ + n]
      /\ PotList' = PotList /\ claimed' = claimed
  BY DEF OutsideTransfer, bookVars, PotList
<1>3. Wallets[t][from] = payment[t][from] /\ Wallets[t][from] \in Nat
  BY <1>1 DEF Wallets, Account
<1> DEFINE w == Wallets
<1>4. /\ w \in [PaymentToken -> [Address -> Int]]
      /\ w' \in [PaymentToken -> [Address -> Int]]
  <2>1. Escrowed'
    BY OutsideKeepsEscrow
  <2>2. payment' \in [PaymentToken -> [Account -> Nat]]
    BY <2>1 DEF Escrowed, TypeOK, Account
  <2> QED
    BY <1>1, <2>2 DEF Wallets, Account
<1>5. CASE to = Escrow
  <2>1. Wallets' = [Wallets EXCEPT ![t][from] = @ - n]
    <3>1. \A u \in PaymentToken, a \in Address :
             Wallets'[u][a] = IF u = t /\ a = from THEN Wallets[t][from] - n ELSE Wallets[u][a]
      BY <1>1, <1>2, <1>3, <1>5, ConstantsAssumption DEF Wallets, Account
    <3> DEFINE v == [w EXCEPT ![t][from] = @ - n]
    <3> HIDE DEF w
    <3>2. /\ v \in [PaymentToken -> [Address -> Int]]
          /\ \A u \in PaymentToken, a \in Address :
                v[u][a] = IF u = t /\ a = from THEN w[t][from] - n ELSE w[u][a]
      BY <1>1, <1>4
    <3>3. \A u \in PaymentToken, a \in Address : w'[u][a] = v[u][a]
      BY <3>1, <3>2 DEF w
    <3> HIDE DEF v
    <3>4. w' = v
      BY <1>4, <3>2, <3>3, SameTables
    <3> QED
      BY <3>4 DEF v, w
  <2> QED
    BY <1>1, <1>2, <1>3, <2>1 DEF Pots!Donate
<1>6. CASE to # Escrow
  <2>1. Wallets' = [Wallets EXCEPT ![t][from] = @ - n, ![t][to] = @ + n]
    <3>1. \A u \in PaymentToken, a \in Address :
             Wallets'[u][a] = IF u = t /\ a = from THEN Wallets[t][from] - n
                              ELSE IF u = t /\ a = to THEN Wallets[t][to] + n
                              ELSE Wallets[u][a]
      BY <1>1, <1>2, <1>3, <1>6, ConstantsAssumption DEF Wallets, Account
    <3> DEFINE v == [w EXCEPT ![t][from] = @ - n, ![t][to] = @ + n]
    <3>2. to \in Address
      BY <1>6 DEF Account
    <3> HIDE DEF w
    <3>3. /\ v \in [PaymentToken -> [Address -> Int]]
          /\ \A u \in PaymentToken, a \in Address :
                v[u][a] = IF u = t /\ a = from THEN w[t][from] - n
                          ELSE IF u = t /\ a = to THEN w[t][to] + n
                          ELSE w[u][a]
      BY <1>1, <1>2, <1>4, <3>2
    <3>4. \A u \in PaymentToken, a \in Address : w'[u][a] = v[u][a]
      BY <3>1, <3>3 DEF w
    <3> HIDE DEF v
    <3>5. w' = v
      BY <1>4, <3>3, <3>4, SameTables
    <3> QED
      BY <3>5 DEF v, w
  <2> QED
    BY <1>1, <1>2, <1>3, <1>6, <2>1 DEF Pots!Spend, Account
<1> QED
  BY <1>5, <1>6

LEMMA InitPots == Init => Pots!Init
<1> SUFFICES ASSUME Init PROVE Pots!Init
  OBVIOUS
<1>1. Wallets \in [PaymentToken -> [Address -> Nat]]
  <2>1. Escrowed
    BY InitEscrowed
  <2> QED
    BY <2>1, BooksTyped DEF Escrowed, Wallets, Account
<1>2. PotList = <<>>
  <2>1. PotList = [id \in {} |-> PotOf(dist[id])]
    BY DEF PotList, Init
  <2> QED
    BY <2>1
<1>3. claimed = {}
  BY DEF Init
<1> QED
  BY <1>1, <1>2, <1>3 DEF Pots!Init

LEMMA NextPots == Escrowed /\ [Next]_vars => [Pots!Next]_(Pots!vars)
<1> SUFFICES ASSUME Escrowed, [Next]_vars PROVE Pots!Next \/ UNCHANGED Pots!vars
  OBVIOUS
<1>1. ASSUME UNCHANGED <<payment, dist, claimed>> PROVE UNCHANGED Pots!vars
  BY <1>1 DEF Pots!vars, Wallets, PotList
<1>2. ASSUME NEW asset \in AssetToken, NEW token \in PaymentToken, NEW n \in TotalAmount,
             NEW e \in Eligible, NEW d \in 0..MaxLedger, NEW caller \in Address,
             CreateDistributionDeadline(caller, asset, token, n, e, d)
      PROVE  Pots!Next
  BY <1>2, CreationFills DEF Pots!Next
<1>3. ASSUME NEW id \in DOMAIN dist, NEW a \in Address,
             Claim(id, a) \/ ReclaimUnclaimed(a, id) \/ CancelDistribution(a, id)
      PROVE  Pots!Next
  BY <1>3, DrawsFromPots DEF Pots!Next
<1>4. ASSUME NEW caller \in Address, IssuerStep(caller)
      PROVE  Pots!Next \/ UNCHANGED Pots!vars
  <2>1. ASSUME NEW asset \in AssetToken, NEW t \in PaymentToken, NEW n \in TotalAmount,
               NEW e \in Eligible, CreateDistribution(caller, asset, t, n, e)
        PROVE  Pots!Next
    <3>1. 0 \in 0..MaxLedger
      BY ConstantsAssumption
    <3> QED
      BY <1>2, <2>1, <3>1 DEF CreateDistribution
  <2>2. ASSUME NEW asset \in AssetToken, NEW t \in PaymentToken, NEW n \in TotalAmount,
               NEW e \in Eligible, NEW d \in Deadline,
               CreateDistributionDeadline(caller, asset, t, n, e, d)
        PROVE  Pots!Next
    <3>1. d \in 0..MaxLedger
      BY ConstantsAssumption
    <3> QED
      BY <1>2, <2>2, <3>1
  <2>3. ASSUME NEW a, \/ Initialize(caller) \/ ProposeAdmin(caller, a)
                      \/ CancelAdminProposal(caller) \/ AcceptAdmin(caller)
        PROVE  UNCHANGED Pots!vars
    BY <1>1, <2>3
    DEF Initialize, ProposeAdmin, CancelAdminProposal, AcceptAdmin, bookVars, moneyVars
  <2> QED
    BY <1>3, <1>4, <2>1, <2>2, <2>3 DEF IssuerStep
<1>5. ASSUME NEW holder \in Address, HolderStep(holder) PROVE Pots!Next
  BY <1>3, <1>5 DEF HolderStep
<1>6. ASSUME EnvironmentStep PROVE Pots!Next \/ UNCHANGED Pots!vars
  <2>1. ASSUME NEW asset, CloseLedger \/ AssetChanges(asset) PROVE UNCHANGED Pots!vars
    BY <1>1, <2>1 DEF CloseLedger, AssetChanges, bookVars, moneyVars
  <2>2. ASSUME NEW t \in PaymentToken, NEW from \in Address, NEW to \in Address \union {Escrow},
               NEW n \in Gift, OutsideTransfer(t, from, to, n)
        PROVE  Pots!Next
    BY <2>2, OutsideSpends DEF Pots!Next, Account
  <2> QED
    BY <1>6, <2>1, <2>2 DEF EnvironmentStep
<1>7. ASSUME UNCHANGED vars PROVE UNCHANGED Pots!vars
  BY <1>1, <1>7 DEF vars, bookVars, moneyVars
<1> QED
  BY <1>4, <1>5, <1>6, <1>7 DEF Next

\* The dividend contract implements isolated pots: although one account holds
\* the money of all distributions of a token, a claim, reclaim or cancellation
\* takes from one pot exactly what it pays out, nobody is paid twice from a
\* pot, and no pot pays after it was emptied or handed back.
THEOREM ImplementsPots == Spec => ImplementsIsolatedPots
BY InitPots, NextPots, AlwaysEscrowed, PTL DEF Spec, ImplementsIsolatedPots, Pots!Spec
=============================================================================
