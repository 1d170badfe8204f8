-------------------------- MODULE AssetTokenProofs --------------------------
(***************************************************************************)
(* Theorems about AssetToken for every set of addresses, every i128 bound  *)
(* and every set of inputs.                                                *)
(***************************************************************************)
EXTENDS AssetToken, TotalsProofs

\* The inductive invariant.  No part is inductive alone: burn keeps the
\* supply non-negative only because no balance exceeds it, the sum is only
\* meaningful for well-typed balances, and initialize, which overwrites the
\* supply and one balance, keeps the sum only because nothing exists before.
NothingBeforeInitialize ==
    ~Initialized => /\ total_supply = 0 /\ valuation = 0
                    /\ pending_admin = NoAddress
                    /\ paused = FALSE

Ledgered == TypeOK /\ SupplyConservation /\ NothingBeforeInitialize

Balances == [Address -> 0..I128Max]
Entries == Seq([to : Address, amount : Amount])

-----------------------------------------------------------------------------
(* One movement between two balances. *)

LEMMA BalancesAreNatTables ==
  ASSUME NEW bal \in Balances
  PROVE  /\ IsFiniteSet(Address)
         /\ bal \in [Address -> Nat]
         /\ Total(bal) \in Nat
<1>1. IsFiniteSet(Address) /\ I128Max \in Nat
  BY ConstantsAssumption
<1>2. bal \in [Address -> Nat]
  BY <1>1 DEF Balances
<1> QED
  BY <1>1, <1>2, UnitsFinite

\* A movement the balances permit gives balances again and keeps their sum.
LEMMA MoveConserves ==
  ASSUME NEW bal \in Balances, NEW from \in Address, NEW to \in Address,
         NEW amount \in Int, CheckAmount(amount), CanMove(bal, from, to, amount)
  PROVE  /\ Moved(bal, from, to, amount) \in Balances
         /\ Total(Moved(bal, from, to, amount)) = Total(bal)
         /\ \A a \in Address \ {from, to} : Moved(bal, from, to, amount)[a] = bal[a]
         /\ \A a \in Address \ {from} : Moved(bal, from, to, amount)[a] >= bal[a]
<1>1. CASE from = to
  BY <1>1, ConstantsAssumption DEF Moved, Balances
<1>2. CASE from # to
  <2> DEFINE new == Moved(bal, from, to, amount)
  <2>1. amount \in Nat /\ amount <= bal[from] /\ bal[to] + amount <= I128Max
    BY <1>2 DEF CheckAmount, CanMove
  <2>2. new = [bal EXCEPT ![from] = bal[from] - amount, ![to] = bal[to] + amount]
    BY <1>2 DEF Moved, Balances
  <2>3. new \in Balances
    BY <1>2, <2>1, <2>2, ConstantsAssumption DEF Balances
  <2>4. /\ new[from] = bal[from] - amount
        /\ new[to] = bal[to] + amount
        /\ \A a \in Address \ {from, to} : new[a] = bal[a]
    BY <1>2, <2>2 DEF Balances
  <2> HIDE DEF new
  <2>5. new \in [Address -> Nat] /\ bal \in [Address -> Nat] /\ IsFiniteSet(Address)
    BY <2>3, BalancesAreNatTables
  <2>6. Total(new) = Total(bal)
    BY <1>2, <2>1, <2>4, <2>5, TotalMove
  <2>7. \A a \in Address \ {from} : new[a] >= bal[a]
    BY <2>1, <2>4, <2>5
  <2> QED
    BY <2>3, <2>4, <2>6, <2>7 DEF new
<1> QED
  BY <1>1, <1>2

\* Changing one balance changes the sum by the same amount.
LEMMA CreditChangesTotal ==
  ASSUME NEW bal \in Balances, NEW a \in Address, NEW v \in 0..I128Max
  PROVE  /\ [bal EXCEPT ![a] = v] \in Balances
         /\ Total([bal EXCEPT ![a] = v]) = Total(bal) - bal[a] + v
<1> DEFINE new == [bal EXCEPT ![a] = v]
<1>1. new \in Balances /\ new[a] = v /\ \A b \in Address \ {a} : new[b] = bal[b]
  BY DEF Balances
<1> HIDE DEF new
<1>2. new \in [Address -> Nat] /\ bal \in [Address -> Nat] /\ IsFiniteSet(Address)
  BY <1>1, BalancesAreNatTables
<1>3. Total(new) = Total(bal) - bal[a] + new[a]
  BY <1>1, <1>2, TotalUpdate
<1> QED
  BY <1>1, <1>3 DEF new

\* The fields of a batch entry.
LEMMA EntryFields ==
  ASSUME NEW entries \in Entries
  PROVE  /\ Len(entries) \in Nat
         /\ \A i \in 1..Len(entries) :
               entries[i].to \in Address /\ entries[i].amount \in Int
<1> DEFINE Entry == [to : Address, amount : Amount]
<1>1. entries \in Seq(Entry)
  BY DEF Entries
<1>2. \A e \in Entry : e.to \in Address /\ e.amount \in Int
  <2>1. Amount \subseteq Int
    BY ConstantsAssumption DEF I128
  <2> QED BY <2>1
<1> HIDE DEF Entry
<1>3. Len(entries) \in Nat /\ \A i \in 1..Len(entries) : entries[i] \in Entry
  BY <1>1
<1> QED
  BY <1>2, <1>3

-----------------------------------------------------------------------------
(* Batches: the run of balances a batch goes through exists and is the     *)
(* iteration of its entries.                                               *)

LEMMA TransferRunSteps ==
  ASSUME NEW from, NEW entries \in Entries
  PROVE  /\ TransferRun(from, entries)[0] = balance
         /\ \A i \in 1..Len(entries) :
               TransferRun(from, entries)[i] =
                  Moved(TransferRun(from, entries)[i - 1], from, entries[i].to, entries[i].amount)
<1> DEFINE N == Len(entries)
           IsRun(g, n) == g = [i \in 0..n |-> IF i = 0 THEN balance
                                ELSE Moved(g[i - 1], from, entries[i].to, entries[i].amount)]
           Bad == {n \in Nat : ~ \E g : IsRun(g, n)}
<1>1. N \in Nat
  BY DEF Entries
<1>2. Bad = {}
  <2> SUFFICES ASSUME Bad # {} PROVE FALSE
    OBVIOUS
  <2>1. PICK n \in Bad : \A m \in Bad : n <= m
    BY LeastNatural
  <2>2. CASE n = 0
    <3> DEFINE g == [i \in 0..0 |-> balance]
    <3>1. IsRun(g, 0)
      OBVIOUS
    <3> QED BY <2>1, <2>2, <3>1
  <2>3. CASE n # 0
    <3>1. n - 1 \in Nat /\ n - 1 \notin Bad
      BY <2>1, <2>3
    <3>2. PICK h : IsRun(h, n - 1)
      BY <3>1
    <3> DEFINE g == [i \in 0..n |-> IF i < n THEN h[i]
                        ELSE Moved(h[n - 1], from, entries[n].to, entries[n].amount)]
    <3>3. ASSUME NEW i \in 0..n
          PROVE  g[i] = IF i = 0 THEN balance
                        ELSE Moved(g[i - 1], from, entries[i].to, entries[i].amount)
      <4>1. CASE i = n
        BY <2>3, <3>1, <4>1
      <4>2. CASE i # n
        <5>1. i \in 0..(n - 1) /\ (i # 0 => i - 1 \in 0..(n - 1))
          BY <3>1, <4>2
        <5>2. h[i] = IF i = 0 THEN balance
                     ELSE Moved(h[i - 1], from, entries[i].to, entries[i].amount)
          BY <3>2, <5>1
        <5>3. g[i] = h[i] /\ (i # 0 => g[i - 1] = h[i - 1])
          BY <5>1, <3>1
        <5> QED BY <5>2, <5>3
      <4> QED BY <4>1, <4>2
    <3>4. g = [i \in 0..n |-> g[i]]
      OBVIOUS
    <3>5. IsRun(g, n)
      <4> HIDE DEF g
      <4> QED BY <3>3, <3>4
    <3> QED BY <2>1, <3>5
  <2> QED BY <2>2, <2>3
<1>3. \E g : IsRun(g, N)
  BY <1>1, <1>2
<1>4. TransferRun(from, entries) = CHOOSE g : IsRun(g, N)
  BY DEF TransferRun
<1>5. IsRun(TransferRun(from, entries), N)
  BY <1>3, <1>4
<1> QED
  BY <1>1, <1>5

\* A batch whose every entry passes its checks ends in balances with the
\* same sum, and touches only addresses the compliance contract admits.
LEMMA TransferBatchConserves ==
  ASSUME NEW from \in Address, NEW entries \in Entries, balance \in Balances,
         NEW admitted, from \in admitted,
         \A i \in 1..Len(entries) :
            /\ CheckAmount(entries[i].amount)
            /\ entries[i].to \in admitted
            /\ CanMove(TransferRun(from, entries)[i - 1], from, entries[i].to, entries[i].amount)
  PROVE  LET final == TransferRun(from, entries)[Len(entries)]
         IN  /\ final \in Balances
             /\ Total(final) = Total(balance)
             /\ \A a \in Address : final[a] # balance[a] => a \in admitted
             /\ \A a \in Address \ {from} : final[a] >= balance[a]
<1> DEFINE run == TransferRun(from, entries)
           Good(bal) == /\ bal \in Balances
                        /\ Total(bal) = Total(balance)
                        /\ \A a \in Address : bal[a] # balance[a] => a \in admitted
                        /\ \A a \in Address \ {from} : bal[a] >= balance[a]
           Bad == {i \in 0..Len(entries) : ~Good(run[i])}
<1>1. Len(entries) \in Nat
  BY EntryFields
<1>2. run[0] = balance /\ \A i \in 1..Len(entries) :
         run[i] = Moved(run[i - 1], from, entries[i].to, entries[i].amount)
  BY TransferRunSteps
<1> HIDE DEF run
<1>3. Bad = {}
  <2> SUFFICES ASSUME Bad # {} PROVE FALSE
    OBVIOUS
  <2>1. Bad \subseteq Nat
    BY <1>1
  <2>2. PICK i \in Bad : \A j \in Bad : i <= j
    BY <2>1, LeastNatural
  <2>3. Good(run[0])
    BY <1>2, ConstantsAssumption DEF Balances
  <2>4. i \in 1..Len(entries) /\ i - 1 \in 0..Len(entries) /\ i - 1 \notin Bad
    BY <1>1, <2>2, <2>3
  <2>5. Good(run[i - 1])
    BY <2>4
  <2>6. entries[i].to \in Address /\ entries[i].amount \in Int
    BY <2>4, EntryFields
  <2>7. /\ CheckAmount(entries[i].amount)
        /\ entries[i].to \in admitted
        /\ CanMove(run[i - 1], from, entries[i].to, entries[i].amount)
    BY <2>4 DEF run
  <2>8. /\ run[i] \in Balances
        /\ Total(run[i]) = Total(run[i - 1])
        /\ \A a \in Address \ {from, entries[i].to} : run[i][a] = run[i - 1][a]
        /\ \A a \in Address \ {from} : run[i][a] >= run[i - 1][a]
    BY <1>2, <2>4, <2>5, <2>6, <2>7, MoveConserves
  <2>9. \A a \in Address \ {from} : run[i][a] >= balance[a]
    <3>1. \A bal \in Balances : \A a \in Address : bal[a] \in Int
      BY ConstantsAssumption DEF Balances
    <3> QED
      BY <2>5, <2>8, <3>1
  <2>10. Good(run[i])
    BY <2>5, <2>7, <2>8, <2>9
  <2> QED
    BY <2>2, <2>10
<1>4. Good(run[Len(entries)])
  BY <1>1, <1>3
<1> QED
  BY <1>4 DEF run

LEMMA MintRunSteps ==
  ASSUME NEW entries \in Entries
  PROVE  /\ MintRun(entries)[0] = [supply |-> total_supply, bal |-> balance]
         /\ \A i \in 1..Len(entries) :
               LET before == MintRun(entries)[i - 1]
                   e == entries[i]
               IN  MintRun(entries)[i] =
                      [supply |-> before.supply + e.amount,
                       bal |-> [before.bal EXCEPT ![e.to] = @ + e.amount]]
<1> DEFINE N == Len(entries)
           Step(r, e) == [supply |-> r.supply + e.amount,
                          bal |-> [r.bal EXCEPT ![e.to] = @ + e.amount]]
           Start == [supply |-> total_supply, bal |-> balance]
           IsRun(g, n) == g = [i \in 0..n |-> IF i = 0 THEN Start
                                              ELSE Step(g[i - 1], entries[i])]
           Bad == {n \in Nat : ~ \E g : IsRun(g, n)}
<1>1. N \in Nat
  BY DEF Entries
<1>2. \A g, n : IsRun(g, n) <=>
         g = [i \in 0..n |-> IF i = 0 THEN Start ELSE Step(g[i - 1], entries[i])]
  OBVIOUS
<1>3. MintRun(entries) = CHOOSE g : IsRun(g, N)
  BY DEF MintRun
<1> HIDE DEF Step, Start
<1>4. Bad = {}
  <2> SUFFICES ASSUME Bad # {} PROVE FALSE
    OBVIOUS
  <2>1. PICK n \in Bad : \A m \in Bad : n <= m
    BY LeastNatural
  <2>2. CASE n = 0
    <3> DEFINE g == [i \in 0..0 |-> Start]
    <3>1. IsRun(g, 0)
      OBVIOUS
    <3> QED BY <2>1, <2>2, <3>1
  <2>3. CASE n # 0
    <3>1. n - 1 \in Nat /\ n - 1 \notin Bad
      BY <2>1, <2>3
    <3>2. PICK h : IsRun(h, n - 1)
      BY <3>1
    <3> DEFINE g == [i \in 0..n |-> IF i < n THEN h[i] ELSE Step(h[n - 1], entries[n])]
    <3>3. ASSUME NEW i \in 0..n
          PROVE  g[i] = IF i = 0 THEN Start ELSE Step(g[i - 1], entries[i])
      <4>1. CASE i = n
        BY <2>3, <3>1, <4>1
      <4>2. CASE i # n
        <5>1. i \in 0..(n - 1) /\ (i # 0 => i - 1 \in 0..(n - 1))
          BY <3>1, <4>2
        <5>2. h[i] = IF i = 0 THEN Start ELSE Step(h[i - 1], entries[i])
          BY <3>2, <5>1
        <5>3. g[i] = h[i] /\ (i # 0 => g[i - 1] = h[i - 1])
          BY <5>1, <3>1
        <5> QED BY <5>2, <5>3
      <4> QED BY <4>1, <4>2
    <3>4. g = [i \in 0..n |-> g[i]]
      OBVIOUS
    <3>5. IsRun(g, n)
      <4> HIDE DEF g
      <4> QED BY <3>3, <3>4
    <3> QED BY <2>1, <3>5
  <2> QED BY <2>2, <2>3
<1>5. \E g : IsRun(g, N)
  BY <1>1, <1>4
<1>6. IsRun(MintRun(entries), N)
  BY <1>3, <1>5
<1>7. /\ MintRun(entries)[0] = Start
      /\ \A i \in 1..N : MintRun(entries)[i] = Step(MintRun(entries)[i - 1], entries[i])
  BY <1>1, <1>6
<1> QED
  BY <1>7 DEF Step, Start

\* A mint batch raises the supply and the sum of the balances alike.
LEMMA MintBatchConserves ==
  ASSUME NEW entries \in Entries, balance \in Balances,
         total_supply \in 0..I128Max, SupplyConservation, NEW admitted,
         \A i \in 1..Len(entries) :
            /\ CheckAmount(entries[i].amount)
            /\ entries[i].to \in admitted
            /\ CanMint(MintRun(entries)[i - 1].supply, MintRun(entries)[i - 1].bal,
                       entries[i].to, entries[i].amount)
  PROVE  LET final == MintRun(entries)[Len(entries)]
         IN  /\ final.bal \in Balances
             /\ final.supply \in 0..I128Max
             /\ final.supply = Total(final.bal)
             /\ \A a \in Address : final.bal[a] # balance[a] => a \in admitted
             /\ \A a \in Address : final.bal[a] >= balance[a]
<1> DEFINE run == MintRun(entries)
           Good(r) == /\ r.bal \in Balances
                      /\ r.supply \in 0..I128Max
                      /\ r.supply = Total(r.bal)
                      /\ \A a \in Address : r.bal[a] # balance[a] => a \in admitted
                      /\ \A a \in Address : r.bal[a] >= balance[a]
           Bad == {i \in 0..Len(entries) : ~Good(run[i])}
<1>1. Len(entries) \in Nat
  BY EntryFields
<1>2. /\ run[0] = [supply |-> total_supply, bal |-> balance]
      /\ \A i \in 1..Len(entries) :
            run[i] = [supply |-> run[i - 1].supply + entries[i].amount,
                      bal |-> [run[i - 1].bal EXCEPT ![entries[i].to] = @ + entries[i].amount]]
  BY MintRunSteps
<1> HIDE DEF run
<1>3. Bad = {}
  <2> SUFFICES ASSUME Bad # {} PROVE FALSE
    OBVIOUS
  <2>1. Bad \subseteq Nat
    BY <1>1
  <2>2. PICK i \in Bad : \A j \in Bad : i <= j
    BY <2>1, LeastNatural
  <2>3. Good(run[0])
    BY <1>2, ConstantsAssumption DEF SupplyConservation, Balances
  <2>4. i \in 1..Len(entries) /\ i - 1 \in 0..Len(entries) /\ i - 1 \notin Bad
    <3>1. i \in 0..Len(entries) /\ i # 0
      BY <2>2, <2>3
    <3>2. i - 1 \notin Bad
      BY <1>1, <2>1, <2>2, <3>1
    <3> QED
      BY <1>1, <3>1, <3>2
  <2>5. Good(run[i - 1])
    BY <2>4
  <2> DEFINE to == entries[i].to
             amount == entries[i].amount
             old == run[i - 1].bal
             sup == run[i - 1].supply
  <2>6. to \in Address /\ amount \in Int
    BY <2>4, EntryFields
  <2>7. /\ amount > 0
        /\ to \in admitted
        /\ sup + amount <= I128Max
        /\ old[to] + amount <= I128Max
    BY <2>4 DEF run, CheckAmount, CanMint
  <2>8. old \in Balances /\ sup \in 0..I128Max /\ sup = Total(old)
    BY <2>5
  <2>9. /\ run[i].supply = sup + amount
        /\ run[i].bal = [old EXCEPT ![to] = old[to] + amount]
    <3>1. run[i] = [supply |-> sup + amount, bal |-> [old EXCEPT ![to] = @ + amount]]
      BY <1>2, <2>4
    <3> HIDE DEF old, sup, to, amount
    <3> QED BY <2>6, <2>8, <3>1 DEF Balances
  <2>10. old[to] + amount \in 0..I128Max /\ sup + amount \in 0..I128Max
    <3> HIDE DEF old, sup, to, amount
    <3>1. old[to] \in 0..I128Max /\ I128Max \in Nat
      BY <2>6, <2>8, ConstantsAssumption DEF Balances
    <3>2. \A x \in 0..I128Max : x + amount <= I128Max => x + amount \in 0..I128Max
      BY <2>6, <2>7, <3>1
    <3> QED BY <2>7, <2>8, <3>1, <3>2
  <2>11. old[to] \in Int
    BY <2>6, <2>8, ConstantsAssumption DEF Balances
  <2>12. /\ run[i].bal \in Balances
         /\ Total(run[i].bal) = Total(old) - old[to] + (old[to] + amount)
    <3> HIDE DEF old, to, amount
    <3> QED BY <2>6, <2>8, <2>9, <2>10, CreditChangesTotal
  <2>13. \A a \in Address \ {to} : run[i].bal[a] = old[a]
    <3> HIDE DEF old, to, amount
    <3> QED BY <2>6, <2>8, <2>9 DEF Balances
  <2>14. \A a \in Address : run[i].bal[a] >= balance[a]
    <3>1. \A bal \in Balances : \A a \in Address : bal[a] \in Int
      BY ConstantsAssumption DEF Balances
    <3>2. run[i].bal[to] >= old[to]
      <4> HIDE DEF old, to, amount
      <4> QED BY <2>6, <2>7, <2>8, <2>9, <2>11 DEF Balances
    <3>3. \A a \in Address : old[a] >= balance[a]
      BY <2>5
    <3>4. \A a \in Address : run[i].bal[a] >= old[a]
      BY <2>8, <2>13, <3>1, <3>2
    <3> HIDE DEF old
    <3> QED
      BY <2>8, <2>12, <3>1, <3>3, <3>4
  <2>15. Good(run[i])
    <3>1. \A a \in Address : run[i].bal[a] # balance[a] => a \in admitted
      BY <2>5, <2>7, <2>13
    <3>2. Total(run[i].bal) = sup + amount
      BY <2>6, <2>8, <2>11, <2>12, ConstantsAssumption
    <3> QED
      BY <2>9, <2>10, <2>12, <2>14, <3>1, <3>2
  <2> QED
    BY <2>2, <2>15
<1>4. Good(run[Len(entries)])
  BY <1>1, <1>3
<1> QED
  BY <1>4 DEF run

-----------------------------------------------------------------------------
(* The inductive invariant. *)

\* An action that leaves supply and balances alone need only keep the types.
LEMMA OtherTypesKept ==
  ASSUME Ledgered, UNCHANGED fundVars,
         Initialized => Initialized', Initialized' \/ UNCHANGED <<pending_admin, valuation, paused>>,
         admin' \in Address \union {NoAddress},
         pending_admin' \in Address \union {NoAddress},
         guardian' \in Address \union {NoAddress},
         compliance_contract' \in IF Initialized' THEN ComplianceContract ELSE {NoAddress},
         valuation' \in 0..I128Max,
         paused' \in BOOLEAN,
         allowance' \in [Address \X Address ->
                            [amount : 0..I128Max, expiration_ledger : 0..MaxLedger]],
         ledger' \in 0..MaxLedger,
         allowed' \in [ComplianceContract -> SUBSET Address],
         signer' \in Address \union {NoAddress}
  PROVE  Ledgered'
BY DEF Ledgered, TypeOK, SupplyConservation, NothingBeforeInitialize, fundVars

\* An action that changes supply and balances together keeps the invariant
\* when the new balances are well typed and sum to the new supply.
LEMMA FundsKept ==
  ASSUME TypeOK, Initialized, UNCHANGED <<roleVars, controlVars, envVars>>,
         signer' \in Address,
         allowance' \in [Address \X Address ->
                            [amount : 0..I128Max, expiration_ledger : 0..MaxLedger]],
         balance' \in Balances, total_supply' \in 0..I128Max,
         total_supply' = Total(balance')
  PROVE  Ledgered'
BY DEF Ledgered, TypeOK, SupplyConservation, Balances, roleVars, controlVars, envVars,
       Initialized, NothingBeforeInitialize

LEMMA InitLedgered == Init => Ledgered
<1> SUFFICES ASSUME Init PROVE Ledgered
  OBVIOUS
<1>1. TypeOK
  <2>1. NoAllowance \in [amount : 0..I128Max, expiration_ledger : 0..MaxLedger]
    BY ConstantsAssumption DEF NoAllowance
  <2>2. 0 \in 0..I128Max /\ 0 \in 0..MaxLedger /\ 1 \in 0..MaxLedger
    BY ConstantsAssumption
  <2> QED
    BY <2>1, <2>2 DEF Init, TypeOK, Initialized
<1>2. SupplyConservation
  BY TotalOfZeros DEF Init, SupplyConservation
<1> QED
  BY <1>1, <1>2 DEF Ledgered, NothingBeforeInitialize, Init

LEMMA TokenStepLedgered ==
  ASSUME Ledgered, NEW caller \in Address, TokenStep(caller)
  PROVE  Ledgered'
<1>0. /\ TypeOK /\ SupplyConservation /\ balance \in Balances /\ total_supply \in 0..I128Max
      /\ I128Max \in Nat
      /\ \A n \in Amount : n \in Int
  BY ConstantsAssumption DEF Ledgered, TypeOK, I128, Balances
<1>1. ASSUME NEW c \in ComplianceContract, NEW s \in GenesisSupply, NEW v \in Valuation,
             Initialize(caller, s, c, v)
      PROVE  Ledgered'
  <2>1. s \in 0..I128Max /\ v \in 0..I128Max
    BY <1>1, ConstantsAssumption DEF Initialize, I128
  <2>2. balance' \in Balances /\ Total(balance') = Total(balance) - balance[caller] + s
    BY <1>0, <1>1, <2>1, CreditChangesTotal DEF Initialize
  <2>3. balance[caller] = 0 /\ Total(balance) = 0
    <3>1. balance[caller] <= Total(balance) /\ balance[caller] \in Nat
      BY <1>0, BalancesAreNatTables, EntryAtMostTotal
    <3>2. Total(balance) = 0
      BY <1>1 DEF Ledgered, SupplyConservation, NothingBeforeInitialize, Initialize
    <3> QED
      BY <3>1, <3>2
  <2>4. total_supply' = Total(balance')
    BY <1>1, <2>1, <2>2, <2>3 DEF Initialize
  <2>5. TypeOK'
    BY <1>0, <1>1, <2>1, <2>2, ConstantsAssumption
    DEF Initialize, TypeOK, RequireAuth, Initialized, envVars, Balances
  <2>6. Initialized'
    BY <1>1, ConstantsAssumption DEF Initialize, Initialized
  <2> QED
    BY <2>4, <2>5, <2>6 DEF Ledgered, SupplyConservation, NothingBeforeInitialize
<1>2. ASSUME NEW to \in Address, NEW n \in Amount, Transfer(caller, to, n)
      PROVE  Ledgered'
  <2>1. n \in Int /\ CheckAmount(n) /\ CanMove(balance, caller, to, n)
    BY <1>0, <1>2 DEF Transfer
  <2>2. balance' \in Balances /\ Total(balance') = Total(balance)
    BY <1>0, <1>2, <2>1, MoveConserves DEF Transfer
  <2> QED
    BY <1>0, <1>2, <2>2, FundsKept DEF Transfer, RequireAuth, TypeOK, SupplyConservation, TokensLive
<1>3. ASSUME NEW to \in Address, NEW n \in Amount, Mint(caller, to, n)
      PROVE  Ledgered'
  <2>1. n \in Int /\ n > 0 /\ total_supply + n <= I128Max /\ balance[to] + n <= I128Max
    BY <1>0, <1>3 DEF Mint, CheckAmount, CanMint
  <2>2. balance[to] \in 0..I128Max
    BY <1>0 DEF Balances
  <2>3. balance[to] + n \in 0..I128Max /\ total_supply + n \in 0..I128Max
    BY <1>0, <2>1, <2>2
  <2>4. balance' = [balance EXCEPT ![to] = balance[to] + n]
    BY <1>3 DEF Mint
  <2>5. /\ balance' \in Balances
        /\ Total(balance') = Total(balance) - balance[to] + (balance[to] + n)
    BY <1>0, <2>3, <2>4, CreditChangesTotal
  <2>6. Total(balance') = total_supply'
    BY <1>0, <1>3, <2>1, <2>2, <2>5 DEF Mint, SupplyConservation
  <2> QED
    BY <1>0, <1>3, <2>3, <2>5, <2>6, FundsKept DEF Mint, RequireAdmin, RequireAuth, TypeOK
<1>4. ASSUME NEW b \in Batch, TransferBatch(caller, b)
      PROVE  Ledgered'
  <2> DEFINE run == TransferRun(caller, b)
             admitted == allowed[compliance_contract]
  <2>1. b \in Entries
    BY ConstantsAssumption DEF Entries
  <2>2. /\ caller \in admitted
        /\ balance' = run[Len(b)]
        /\ \A i \in 1..Len(b) : /\ CheckAmount(b[i].amount)
                                /\ b[i].to \in admitted
                                /\ CanMove(run[i - 1], caller, b[i].to, b[i].amount)
    BY <1>4 DEF TransferBatch, Compliant
  <2>3. balance' \in Balances /\ Total(balance') = Total(balance)
    <3> HIDE DEF admitted
    <3> QED BY <1>0, <2>1, <2>2, TransferBatchConserves
  <2> QED
    BY <1>0, <1>4, <2>3, FundsKept DEF TransferBatch, RequireAuth, TypeOK, SupplyConservation, TokensLive
<1>5. ASSUME NEW b \in Batch, MintBatch(caller, b)
      PROVE  Ledgered'
  <2> DEFINE run == MintRun(b)
             admitted == allowed[compliance_contract]
  <2>1. b \in Entries
    BY ConstantsAssumption DEF Entries
  <2>2. /\ balance' = run[Len(b)].bal
        /\ total_supply' = run[Len(b)].supply
        /\ \A i \in 1..Len(b) : /\ CheckAmount(b[i].amount)
                                /\ b[i].to \in admitted
                                /\ CanMint(run[i - 1].supply, run[i - 1].bal, b[i].to, b[i].amount)
    BY <1>5 DEF MintBatch, Compliant
  <2>3. /\ balance' \in Balances
        /\ total_supply' \in 0..I128Max
        /\ total_supply' = Total(balance')
    <3> HIDE DEF admitted
    <3> QED BY <1>0, <2>1, <2>2, MintBatchConserves
  <2> QED
    BY <1>0, <1>5, <2>3, FundsKept DEF MintBatch, RequireAdmin, RequireAuth, TypeOK
<1>6. ASSUME NEW n \in Amount, Burn(caller, n)
      PROVE  Ledgered'
  <2>1. n \in Int /\ n > 0 /\ balance[caller] >= n /\ balance[caller] \in 0..I128Max
    BY <1>0, <1>6 DEF Burn, CheckAmount, Balances
  <2>2. balance[caller] - n \in 0..I128Max
    BY <1>0, <2>1
  <2>3. balance' = [balance EXCEPT ![caller] = balance[caller] - n]
    BY <1>6 DEF Burn
  <2>4. /\ balance' \in Balances
        /\ Total(balance') = Total(balance) - balance[caller] + (balance[caller] - n)
    BY <1>0, <2>2, <2>3, CreditChangesTotal
  <2>5. balance[caller] <= Total(balance)
    BY <1>0, BalancesAreNatTables, EntryAtMostTotal
  <2>6. total_supply' = Total(balance') /\ total_supply' \in 0..I128Max
    BY <1>0, <1>6, <2>1, <2>4, <2>5 DEF Burn, SupplyConservation
  <2> QED
    BY <1>0, <1>6, <2>4, <2>6, FundsKept DEF Burn, RequireAuth, TypeOK, TokensLive
<1> QED
  BY <1>1, <1>2, <1>3, <1>4, <1>5, <1>6 DEF TokenStep

AllowanceTable == [Address \X Address ->
                      [amount : 0..I128Max, expiration_ledger : 0..MaxLedger]]

LEMMA AllowanceStepLedgered ==
  ASSUME Ledgered, NEW caller \in Address, AllowanceStep(caller)
  PROVE  Ledgered'
<1>0. /\ TypeOK /\ SupplyConservation /\ balance \in Balances /\ total_supply \in 0..I128Max
      /\ I128Max \in Nat
      /\ Amount \subseteq -I128Max..I128Max
      /\ allowance \in AllowanceTable
  BY ConstantsAssumption DEF Ledgered, TypeOK, I128, Balances, AllowanceTable
<1>1. ASSUME NEW p \in ApprovalPair, NEW n \in Amount, NEW e \in 0..MaxLedger,
             p[1] = caller, Approve(caller, p[2], n, e)
      PROVE  Ledgered'
  <2>1. <<caller, p[2]>> \in Address \X Address
    BY <1>1, ConstantsAssumption
  <2>2. n \in 0..I128Max
    BY <1>0, <1>1 DEF Approve, ApprovalBy
  <2>3. allowance' \in AllowanceTable
    BY <1>0, <1>1, <2>1, <2>2 DEF Approve, ApprovalBy, AllowanceTable
  <2> QED
    BY <1>0, <1>1, <2>3, OtherTypesKept
    DEF Approve, ApprovalBy, RequireAuth, TypeOK, AllowanceTable,
        roleVars, controlVars, envVars, Initialized
<1>2. ASSUME NEW from \in Address, NEW to \in Address, NEW n \in Amount,
             TransferFrom(caller, from, to, n)
      PROVE  Ledgered'
  <2> DEFINE pair == <<from, caller>>
             debited == [balance EXCEPT ![from] = balance[from] - n]
  <2>1. /\ n \in Nat
        /\ n <= allowance[pair].amount
        /\ n <= balance[from]
        /\ debited[to] + n <= I128Max
    BY <1>0, <1>2 DEF TransferFrom, CheckAmount, AllowanceCovers
  <2>2. balance[from] \in 0..I128Max /\ balance[from] - n \in 0..I128Max
    BY <1>0, <2>1 DEF Balances
  <2>3. debited \in Balances /\ Total(debited) = Total(balance) - balance[from] + (balance[from] - n)
    BY <1>0, <2>2, CreditChangesTotal
  <2>4. balance' = [debited EXCEPT ![to] = debited[to] + n]
    BY <1>2 DEF TransferFrom
  <2> HIDE DEF debited
  <2>5. debited[to] \in 0..I128Max /\ debited[to] + n \in 0..I128Max
    BY <1>0, <2>1, <2>3 DEF Balances
  <2>6. balance' \in Balances /\ Total(balance') = Total(debited) - debited[to] + (debited[to] + n)
    BY <2>3, <2>4, <2>5, CreditChangesTotal
  <2>7. Total(balance) \in Nat
    BY <1>0, BalancesAreNatTables
  <2>8. Total(balance') = Total(balance)
    BY <2>1, <2>2, <2>3, <2>5, <2>6, <2>7, <1>0
  <2>9. allowance' \in AllowanceTable
    <3>1. allowance[pair] \in [amount : 0..I128Max, expiration_ledger : 0..MaxLedger]
      BY <1>0 DEF AllowanceTable
    <3>2. allowance[pair].amount - n \in 0..I128Max
      BY <1>0, <2>1, <3>1
    <3>3. allowance' = [allowance EXCEPT ![pair] =
                           [allowance[pair] EXCEPT !.amount = allowance[pair].amount - n]]
      BY <1>2 DEF TransferFrom
    <3>4. [allowance[pair] EXCEPT !.amount = allowance[pair].amount - n]
             \in [amount : 0..I128Max, expiration_ledger : 0..MaxLedger]
      BY <3>1, <3>2
    <3> QED
      BY <1>0, <3>3, <3>4 DEF AllowanceTable
  <2> QED
    BY <1>0, <1>2, <2>6, <2>8, <2>9, FundsKept
    DEF TransferFrom, RequireAuth, TypeOK, SupplyConservation, TokensLive, AllowanceTable
<1> QED
  BY <1>1, <1>2 DEF AllowanceStep

LEMMA AdminStepLedgered ==
  ASSUME Ledgered, NEW caller \in Address, AdminStep(caller)
  PROVE  Ledgered'
<1> USE DEF TypeOK, Ledgered, RequireAuth, RequireAdmin, Initialized,
            roleVars, controlVars, fundVars, envVars
<1>1. ASSUME Pause(caller) PROVE Ledgered'
  BY <1>1, OtherTypesKept DEF Pause
<1>2. ASSUME Unpause(caller) PROVE Ledgered'
  BY <1>2, OtherTypesKept DEF Unpause
<1>3. ASSUME NEW g \in Guardian \union {NoAddress}, SetGuardian(caller, g) PROVE Ledgered'
  BY <1>3, OtherTypesKept, ConstantsAssumption DEF SetGuardian
<1>4. ASSUME NEW v \in Valuation, UpdateValuation(caller, v) PROVE Ledgered'
  <2>1. v \in 0..I128Max
    BY <1>4, ConstantsAssumption DEF UpdateValuation, I128
  <2> QED
    BY <1>4, <2>1, OtherTypesKept DEF UpdateValuation
<1>5. ASSUME NEW c \in ComplianceContract, SetCompliance(caller, c) PROVE Ledgered'
  BY <1>5, OtherTypesKept DEF SetCompliance
<1>6. ASSUME NEW a \in Nominee, ProposeAdmin(caller, a) PROVE Ledgered'
  BY <1>6, OtherTypesKept, ConstantsAssumption DEF ProposeAdmin
<1>7. ASSUME CancelAdminProposal(caller) PROVE Ledgered'
  BY <1>7, OtherTypesKept DEF CancelAdminProposal
<1>8. ASSUME AcceptAdmin(caller) PROVE Ledgered'
  BY <1>8, OtherTypesKept, ConstantsAssumption DEF AcceptAdmin
<1> QED
  BY <1>1, <1>2, <1>3, <1>4, <1>5, <1>6, <1>7, <1>8 DEF AdminStep

LEMMA EnvironmentStepLedgered ==
  ASSUME Ledgered, EnvironmentStep
  PROVE  Ledgered'
<1> USE DEF TypeOK, Ledgered, Initialized, roleVars, controlVars, fundVars, envVars
<1>1. ASSUME CloseLedger PROVE Ledgered'
  <2>1. ledger + 1 \in 0..MaxLedger
    BY <1>1, ConstantsAssumption DEF CloseLedger
  <2> QED
    BY <1>1, <2>1, OtherTypesKept DEF CloseLedger, VerdictsChange
<1>2. ASSUME ComplianceCall PROVE Ledgered'
  BY <1>2, OtherTypesKept DEF ComplianceCall, VerdictsChange
<1>3. ASSUME NEW p \in ApprovalPair, DropAllowance(p) PROVE Ledgered'
  <2>1. NoAllowance \in [amount : 0..I128Max, expiration_ledger : 0..MaxLedger]
    BY ConstantsAssumption DEF NoAllowance
  <2>2. allowance' \in [Address \X Address ->
                            [amount : 0..I128Max, expiration_ledger : 0..MaxLedger]]
    BY <1>3, <2>1 DEF DropAllowance
  <2> QED
    BY <1>3, <2>2, OtherTypesKept DEF DropAllowance
<1> QED
  BY <1>1, <1>2, <1>3 DEF EnvironmentStep

LEMMA NextLedgered == Ledgered /\ [Next]_vars => Ledgered'
<1> SUFFICES ASSUME Ledgered, [Next]_vars PROVE Ledgered'
  OBVIOUS
<1>1. ASSUME NEW a \in Address, TokenStep(a) \/ AllowanceStep(a) \/ AdminStep(a)
      PROVE  Ledgered'
  BY <1>1, TokenStepLedgered, AllowanceStepLedgered, AdminStepLedgered
<1>2. CASE EnvironmentStep
  BY <1>2, EnvironmentStepLedgered
<1>3. CASE UNCHANGED vars
  BY <1>3 DEF vars, Ledgered, TypeOK, SupplyConservation, NothingBeforeInitialize, Initialized,
              roleVars, controlVars, fundVars, envVars
<1> QED
  BY <1>1, <1>2, <1>3 DEF Next

LEMMA AlwaysLedgered == Spec => []Ledgered
BY InitLedgered, NextLedgered, PTL DEF Spec

-----------------------------------------------------------------------------
(* Theorems. *)

\* In every reachable state the metadata, balances and allowances are within
\* their types: no sequence of calls drives an amount negative or past i128.
THEOREM TypeCorrectness == Spec => []TypeOK
<1>1. Ledgered => TypeOK
  BY DEF Ledgered
<1> QED
  BY <1>1, AlwaysLedgered, PTL

\* The recorded supply is the sum of the balances in every reachable state,
\* for any number of holders and batches of any length.
THEOREM SupplyIsConserved == Spec => []SupplyConservation
<1>1. Ledgered => SupplyConservation
  BY DEF Ledgered
<1> QED
  BY <1>1, AlwaysLedgered, PTL

\* The overflow checks on the credit side of a transfer can never fire.
THEOREM TransfersNeverOverflow == Spec => []TransferNeverOverflows
<1>1. Ledgered => TransferNeverOverflows
  <2> SUFFICES ASSUME Ledgered, NEW from \in Address, NEW to \in Address, from # to
               PROVE  balance[from] + balance[to] <= I128Max
    BY DEF TransferNeverOverflows
  <2>1. balance \in Balances /\ total_supply <= I128Max /\ total_supply = Total(balance)
    BY ConstantsAssumption DEF Ledgered, TypeOK, SupplyConservation, Balances
  <2>2. balance \in [Address -> Nat] /\ IsFiniteSet(Address) /\ Total(balance) \in Nat
    BY <2>1, BalancesAreNatTables
  <2>3. balance[from] + balance[to] <= Total(balance)
    BY <2>2, PairAtMostTotal
  <2>4. balance[from] \in Nat /\ balance[to] \in Nat /\ I128Max \in Nat
    BY <2>2, ConstantsAssumption
  <2> QED
    BY <2>1, <2>2, <2>3, <2>4
<1> QED
  BY <1>1, AlwaysLedgered, PTL

\* The gate as an action: what one step may do to balances.
GatedStep == \A a \in Address :
                balance'[a] # balance[a] => a \in allowed[compliance_contract']

LEMMA TokenStepGated ==
  ASSUME Ledgered, NEW caller \in Address, TokenStep(caller)
  PROVE  GatedStep
<1>0. balance \in Balances /\ SupplyConservation /\ total_supply \in 0..I128Max
      /\ \A n \in Amount : n \in Int
  BY ConstantsAssumption DEF Ledgered, TypeOK, Balances, I128
<1>1. ASSUME NEW c \in ComplianceContract, NEW s \in GenesisSupply, NEW v \in Valuation,
             Initialize(caller, s, c, v)
      PROVE  GatedStep
  BY <1>0, <1>1 DEF Initialize, GatedStep, Compliant, Balances
<1>2. ASSUME NEW to \in Address, NEW n \in Amount, Transfer(caller, to, n)
      PROVE  GatedStep
  <2>1. \A a \in Address \ {caller, to} : balance'[a] = balance[a]
    BY <1>0, <1>2, MoveConserves DEF Transfer
  <2> QED
    BY <1>2, <2>1 DEF Transfer, GatedStep, Compliant, controlVars
<1>3. ASSUME NEW to \in Address, NEW n \in Amount, Mint(caller, to, n)
      PROVE  GatedStep
  BY <1>0, <1>3 DEF Mint, GatedStep, Compliant, controlVars, Balances
<1>4. ASSUME NEW b \in Batch, TransferBatch(caller, b)
      PROVE  GatedStep
  <2> DEFINE run == TransferRun(caller, b)
             admitted == allowed[compliance_contract]
  <2>1. b \in Entries
    BY ConstantsAssumption DEF Entries
  <2>2. /\ caller \in admitted
        /\ balance' = run[Len(b)]
        /\ compliance_contract' = compliance_contract
        /\ \A i \in 1..Len(b) : /\ CheckAmount(b[i].amount)
                                /\ b[i].to \in admitted
                                /\ CanMove(run[i - 1], caller, b[i].to, b[i].amount)
    BY <1>4 DEF TransferBatch, Compliant, controlVars
  <2>3. \A a \in Address : balance'[a] # balance[a] => a \in admitted
    <3> HIDE DEF admitted
    <3> QED BY <1>0, <2>1, <2>2, TransferBatchConserves
  <2> QED
    BY <2>2, <2>3 DEF GatedStep
<1>5. ASSUME NEW b \in Batch, MintBatch(caller, b)
      PROVE  GatedStep
  <2> DEFINE run == MintRun(b)
             admitted == allowed[compliance_contract]
  <2>1. b \in Entries
    BY ConstantsAssumption DEF Entries
  <2>2. /\ balance' = run[Len(b)].bal
        /\ compliance_contract' = compliance_contract
        /\ \A i \in 1..Len(b) : /\ CheckAmount(b[i].amount)
                                /\ b[i].to \in admitted
                                /\ CanMint(run[i - 1].supply, run[i - 1].bal, b[i].to, b[i].amount)
    BY <1>5 DEF MintBatch, Compliant, controlVars
  <2>3. \A a \in Address : balance'[a] # balance[a] => a \in admitted
    <3> HIDE DEF admitted
    <3> QED BY <1>0, <2>1, <2>2, MintBatchConserves
  <2> QED
    BY <2>2, <2>3 DEF GatedStep
<1>6. ASSUME NEW n \in Amount, Burn(caller, n)
      PROVE  GatedStep
  BY <1>0, <1>6 DEF Burn, GatedStep, Compliant, controlVars, Balances
<1> QED
  BY <1>1, <1>2, <1>3, <1>4, <1>5, <1>6 DEF TokenStep

LEMMA NextGated == Ledgered /\ [Next]_vars => [GatedStep]_vars
<1> SUFFICES ASSUME Ledgered, Next PROVE GatedStep
  OBVIOUS
<1>1. ASSUME NEW a \in Address, TokenStep(a) PROVE GatedStep
  BY <1>1, TokenStepGated
<1>2. ASSUME NEW caller \in Address, AllowanceStep(caller) PROVE GatedStep
  <2>1. ASSUME NEW p \in ApprovalPair, NEW n \in Amount, NEW e \in 0..MaxLedger,
               Approve(caller, p[2], n, e)
        PROVE  GatedStep
    BY <2>1 DEF Approve, ApprovalBy, GatedStep, fundVars
  <2>2. ASSUME NEW from \in Address, NEW to \in Address, NEW n \in Amount,
               TransferFrom(caller, from, to, n)
        PROVE  GatedStep
    BY <2>2 DEF TransferFrom, GatedStep, Compliant, controlVars, Ledgered, TypeOK
  <2> QED
    BY <1>2, <2>1, <2>2 DEF AllowanceStep
<1>3. ASSUME NEW caller \in Address, AdminStep(caller) PROVE GatedStep
  BY <1>3 DEF AdminStep, Pause, Unpause, SetGuardian, UpdateValuation, SetCompliance,
              ProposeAdmin, CancelAdminProposal, AcceptAdmin, fundVars, GatedStep
<1>4. ASSUME EnvironmentStep PROVE GatedStep
  BY <1>4 DEF EnvironmentStep, CloseLedger, ComplianceCall, VerdictsChange, DropAllowance, fundVars, GatedStep
<1> QED
  BY <1>1, <1>2, <1>3, <1>4 DEF Next

\* Every path to a balance is gated by the compliance contract in force, for
\* both parties of a transfer and every party named in a batch.
THEOREM BalancesMoveOnlyUnderCompliance == Spec => OnlyCompliantBalancesMove
BY AlwaysLedgered, NextGated, PTL DEF Spec, OnlyCompliantBalancesMove, GatedStep

\* The contract implements the abstract two-step handover of the admin role.
THEOREM ImplementsAdminHandover == Spec => AdminRoleHandover
<1>1. Init => Handover!Init
  BY DEF Init, Handover!Init
<1>2. Ledgered /\ [Next]_vars => [Handover!Next]_<<admin, pending_admin, signer>>
  <2> SUFFICES ASSUME Ledgered, [Next]_vars
               PROVE  [Handover!Next]_<<admin, pending_admin, signer>>
    OBVIOUS
  <2> USE DEF roleVars, RequireAuth, RequireAdmin, Initialized, Handover!Next, Handover!Other
  <2>1. ASSUME NEW caller \in Address, TokenStep(caller) PROVE Handover!Next
    <3>1. ASSUME NEW c \in ComplianceContract, NEW s \in GenesisSupply, NEW v \in Valuation,
                 Initialize(caller, s, c, v)
          PROVE  Handover!Appoint(caller)
      <4>1. pending_admin = NoAddress
        BY <3>1 DEF Initialize, Ledgered, NothingBeforeInitialize
      <4> QED
        BY <3>1, <4>1 DEF Initialize, Handover!Appoint
    <3> QED
      BY <2>1, <3>1 DEF TokenStep, Transfer, TransferBatch, Mint, MintBatch, Burn
  <2>2. ASSUME NEW caller \in Address, AllowanceStep(caller) PROVE Handover!Next
    BY <2>2 DEF AllowanceStep, Approve, ApprovalBy, TransferFrom
  <2>3. ASSUME NEW caller \in Address, AdminStep(caller) PROVE Handover!Next
    <3>1. ASSUME NEW a \in Nominee, ProposeAdmin(caller, a) PROVE Handover!Nominate(a)
      BY <3>1 DEF ProposeAdmin, Handover!Nominate
    <3>2. ASSUME CancelAdminProposal(caller) PROVE Handover!Withdraw
      BY <3>2 DEF CancelAdminProposal, Handover!Withdraw
    <3>3. ASSUME AcceptAdmin(caller) PROVE Handover!TakeOver
      BY <3>3 DEF AcceptAdmin, Handover!TakeOver
    <3> QED
      BY <2>3, <3>1, <3>2, <3>3, ConstantsAssumption
      DEF AdminStep, Pause, Unpause, SetGuardian, UpdateValuation, SetCompliance
  <2>4. ASSUME EnvironmentStep PROVE Handover!Next
    BY <2>4 DEF EnvironmentStep, CloseLedger, ComplianceCall, VerdictsChange, DropAllowance
  <2>5. CASE UNCHANGED vars
    BY <2>5 DEF vars
  <2> QED
    BY <2>1, <2>2, <2>3, <2>4, <2>5 DEF Next
<1> QED
  BY <1>1, <1>2, AlwaysLedgered, PTL DEF Spec, AdminRoleHandover, Handover!Spec
-----------------------------------------------------------------------------
(* Whose spending power a step can raise. *)

\* No spender can take more after the step than before.
PowerKept == \A a, s \in Address : AllowanceOf(a, s)' <= AllowanceOf(a, s)

\* Only what the signer's own holdings allow others may have grown, and the
\* token is not paused.
PowerGranted == /\ paused = FALSE
                /\ \A a, s \in Address :
                      a # signer' => AllowanceOf(a, s)' <= AllowanceOf(a, s)

LEMMA AllowanceFields ==
  ASSUME TypeOK
  PROVE  \A a, s \in Address : /\ allowance[<<a, s>>].amount \in Nat
                               /\ allowance[<<a, s>>].expiration_ledger \in Nat
<1>1. I128Max \in Nat /\ MaxLedger \in Nat
  BY ConstantsAssumption
<1>2. ASSUME NEW a \in Address, NEW s \in Address
      PROVE  allowance[<<a, s>>] \in [amount : 0..I128Max, expiration_ledger : 0..MaxLedger]
  BY DEF TypeOK
<1>3. \A v \in [amount : 0..I128Max, expiration_ledger : 0..MaxLedger] :
         v.amount \in Nat /\ v.expiration_ledger \in Nat
  BY <1>1
<1> QED
  BY <1>2, <1>3

\* An entry that is left alone, or lowered, allows no more once the ledger
\* has stayed or advanced.
LEMMA PowerKeptByEntry ==
  ASSUME TypeOK, NEW a \in Address, NEW s \in Address, ledger' \in Int, ledger' >= ledger,
         \/ allowance'[<<a, s>>] = allowance[<<a, s>>]
         \/ /\ allowance'[<<a, s>>].expiration_ledger = allowance[<<a, s>>].expiration_ledger
            /\ allowance'[<<a, s>>].amount \in Nat
            /\ allowance'[<<a, s>>].amount <= allowance[<<a, s>>].amount
         \/ allowance'[<<a, s>>].amount = 0
  PROVE  AllowanceOf(a, s)' <= AllowanceOf(a, s)
<1>1. /\ allowance[<<a, s>>].amount \in Nat
      /\ allowance[<<a, s>>].expiration_ledger \in Nat
      /\ ledger \in Int
  BY AllowanceFields, ConstantsAssumption DEF TypeOK
<1> QED
  BY <1>1 DEF AllowanceOf

LEMMA StepPower ==
  ASSUME Ledgered, Next
  PROVE  PowerKept \/ PowerGranted
<1>0. TypeOK /\ ledger \in Int /\ ledger >= ledger
  BY ConstantsAssumption DEF Ledgered, TypeOK
<1>1. ASSUME UNCHANGED <<allowance, ledger>> PROVE PowerKept
  BY <1>0, <1>1, PowerKeptByEntry DEF PowerKept
<1>2. ASSUME NEW caller \in Address, TokenStep(caller) PROVE PowerKept
  BY <1>1, <1>2 DEF TokenStep, Initialize, Transfer, TransferBatch, Mint, MintBatch, Burn, envVars
<1>3. ASSUME NEW caller \in Address, AdminStep(caller) PROVE PowerKept
  BY <1>1, <1>3 DEF AdminStep, Pause, Unpause, SetGuardian, UpdateValuation, SetCompliance,
              ProposeAdmin, CancelAdminProposal, AcceptAdmin, envVars
<1>4. ASSUME NEW caller \in Address, NEW p \in ApprovalPair, NEW n \in Amount,
             NEW e \in 0..MaxLedger, p[1] = caller, Approve(caller, p[2], n, e)
      PROVE  PowerGranted
  <2>1. ASSUME NEW a \in Address, NEW s \in Address, a # signer'
        PROVE  AllowanceOf(a, s)' <= AllowanceOf(a, s)
    <3>1. a # caller /\ UNCHANGED ledger
      BY <1>4, <2>1 DEF Approve, ApprovalBy, RequireAuth, envVars
    <3>2. allowance'[<<a, s>>] = allowance[<<a, s>>]
      BY <1>0, <1>4, <3>1 DEF Approve, ApprovalBy, TypeOK
    <3> QED
      BY <1>0, <3>1, <3>2, PowerKeptByEntry
  <2>2. paused = FALSE
    BY <1>0, <1>4 DEF Approve, ApprovalBy, TokensLive, TypeOK
  <2> QED
    BY <2>1, <2>2 DEF PowerGranted
<1>5. ASSUME NEW caller \in Address, NEW from \in Address, NEW to \in Address,
             NEW n \in Amount, TransferFrom(caller, from, to, n)
      PROVE  PowerKept
  <2>1. ASSUME NEW a \in Address, NEW s \in Address
        PROVE  AllowanceOf(a, s)' <= AllowanceOf(a, s)
    <3>1. UNCHANGED ledger
      BY <1>5 DEF TransferFrom, envVars
    <3>2. CASE <<a, s>> = <<from, caller>>
      <4>1. n \in Int /\ n > 0 /\ n <= allowance[<<a, s>>].amount
        BY <1>5, <3>2, ConstantsAssumption DEF TransferFrom, CheckAmount, AllowanceCovers, I128
      <4>2. allowance[<<a, s>>].amount \in Nat
        BY <1>0, AllowanceFields
      <4>3. allowance[<<a, s>>] \in [amount : 0..I128Max, expiration_ledger : 0..MaxLedger]
        BY <1>0 DEF TypeOK
      <4>4. allowance'[<<a, s>>] =
               [allowance[<<a, s>>] EXCEPT !.amount = allowance[<<a, s>>].amount - n]
        BY <1>0, <1>5, <3>2 DEF TransferFrom, TypeOK
      <4>5. /\ allowance'[<<a, s>>].expiration_ledger = allowance[<<a, s>>].expiration_ledger
            /\ allowance'[<<a, s>>].amount = allowance[<<a, s>>].amount - n
        BY <4>3, <4>4
      <4>6. allowance'[<<a, s>>].amount \in Nat
        BY <4>1, <4>2, <4>5
      <4>7. allowance'[<<a, s>>].amount <= allowance[<<a, s>>].amount
        BY <4>1, <4>2, <4>5
      <4> QED
        BY <1>0, <3>1, <4>5, <4>6, <4>7, PowerKeptByEntry
    <3>3. CASE <<a, s>> # <<from, caller>>
      <4>1. allowance'[<<a, s>>] = allowance[<<a, s>>]
        BY <1>0, <1>5, <3>3 DEF TransferFrom, TypeOK
      <4> QED
        BY <1>0, <3>1, <4>1, PowerKeptByEntry
    <3> QED
      BY <3>2, <3>3
  <2> QED
    BY <2>1 DEF PowerKept
<1>6. ASSUME EnvironmentStep PROVE PowerKept
  <2>1. ASSUME CloseLedger PROVE PowerKept
    <3>1. ledger' \in Int /\ ledger' >= ledger /\ UNCHANGED allowance
      BY <1>0, <2>1 DEF CloseLedger, VerdictsChange
    <3> QED
      BY <1>0, <3>1, PowerKeptByEntry DEF PowerKept
  <2>2. ASSUME ComplianceCall PROVE PowerKept
    BY <1>1, <2>2 DEF ComplianceCall, VerdictsChange
  <2>3. ASSUME NEW p \in ApprovalPair, DropAllowance(p) PROVE PowerKept
    <3>1. UNCHANGED ledger
      BY <2>3 DEF DropAllowance, envVars
    <3>2. \A a, s \in Address : \/ allowance'[<<a, s>>] = allowance[<<a, s>>]
                                \/ allowance'[<<a, s>>].amount = 0
      BY <1>0, <2>3 DEF DropAllowance, TypeOK, NoAllowance
    <3> QED
      BY <1>0, <3>1, <3>2, PowerKeptByEntry DEF PowerKept
  <2> QED
    BY <1>6, <2>1, <2>2, <2>3 DEF EnvironmentStep
<1> QED
  BY <1>2, <1>3, <1>4, <1>5, <1>6 DEF Next, AllowanceStep

GrantStep == \A a, s \in Address :
                AllowanceOf(a, s)' > AllowanceOf(a, s) => signer' = a

LEMMA NextGrants == Ledgered /\ [Next]_vars => [GrantStep]_vars
<1> SUFFICES ASSUME Ledgered, Next PROVE GrantStep
  OBVIOUS
<1>1. ASSUME NEW a \in Address, NEW s \in Address PROVE AllowanceOf(a, s) \in Int
  <2>1. allowance[<<a, s>>].amount \in Nat
    BY AllowanceFields DEF Ledgered
  <2> QED
    BY <2>1 DEF AllowanceOf
<1>2. ASSUME NEW a \in Address, NEW s \in Address PROVE AllowanceOf(a, s)' \in Int
  <2>1. TypeOK'
    BY NextLedgered DEF Ledgered
  <2>2. allowance'[<<a, s>>] \in [amount : 0..I128Max, expiration_ledger : 0..MaxLedger]
    BY <2>1 DEF TypeOK
  <2>3. allowance'[<<a, s>>].amount \in Nat
    BY <2>2, ConstantsAssumption
  <2> QED
    BY <2>3 DEF AllowanceOf
<1>3. \A x, y \in Int : x <= y => ~(x > y)
  OBVIOUS
<1> QED
  BY <1>1, <1>2, <1>3, StepPower DEF PowerKept, PowerGranted, GrantStep

\* No step but one its owner signs raises what a spender may take.
THEOREM AllowancesGrowOnlyByOwner == Spec => AllowanceGrowsOnlyByOwner
BY AlwaysLedgered, NextGrants, PTL DEF Spec, AllowanceGrowsOnlyByOwner, GrantStep

-----------------------------------------------------------------------------
(* The pause. *)

FrozenStep == paused => /\ UNCHANGED fundVars
                        /\ \A a, s \in Address : AllowanceOf(a, s)' <= AllowanceOf(a, s)

LEMMA NextFrozen == Ledgered /\ [Next]_vars => [FrozenStep]_vars
<1> SUFFICES ASSUME Ledgered, Next, paused PROVE FrozenStep
  BY DEF FrozenStep
<1>1. ASSUME NEW a \in Address, TokenStep(a) PROVE FALSE
  BY <1>1 DEF TokenStep, Initialize, Transfer, TransferBatch, Mint, MintBatch, Burn,
              TokensLive, Ledgered, NothingBeforeInitialize
<1>2. ASSUME NEW a \in Address, AllowanceStep(a) PROVE FALSE
  BY <1>2 DEF AllowanceStep, Approve, ApprovalBy, TransferFrom, TokensLive
<1>3. ASSUME NEW a \in Address, AdminStep(a) PROVE UNCHANGED fundVars
  BY <1>3 DEF AdminStep, Pause, Unpause, SetGuardian, UpdateValuation, SetCompliance,
              ProposeAdmin, CancelAdminProposal, AcceptAdmin
<1>4. ASSUME EnvironmentStep PROVE UNCHANGED fundVars
  BY <1>4 DEF EnvironmentStep, CloseLedger, ComplianceCall, VerdictsChange, DropAllowance
<1>5. UNCHANGED fundVars
  BY <1>1, <1>2, <1>3, <1>4 DEF Next
<1>6. PowerKept
  BY StepPower DEF PowerGranted
<1> QED
  BY <1>5, <1>6 DEF FrozenStep, PowerKept

\* While the token is paused no step moves a unit or stages an approval, the
\* first initialization included: it can only run on a token never paused.
THEOREM PauseFreezesTokens == Spec => PausedFreezesTokens
BY AlwaysLedgered, NextFrozen, PTL DEF Spec, PausedFreezesTokens, FrozenStep
-----------------------------------------------------------------------------
(* Who a debit is charged to. *)

ConsentStep ==
    \A a \in Address :
        balance'[a] < balance[a] =>
            LET debit == balance[a] - balance'[a]
            IN  \/ signer' = a
                \/ /\ signer' \in Address
                   /\ AllowanceOf(a, signer') >= debit
                   /\ allowance'[<<a, signer'>>].amount =
                          allowance[<<a, signer'>>].amount - debit

\* Token operations debit nobody but the address that signed them.
OnlySignerDebited == \A a \in Address : a # signer' => balance'[a] >= balance[a]

LEMMA DebitedSignerConsents ==
  ASSUME balance \in Balances, balance' \in Balances, OnlySignerDebited
  PROVE  ConsentStep
<1>1. ASSUME NEW a \in Address PROVE balance[a] \in Int /\ balance'[a] \in Int
  BY ConstantsAssumption DEF Balances
<1>2. \A x, y \in Int : x >= y => ~(x < y)
  OBVIOUS
<1> QED
  BY <1>1, <1>2 DEF OnlySignerDebited, ConsentStep

LEMMA TokenStepDebits ==
  ASSUME Ledgered, NEW caller \in Address, TokenStep(caller)
  PROVE  OnlySignerDebited
<1>0. /\ balance \in Balances /\ SupplyConservation /\ total_supply \in 0..I128Max
      /\ \A n \in Amount : n \in Int
      /\ \A a \in Address : balance[a] \in Int
  BY ConstantsAssumption DEF Ledgered, TypeOK, Balances, I128
<1>1. ASSUME NEW c \in ComplianceContract, NEW s \in GenesisSupply, NEW v \in Valuation,
             Initialize(caller, s, c, v)
      PROVE  OnlySignerDebited
  BY <1>0, <1>1 DEF Initialize, RequireAuth, OnlySignerDebited, Balances
<1>2. ASSUME NEW to \in Address, NEW n \in Amount, Transfer(caller, to, n)
      PROVE  OnlySignerDebited
  <2>1. \A a \in Address \ {caller} : balance'[a] >= balance[a]
    BY <1>0, <1>2, MoveConserves DEF Transfer
  <2> QED
    BY <1>2, <2>1 DEF Transfer, RequireAuth, OnlySignerDebited
<1>3. ASSUME NEW to \in Address, NEW n \in Amount, Mint(caller, to, n)
      PROVE  OnlySignerDebited
  <2>1. n \in Int /\ n > 0 /\ balance' = [balance EXCEPT ![to] = balance[to] + n]
    BY <1>0, <1>3 DEF Mint, CheckAmount
  <2> QED
    BY <1>0, <2>1 DEF OnlySignerDebited, Balances
<1>4. ASSUME NEW b \in Batch, TransferBatch(caller, b)
      PROVE  OnlySignerDebited
  <2> DEFINE run == TransferRun(caller, b)
             admitted == allowed[compliance_contract]
  <2>1. b \in Entries
    BY ConstantsAssumption DEF Entries
  <2>2. /\ caller \in admitted
        /\ balance' = run[Len(b)]
        /\ \A i \in 1..Len(b) : /\ CheckAmount(b[i].amount)
                                /\ b[i].to \in admitted
                                /\ CanMove(run[i - 1], caller, b[i].to, b[i].amount)
    BY <1>4 DEF TransferBatch, Compliant
  <2>3. \A a \in Address \ {caller} : balance'[a] >= balance[a]
    <3> HIDE DEF admitted
    <3> QED BY <1>0, <2>1, <2>2, TransferBatchConserves
  <2> QED
    BY <1>4, <2>3 DEF TransferBatch, RequireAuth, OnlySignerDebited
<1>5. ASSUME NEW b \in Batch, MintBatch(caller, b)
      PROVE  OnlySignerDebited
  <2> DEFINE run == MintRun(b)
             admitted == allowed[compliance_contract]
  <2>1. b \in Entries
    BY ConstantsAssumption DEF Entries
  <2>2. /\ balance' = run[Len(b)].bal
        /\ \A i \in 1..Len(b) : /\ CheckAmount(b[i].amount)
                                /\ b[i].to \in admitted
                                /\ CanMint(run[i - 1].supply, run[i - 1].bal, b[i].to, b[i].amount)
    BY <1>5 DEF MintBatch, Compliant
  <2>3. \A a \in Address : balance'[a] >= balance[a]
    <3> HIDE DEF admitted
    <3> QED BY <1>0, <2>1, <2>2, MintBatchConserves
  <2> QED
    BY <2>3 DEF OnlySignerDebited
<1>6. ASSUME NEW n \in Amount, Burn(caller, n)
      PROVE  OnlySignerDebited
  BY <1>0, <1>6 DEF Burn, RequireAuth, OnlySignerDebited, Balances
<1> QED
  BY <1>1, <1>2, <1>3, <1>4, <1>5, <1>6 DEF TokenStep

\* A spender's transfer debits its source once, by the amount it also takes
\* off the allowance; to itself it debits nobody.
LEMMA SpendingConsented ==
  ASSUME Ledgered, NEW caller \in Address, NEW from \in Address, NEW to \in Address,
         NEW n \in Amount, TransferFrom(caller, from, to, n)
  PROVE  ConsentStep
<1> DEFINE debited == [balance EXCEPT ![from] = balance[from] - n]
<1>0. /\ balance \in Balances /\ TypeOK
      /\ n \in Int /\ n > 0
      /\ \A a \in Address : balance[a] \in Int
  <2>1. balance \in Balances /\ TypeOK
    BY DEF Ledgered, TypeOK, Balances
  <2>2. \A a \in Address : balance[a] \in Int
    BY <2>1, ConstantsAssumption DEF Balances
  <2> QED
    BY <2>1, <2>2, ConstantsAssumption DEF I128, TransferFrom, CheckAmount
<1>1. balance' = [debited EXCEPT ![to] = debited[to] + n] /\ signer' = caller
  BY DEF TransferFrom, RequireAuth
<1>2. ASSUME NEW a \in Address
      PROVE  balance'[a] < balance[a] => a = from /\ balance[a] - balance'[a] = n
  <2>1. DOMAIN balance = Address
    BY <1>0 DEF Balances
  <2>2. /\ debited[a] = IF a = from THEN balance[from] - n ELSE balance[a]
        /\ debited[to] = IF to = from THEN balance[from] - n ELSE balance[to]
        /\ DOMAIN debited = Address
    BY <2>1
  <2> HIDE DEF debited
  <2>3. balance'[a] = IF a = to THEN debited[to] + n ELSE debited[a]
    BY <1>1, <2>2
  <2> QED
    BY <1>0, <2>2, <2>3
<1>3. AllowanceOf(from, caller) >= n
  BY DEF TransferFrom, AllowanceCovers, AllowanceOf
<1>4. allowance'[<<from, caller>>].amount = allowance[<<from, caller>>].amount - n
  <2>1. allowance[<<from, caller>>] \in [amount : 0..I128Max, expiration_ledger : 0..MaxLedger]
    BY <1>0 DEF TypeOK
  <2>2. allowance'[<<from, caller>>] =
           [allowance[<<from, caller>>] EXCEPT !.amount = allowance[<<from, caller>>].amount - n]
    BY <1>0 DEF TransferFrom, TypeOK
  <2> QED
    BY <2>1, <2>2
<1> HIDE DEF debited
<1> QED
  BY <1>1, <1>2, <1>3, <1>4 DEF ConsentStep

LEMMA NextConsented == Ledgered /\ [Next]_vars => [ConsentStep]_vars
<1> SUFFICES ASSUME Ledgered, Next PROVE ConsentStep
  OBVIOUS
<1>0. balance \in Balances /\ balance' \in Balances
  BY NextLedgered DEF Ledgered, TypeOK, Balances
<1>1. ASSUME UNCHANGED fundVars PROVE ConsentStep
  <2>1. \A a \in Address : balance[a] \in Int
    BY <1>0, ConstantsAssumption DEF Balances
  <2>2. OnlySignerDebited
    BY <1>1, <2>1 DEF fundVars, OnlySignerDebited
  <2> QED
    BY <1>0, <2>2, DebitedSignerConsents
<1>2. ASSUME NEW a \in Address, TokenStep(a) PROVE ConsentStep
  BY <1>0, <1>2, TokenStepDebits, DebitedSignerConsents
<1>3. ASSUME NEW caller \in Address, AllowanceStep(caller) PROVE ConsentStep
  BY <1>1, <1>3, SpendingConsented DEF AllowanceStep, Approve, ApprovalBy
<1>4. ASSUME NEW caller \in Address, AdminStep(caller) PROVE ConsentStep
  BY <1>1, <1>4 DEF AdminStep, Pause, Unpause, SetGuardian, UpdateValuation, SetCompliance,
              ProposeAdmin, CancelAdminProposal, AcceptAdmin
<1>5. ASSUME EnvironmentStep PROVE ConsentStep
  BY <1>1, <1>5 DEF EnvironmentStep, CloseLedger, ComplianceCall, VerdictsChange, DropAllowance
<1> QED
  BY <1>2, <1>3, <1>4, <1>5 DEF Next

\* Every debit is signed for by its owner, or paid out of an unexpired
\* allowance of the signer that shrinks by exactly the debit.
THEOREM DebitsAreConsented == Spec => DebitNeedsConsent
BY AlwaysLedgered, NextConsented, PTL DEF Spec, DebitNeedsConsent, ConsentStep

-----------------------------------------------------------------------------
(* The valuation. *)

\* A share of less than the whole, rounded down, is less than the whole.
LEMMA BoundedChangeKeepsPositive ==
  ASSUME NEW old \in Nat, old > 0, NEW new \in Int, ValuationChangeOK(old, new)
  PROVE  new > 0
<1> DEFINE M == MAX_VALUATION_CHANGE_BPS
           D == BPS_DENOMINATOR
           change == (old * M) \div D
<1>1. M \in Nat /\ D \in Nat /\ M < D /\ D > 0
  BY ConstantsAssumption
<1>2. old - new <= change
  BY DEF ValuationChangeOK
<1> HIDE DEF M, D
<1>3. old * M \in Nat /\ old * D \in Nat /\ ~(old * D <= old * M)
  BY <1>1, ProductsNatural, ProductCancels
<1>4. change \in Nat /\ D * change <= old * M /\ D * change \in Nat
  BY <1>1, <1>3, Quotient, ProductsNatural
<1> HIDE DEF change
<1>5. D * old = old * D
  BY <1>1
<1>6. D * change < D * old
  BY <1>3, <1>4, <1>5
<1>7. change < old
  BY <1>1, <1>4, <1>6, ProductCancels
<1> QED
  BY <1>2, <1>4, <1>7

PositiveStep == valuation > 0 => valuation' > 0

LEMMA NextPositive == Ledgered /\ [Next]_vars => [PositiveStep]_vars
<1> SUFFICES ASSUME Ledgered, Next, valuation > 0 PROVE valuation' > 0
  BY DEF PositiveStep
<1>1. ASSUME NEW a \in Address, TokenStep(a) PROVE UNCHANGED valuation
  BY <1>1 DEF TokenStep, Initialize, Transfer, TransferBatch, Mint, MintBatch, Burn,
              Ledgered, NothingBeforeInitialize, controlVars
<1>2. ASSUME NEW a \in Address, AllowanceStep(a) PROVE UNCHANGED valuation
  BY <1>2 DEF AllowanceStep, Approve, ApprovalBy, TransferFrom, controlVars
<1>3. ASSUME NEW a \in Address, NEW v \in Valuation, UpdateValuation(a, v)
      PROVE  valuation' > 0
  BY <1>3, BoundedChangeKeepsPositive, ConstantsAssumption
  DEF UpdateValuation, Ledgered, TypeOK, I128
<1>4. ASSUME NEW a \in Address, AdminStep(a) PROVE valuation' > 0
  BY <1>3, <1>4 DEF AdminStep, Pause, Unpause, SetGuardian, SetCompliance,
              ProposeAdmin, CancelAdminProposal, AcceptAdmin, controlVars
<1>5. ASSUME EnvironmentStep PROVE UNCHANGED valuation
  BY <1>5 DEF EnvironmentStep, CloseLedger, ComplianceCall, VerdictsChange, DropAllowance,
              controlVars
<1> QED
  BY <1>1, <1>2, <1>4, <1>5 DEF Next

\* No sequence of admin updates brings a positive valuation to zero.
THEOREM ValuationStaysPositive == Spec => PositiveValuationStaysPositive
BY AlwaysLedgered, NextPositive, PTL DEF Spec, PositiveValuationStaysPositive, PositiveStep
=============================================================================
