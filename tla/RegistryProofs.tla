--------------------------- MODULE RegistryProofs ---------------------------
(***************************************************************************)
(* Theorems about Registry, and about the client of RegistryReader that    *)
(* walks through its views, for every set of addresses and tokens, every   *)
(* i128 bound and every set of inputs.                                     *)
(***************************************************************************)
EXTENDS RegistryReader, PageWalkProofs

Entry == [token_contract : TokenContract, issuer : Address,
          asset_type : VALID_ASSET_TYPES, valuation : 0..I128Max, active : BOOLEAN]

Locked(f) == [id \in DOMAIN f |-> IF f[id].active THEN f[id].valuation ELSE 0]

ActiveIn(f) == {id \in DOMAIN f : f[id].active}

\* The inductive invariant.  The totals cannot be shown right without the
\* types, nor the type of the total without the totals; and initialize, which
\* sets them to zero, keeps them right only because nothing is on file before.
NothingBeforeInitialize ==
    ~Initialized => counter = 0 /\ pending_admin = NoAddress

Recounted == TypeOK /\ TotalsMatchEntries /\ NothingBeforeInitialize

-----------------------------------------------------------------------------
(* What one entry does to the totals. *)

LEMMA LockedIsTable ==
  ASSUME NEW n \in Nat, NEW f \in [1..n -> Entry]
  PROVE  /\ IsFiniteSet(1..n)
         /\ Locked(f) \in [1..n -> Nat]
         /\ Total(Locked(f)) \in Nat
         /\ IsFiniteSet(ActiveIn(f))
         /\ Cardinality(ActiveIn(f)) \in 0..n
<1>1. IsFiniteSet(1..n) /\ Cardinality(1..n) = n
  BY FS_Interval
<1>2. Locked(f) \in [1..n -> Nat]
  BY ConstantsAssumption DEF Locked, Entry
<1>3. Total(Locked(f)) \in Nat
  BY <1>1, <1>2, UnitsFinite
<1>4. ActiveIn(f) \subseteq 1..n
  BY DEF ActiveIn
<1>5. IsFiniteSet(ActiveIn(f)) /\ Cardinality(ActiveIn(f)) <= n
  BY <1>1, <1>4, FS_Subset
<1> QED
  BY <1>1, <1>2, <1>3, <1>5, FS_CardinalityType

\* A new entry, active as every new entry is.
LEMMA EntryAdded ==
  ASSUME NEW n \in Nat, NEW f \in [1..n -> Entry], NEW g \in [1..(n + 1) -> Entry],
         \A id \in 1..n : g[id] = f[id], g[n + 1].active
  PROVE  /\ Total(Locked(g)) = Total(Locked(f)) + g[n + 1].valuation
         /\ Cardinality(ActiveIn(g)) = Cardinality(ActiveIn(f)) + 1
<1>1. /\ IsFiniteSet(1..n) /\ Locked(f) \in [1..n -> Nat]
      /\ IsFiniteSet(ActiveIn(f))
  BY LockedIsTable
<1>2. IsFiniteSet(1..(n + 1)) /\ Locked(g) \in [1..(n + 1) -> Nat]
  BY LockedIsTable
<1>3. \A id \in 1..n : Locked(g)[id] = Locked(f)[id]
  BY DEF Locked
<1>4. Locked(g)[n + 1] = g[n + 1].valuation
  BY DEF Locked
<1>5. Total(Locked(g)) = Total(Locked(f)) + Locked(g)[n + 1]
  <2> DEFINE new == 1..(n + 1)
             lf == Locked(f)
             lg == Locked(g)
             k == n + 1
  <2>1. k \in new /\ new \ {k} = 1..n
    OBVIOUS
  <2>2. /\ IsFiniteSet(new) /\ lg \in [new -> Nat]
        /\ lf \in [new \ {k} -> Nat]
        /\ \A id \in new \ {k} : lg[id] = lf[id]
    BY <1>1, <1>2, <1>3, <2>1
  <2>3. Total(lg) = Total(lf) + lg[k]
    <3> HIDE DEF new, lf, lg, k
    <3> QED BY <2>1, <2>2, TotalWithout
  <2> QED
    BY <2>3
<1>6. ActiveIn(g) = ActiveIn(f) \union {n + 1} /\ n + 1 \notin ActiveIn(f)
  BY DEF ActiveIn
<1> QED
  BY <1>1, <1>4, <1>5, <1>6, FS_AddElement

\* One entry is appraised anew, or switched on or off.
LEMMA EntryReplaced ==
  ASSUME NEW n \in Nat, NEW f \in [1..n -> Entry], NEW g \in [1..n -> Entry],
         NEW x \in 1..n, \A id \in 1..n \ {x} : g[id] = f[id]
  PROVE  /\ Total(Locked(g)) = Total(Locked(f)) - Locked(f)[x] + Locked(g)[x]
         /\ g[x].active = f[x].active => ActiveIn(g) = ActiveIn(f)
         /\ f[x].active /\ ~g[x].active =>
                Cardinality(ActiveIn(g)) = Cardinality(ActiveIn(f)) - 1
         /\ ~f[x].active /\ g[x].active =>
                Cardinality(ActiveIn(g)) = Cardinality(ActiveIn(f)) + 1
<1>1. /\ IsFiniteSet(1..n) /\ Locked(f) \in [1..n -> Nat] /\ Locked(g) \in [1..n -> Nat]
      /\ IsFiniteSet(ActiveIn(f)) /\ Cardinality(ActiveIn(f)) \in Nat
  BY LockedIsTable
<1>2. \A id \in 1..n \ {x} : Locked(g)[id] = Locked(f)[id]
  BY DEF Locked
<1>3. Total(Locked(g)) = Total(Locked(f)) - Locked(f)[x] + Locked(g)[x]
  <2> DEFINE ids == 1..n
             lf == Locked(f)
             lg == Locked(g)
  <2>1. /\ IsFiniteSet(ids) /\ lf \in [ids -> Nat] /\ lg \in [ids -> Nat]
        /\ x \in ids /\ \A id \in ids \ {x} : lg[id] = lf[id]
    BY <1>1, <1>2
  <2>2. Total(lg) = Total(lf) - lf[x] + lg[x]
    <3> HIDE DEF ids, lf, lg
    <3> QED BY <2>1, TotalUpdate
  <2> QED
    BY <2>2
<1>4. ASSUME g[x].active = f[x].active PROVE ActiveIn(g) = ActiveIn(f)
  BY <1>4 DEF ActiveIn
<1>5. ASSUME f[x].active, ~g[x].active
      PROVE  Cardinality(ActiveIn(g)) = Cardinality(ActiveIn(f)) - 1
  <2>1. ActiveIn(g) = ActiveIn(f) \ {x} /\ x \in ActiveIn(f)
    BY <1>5 DEF ActiveIn
  <2> QED
    BY <1>1, <2>1, FS_RemoveElement
<1>6. ASSUME ~f[x].active, g[x].active
      PROVE  Cardinality(ActiveIn(g)) = Cardinality(ActiveIn(f)) + 1
  <2>1. ActiveIn(g) = ActiveIn(f) \union {x} /\ x \notin ActiveIn(f)
    BY <1>6 DEF ActiveIn
  <2> QED
    BY <1>1, <2>1, FS_AddElement
<1> QED
  BY <1>3, <1>4, <1>5, <1>6

\* Appending the new id to one of the lists keeps them lists of ids.
LEMMA ListExtended ==
  ASSUME NEW n \in Nat, NEW Key, NEW lists \in [Key -> Seq(1..n)], NEW k \in Key
  PROVE  [lists EXCEPT ![k] = Append(@, n + 1)] \in [Key -> Seq(1..(n + 1))]
<1>1. 1..n \subseteq 1..(n + 1) /\ n + 1 \in 1..(n + 1)
  OBVIOUS
<1>2. ASSUME NEW j \in Key PROVE lists[j] \in Seq(1..(n + 1))
  BY <1>1, SeqMonotonic
<1>3. Append(lists[k], n + 1) \in Seq(1..(n + 1))
  BY <1>1, <1>2
<1> QED
  BY <1>2, <1>3

-----------------------------------------------------------------------------
(* The invariant. *)

\* What the invariant says of the entries and totals, in the words of the lemmas.
LEMMA BooksInWords ==
  ASSUME Recounted
  PROVE  /\ counter \in Nat
         /\ asset \in [1..counter -> Entry]
         /\ total_valuation = Total(Locked(asset))
         /\ active_count = Cardinality(ActiveIn(asset))
BY ConstantsAssumption
   DEF Recounted, TypeOK, TotalsMatchEntries, LockedValue, Active, Locked, ActiveIn, Entry

LEMMA InitRecounted == Init => Recounted
<1> SUFFICES ASSUME Init PROVE Recounted
  OBVIOUS
<1>1. asset \in [1..0 -> Entry] /\ DOMAIN asset = {}
  BY DEF Init
<1>2. Total(LockedValue) = 0
  <2>1. LockedValue = [id \in {} |-> 0]
    BY <1>1 DEF LockedValue
  <2> QED
    BY <2>1, TotalOfZeros
<1>3. Active = {} /\ Cardinality(Active) = 0
  BY <1>1, FS_EmptySet DEF Active
<1>4. <<>> \in Seq(1..0)
  BY EmptySeq
<1>5. TypeOK
  BY <1>1, <1>4, ConstantsAssumption DEF Init, TypeOK, Entry
<1> QED
  BY <1>2, <1>3, <1>5 DEF Init, Recounted, TotalsMatchEntries, NothingBeforeInitialize

\* The books are as they were: what remains is the roles.
LEMMA BooksKept ==
  ASSUME Recounted, UNCHANGED bookVars, Initialized \/ UNCHANGED roleVars,
         admin' \in Address \union {NoAddress}, pending_admin' \in Address \union {NoAddress},
         asset_admin' \in [TokenContract -> Address \union {NoAddress}],
         signer' \in Address \union {NoAddress}, Initialized => Initialized'
  PROVE  Recounted'
<1>1. TypeOK' /\ TotalsMatchEntries'
  BY DEF Recounted, TypeOK, TotalsMatchEntries, LockedValue, Active,
         bookVars, totalVars, indexVars
<1>2. NothingBeforeInitialize'
  BY DEF Recounted, NothingBeforeInitialize, Initialized, roleVars, bookVars, indexVars
<1> QED
  BY <1>1, <1>2 DEF Recounted

\* A new table of entries, with totals that match it.
LEMMA BooksReplaced ==
  ASSUME Recounted, Initialized,
         asset' \in [1..counter -> Entry],
         total_valuation' = Total(Locked(asset')), total_valuation' <= I128Max,
         active_count' = Cardinality(ActiveIn(asset')),
         UNCHANGED <<roleVars, indexVars, asset_admin>>, signer' \in Address
  PROVE  Recounted'
<1>1. counter \in Nat
  BY BooksInWords
<1>2. total_valuation' \in Nat /\ active_count' \in 0..counter
  BY <1>1, LockedIsTable
<1>3. TypeOK'
  <2>1. total_valuation' \in 0..I128Max /\ active_count' \in 0..MaxAssets
    BY <1>1, <1>2, ConstantsAssumption DEF Recounted, TypeOK
  <2>2. asset' \in [1..counter' -> Entry]
    BY DEF indexVars
  <2> QED
    BY <2>1, <2>2 DEF Recounted, TypeOK, Entry, roleVars, indexVars
<1>4. TotalsMatchEntries'
  BY DEF TotalsMatchEntries, LockedValue, Active, Locked, ActiveIn
<1>5. NothingBeforeInitialize'
  BY DEF Initialized, NothingBeforeInitialize, roleVars
<1> QED
  BY <1>3, <1>4, <1>5 DEF Recounted

LEMMA RegisterRecounted ==
  ASSUME Recounted, NEW issuer \in Address, NEW token \in TokenContract,
         NEW asset_type, NEW valuation \in I128,
         RegisterAsset(issuer, token, asset_type, valuation)
  PROVE  Recounted'
<1>1. counter \in Nat /\ asset \in [1..counter -> Entry]
  BY BooksInWords
<1>2. valuation \in 0..I128Max
  BY ConstantsAssumption DEF RegisterAsset, CheckValuation, I128
<1>3. /\ asset' \in [1..(counter + 1) -> Entry]
      /\ \A id \in 1..counter : asset'[id] = asset[id]
      /\ asset'[counter + 1].active
      /\ asset'[counter + 1].valuation = valuation
  <2>1. 1..(counter + 1) = (1..counter) \union {counter + 1} /\ counter + 1 \notin 1..counter
    BY <1>1
  <2>2. [token_contract |-> token, issuer |-> issuer, asset_type |-> asset_type,
         valuation |-> valuation, active |-> TRUE] \in Entry
    BY <1>2 DEF Entry, RegisterAsset
  <2> QED
    BY <1>1, <2>1, <2>2 DEF RegisterAsset
<1>4. /\ total_valuation' = Total(Locked(asset'))
      /\ active_count' = Cardinality(ActiveIn(asset'))
  <2>1. /\ Total(Locked(asset')) = Total(Locked(asset)) + valuation
        /\ Cardinality(ActiveIn(asset')) = Cardinality(ActiveIn(asset)) + 1
    BY <1>1, <1>3, EntryAdded
  <2> QED
    BY <2>1, BooksInWords DEF RegisterAsset
<1>5. total_valuation' \in Nat /\ active_count' \in 0..(counter + 1)
  <2>1. counter + 1 \in Nat
    BY <1>1
  <2> QED
    BY <1>3, <1>4, <2>1, LockedIsTable
<1>6. counter' = counter + 1 /\ counter' \in 0..MaxAssets
  BY <1>1, ConstantsAssumption DEF RegisterAsset
<1>7. /\ issuer_index' \in [Address -> Seq(1..counter')]
      /\ type_index' \in [VALID_ASSET_TYPES -> Seq(1..counter')]
  BY <1>1, <1>6, ListExtended DEF Recounted, TypeOK, RegisterAsset
<1>8. token_index' \in [TokenContract -> 0..counter']
  BY <1>1, <1>6 DEF Recounted, TypeOK, RegisterAsset
<1>9. TypeOK'
  <2>1. total_valuation' \in 0..I128Max /\ active_count' \in 0..MaxAssets
    BY <1>5, <1>6, ConstantsAssumption DEF RegisterAsset, I128
  <2>2. asset' \in [1..counter' -> Entry]
    BY <1>3, <1>6
  <2>3. /\ UNCHANGED <<admin, pending_admin, asset_admin>>
        /\ signer' \in Address
    BY DEF RegisterAsset, RequireAuth, roleVars
  <2> QED
    BY <1>6, <1>7, <1>8, <2>1, <2>2, <2>3 DEF Recounted, TypeOK, Entry
<1>10. TotalsMatchEntries'
  BY <1>4 DEF TotalsMatchEntries, LockedValue, Active, Locked, ActiveIn
<1>11. NothingBeforeInitialize'
  BY DEF RegisterAsset, NothingBeforeInitialize, Initialized, roleVars
<1> QED
  BY <1>9, <1>10, <1>11 DEF Recounted

\* One entry is switched.  Taking it out cannot underflow and the count is
\* positive, because the totals are right before.
LEMMA SwitchRecounted ==
  ASSUME Recounted, NEW caller \in Address, NEW id,
         DeactivateAsset(caller, id) \/ ReactivateAsset(caller, id)
  PROVE  Recounted'
<1> DEFINE now == [asset EXCEPT ![id].active = ~@]
<1>1. /\ counter \in Nat /\ asset \in [1..counter -> Entry] /\ id \in 1..counter
      /\ asset[id].valuation \in 0..I128Max /\ asset[id].active \in BOOLEAN
  BY BooksInWords DEF DeactivateAsset, ReactivateAsset, Entry
<1>2. /\ Initialized /\ signer' \in Address
      /\ UNCHANGED <<roleVars, asset_admin>>
  BY DEF DeactivateAsset, ReactivateAsset, RequireAdminOrAssetAdmin, RequireAuth
<1>3. CASE UNCHANGED bookVars
  BY <1>2, <1>3, BooksKept DEF Recounted, TypeOK, roleVars, Initialized
<1>4. /\ now \in [1..counter -> Entry]
      /\ \A i \in 1..counter \ {id} : now[i] = asset[i]
      /\ now[id].active = ~asset[id].active /\ now[id].valuation = asset[id].valuation
  BY <1>1 DEF Entry
<1>5. CASE /\ DeactivateAsset(caller, id) /\ asset[id].active
           /\ ~UNCHANGED bookVars
  <2>1. /\ asset' = now /\ UNCHANGED indexVars
        /\ total_valuation' = total_valuation - asset[id].valuation
        /\ active_count' = IF active_count = 0 THEN 0 ELSE active_count - 1
    BY <1>1, <1>5 DEF DeactivateAsset
  <2>0. asset' = now /\ asset[id].active /\ ~now[id].active
    BY <1>1, <1>4, <1>5, <2>1
  <2>2. /\ Total(Locked(asset')) =
               Total(Locked(asset)) - Locked(asset)[id] + Locked(asset')[id]
        /\ Cardinality(ActiveIn(asset')) = Cardinality(ActiveIn(asset)) - 1
    <3> HIDE DEF now
    <3> QED BY <1>1, <1>4, <2>0, EntryReplaced
  <2>3. Locked(asset)[id] = asset[id].valuation /\ Locked(asset')[id] = 0
    BY <1>1, <1>4, <1>5, <2>1 DEF Locked
  <2>4. Cardinality(ActiveIn(asset')) \in Nat
    <3> HIDE DEF now
    <3> QED BY <1>1, <1>4, <2>1, LockedIsTable
  <2>5. total_valuation \in 0..I128Max /\ active_count \in Nat
    BY DEF Recounted, TypeOK
  <2>6. /\ total_valuation' = Total(Locked(asset')) /\ total_valuation' <= I128Max
        /\ active_count' = Cardinality(ActiveIn(asset'))
    BY <1>1, <2>1, <2>2, <2>3, <2>4, <2>5, BooksInWords, ConstantsAssumption
  <2> QED
    BY <1>2, <1>4, <2>1, <2>6, BooksReplaced
<1>6. CASE /\ ReactivateAsset(caller, id) /\ ~asset[id].active
           /\ ~UNCHANGED bookVars
  <2>1. /\ asset' = now /\ UNCHANGED indexVars
        /\ total_valuation' = total_valuation + asset[id].valuation
        /\ total_valuation' \in I128
        /\ active_count' = active_count + 1
    BY <1>1, <1>6 DEF ReactivateAsset
  <2>0. asset' = now /\ ~asset[id].active /\ now[id].active
    BY <1>1, <1>4, <1>6, <2>1
  <2>2. /\ Total(Locked(asset')) =
               Total(Locked(asset)) - Locked(asset)[id] + Locked(asset')[id]
        /\ Cardinality(ActiveIn(asset')) = Cardinality(ActiveIn(asset)) + 1
    <3> HIDE DEF now
    <3> QED BY <1>1, <1>4, <2>0, EntryReplaced
  <2>3. Locked(asset)[id] = 0 /\ Locked(asset')[id] = asset[id].valuation
    BY <1>1, <1>4, <1>6, <2>1 DEF Locked
  <2>4. total_valuation \in 0..I128Max
    BY DEF Recounted, TypeOK
  <2>5. /\ total_valuation' = Total(Locked(asset')) /\ total_valuation' <= I128Max
        /\ active_count' = Cardinality(ActiveIn(asset'))
    BY <1>1, <2>1, <2>2, <2>3, <2>4, BooksInWords, ConstantsAssumption DEF I128
  <2> QED
    BY <1>2, <1>4, <2>1, <2>5, BooksReplaced
<1> QED
  BY <1>3, <1>5, <1>6 DEF DeactivateAsset, ReactivateAsset

LEMMA UpdateRecounted ==
  ASSUME Recounted, NEW caller \in Address, NEW id, NEW v \in I128,
         UpdateValuation(caller, id, v)
  PROVE  Recounted'
<1> DEFINE now == [asset EXCEPT ![id].valuation = v]
<1>1. /\ counter \in Nat /\ asset \in [1..counter -> Entry] /\ id \in 1..counter
      /\ asset[id].valuation \in 0..I128Max /\ asset[id].active \in BOOLEAN
  BY BooksInWords DEF UpdateValuation, Entry
<1>2. v \in 0..I128Max
  BY ConstantsAssumption DEF UpdateValuation, CheckValuation, I128
<1>3. /\ now \in [1..counter -> Entry]
      /\ \A i \in 1..counter \ {id} : now[i] = asset[i]
      /\ now[id].active = asset[id].active /\ now[id].valuation = v
  BY <1>1, <1>2 DEF Entry
<1>4. /\ asset' = now /\ total_valuation' = TotalAfterUpdate(id, v)
      /\ TotalAfterUpdate(id, v) \in I128
      /\ Initialized /\ signer' \in Address /\ active_count' = active_count
      /\ UNCHANGED <<roleVars, indexVars, asset_admin>>
  BY DEF UpdateValuation, RequireAdmin, RequireAuth
<1>5. /\ Total(Locked(asset')) =
             Total(Locked(asset)) - Locked(asset)[id] + Locked(asset')[id]
      /\ ActiveIn(asset') = ActiveIn(asset)
  <2> HIDE DEF now
  <2> QED BY <1>1, <1>3, <1>4, EntryReplaced
<1>6. /\ Locked(asset)[id] = IF asset[id].active THEN asset[id].valuation ELSE 0
      /\ Locked(asset')[id] = IF asset[id].active THEN v ELSE 0
  BY <1>1, <1>3, <1>4 DEF Locked
<1>7. total_valuation \in 0..I128Max
  BY DEF Recounted, TypeOK
<1>8. /\ total_valuation' = Total(Locked(asset')) /\ total_valuation' <= I128Max
      /\ active_count' = Cardinality(ActiveIn(asset'))
  BY <1>1, <1>2, <1>4, <1>5, <1>6, <1>7, BooksInWords, ConstantsAssumption
  DEF TotalAfterUpdate, I128
<1> QED
  BY <1>1, <1>3, <1>4, <1>8, BooksReplaced

\* Nothing is on file before the contract is initialised, so setting the
\* totals to zero is right.
LEMMA InitializeRecounted ==
  ASSUME Recounted, NEW caller \in Address, Initialize(caller)
  PROVE  Recounted'
<1>1. counter = 0 /\ UNCHANGED <<pending_admin, asset, issuer_index, type_index,
                                 token_index, asset_admin>>
  BY DEF Initialize, Recounted, NothingBeforeInitialize
<1>2. UNCHANGED <<LockedValue, Active>>
  BY <1>1 DEF LockedValue, Active
<1>3. total_valuation = 0 /\ active_count = 0
  <2>1. asset \in [1..0 -> Entry] /\ DOMAIN asset = {}
    BY <1>1, BooksInWords
  <2>2. LockedValue = [id \in {} |-> 0] /\ Active = {}
    BY <2>1 DEF LockedValue, Active
  <2> QED
    BY <2>2, TotalOfZeros, FS_EmptySet DEF Recounted, TotalsMatchEntries
<1>4. UNCHANGED <<counter, total_valuation, active_count>>
  BY <1>1, <1>3 DEF Initialize
<1>5. TypeOK'
  BY <1>1, <1>4 DEF Recounted, TypeOK, Initialize, RequireAuth
<1>6. TotalsMatchEntries'
  BY <1>2, <1>4 DEF Recounted, TotalsMatchEntries
<1>7. NothingBeforeInitialize'
  BY <1>1, <1>4, ConstantsAssumption DEF Recounted, NothingBeforeInitialize, Initialize
<1> QED
  BY <1>5, <1>6, <1>7 DEF Recounted

LEMMA NextRecounted == Recounted /\ [Next]_vars => Recounted'
<1> SUFFICES ASSUME Recounted, [Next]_vars PROVE Recounted'
  OBVIOUS
<1>1. ASSUME NEW caller \in Address, AssetStep(caller) PROVE Recounted'
  <2>1. ASSUME NEW r \in Registration, NEW v \in Valuation,
               RegisterAsset(caller, r.token_contract, r.asset_type, v)
        PROVE  Recounted'
    <3>1. r.token_contract \in TokenContract /\ v \in I128
      BY ConstantsAssumption
    <3> QED
      BY <2>1, <3>1, RegisterRecounted
  <2>2. ASSUME NEW id, NEW v \in Valuation, UpdateValuation(caller, id, v) PROVE Recounted'
    <3>1. v \in I128
      BY ConstantsAssumption
    <3> QED
      BY <2>2, <3>1, UpdateRecounted
  <2> QED
    BY <1>1, <2>1, <2>2, SwitchRecounted DEF AssetStep
<1>2. ASSUME NEW caller \in Address, AdminStep(caller) PROVE Recounted'
  <2>1. ASSUME NEW a \in Nominee, ProposeAdmin(caller, a) PROVE Recounted'
    BY <2>1, BooksKept, ConstantsAssumption
    DEF ProposeAdmin, RequireAdmin, RequireAuth, Initialized, Recounted, TypeOK
  <2>2. ASSUME CancelAdminProposal(caller) PROVE Recounted'
    BY <2>2, BooksKept
    DEF CancelAdminProposal, RequireAdmin, RequireAuth, Initialized, Recounted, TypeOK
  <2>3. ASSUME AcceptAdmin(caller) PROVE Recounted'
    BY <2>3, BooksKept, ConstantsAssumption
    DEF AcceptAdmin, RequireAuth, Initialized, Recounted, TypeOK
  <2> QED
    BY <1>2, <2>1, <2>2, <2>3, InitializeRecounted DEF AdminStep
<1>3. ASSUME NEW t \in TokenContract, NEW a \in Nominee, TokenHandover(t, a) PROVE Recounted'
  BY <1>3, BooksKept, ConstantsAssumption
  DEF TokenHandover, Initialized, roleVars, Recounted, TypeOK
<1>4. CASE UNCHANGED vars
  BY <1>4, BooksKept DEF vars, Initialized, roleVars, Recounted, TypeOK
<1> QED
  BY <1>1, <1>2, <1>3, <1>4 DEF Next

LEMMA AlwaysRecounted == Spec => []Recounted
BY InitRecounted, NextRecounted, PTL DEF Spec

-----------------------------------------------------------------------------
(* The results. *)

\* Every variable stays in its type; in particular neither total ever leaves
\* its range.
THEOREM TypeCorrectness == Spec => []TypeOK
<1>1. Recounted => TypeOK
  BY DEF Recounted
<1> QED
  BY <1>1, AlwaysRecounted, PTL

\* The number of active entries and the total value locked, which the
\* contract only ever adjusts, equal what a recount would give.
THEOREM TotalsAreRecounts == Spec => []TotalsMatchEntries
<1>1. Recounted => TotalsMatchEntries
  BY DEF Recounted
<1> QED
  BY <1>1, AlwaysRecounted, PTL

\* What one call may do to the entries.
EntryStep ==
    \A id \in DOMAIN asset :
        /\ id \in DOMAIN asset'
        /\ [asset'[id] EXCEPT !.valuation = asset[id].valuation,
                              !.active = asset[id].active] = asset[id]
        /\ asset'[id].valuation # asset[id].valuation => signer' = admin
        /\ asset'[id].active # asset[id].active =>
               signer' \in {admin, asset_admin[asset[id].token_contract]}

\* A table that is left alone, or only gains an id, meets EntryStep.
LEMMA OldEntriesKept ==
  ASSUME Recounted, DOMAIN asset \subseteq DOMAIN asset',
         \A id \in DOMAIN asset : asset'[id] = asset[id]
  PROVE  EntryStep
BY BooksInWords DEF EntryStep, Entry

LEMMA NextByRight == Recounted /\ [Next]_vars => [EntryStep]_vars
<1> SUFFICES ASSUME Recounted, [Next]_vars PROVE EntryStep \/ UNCHANGED vars
  OBVIOUS
<1>0. counter \in Nat /\ asset \in [1..counter -> Entry]
  BY BooksInWords
<1>1. ASSUME NEW caller \in Address, AssetStep(caller) PROVE EntryStep
  <2>1. ASSUME NEW r, NEW v, RegisterAsset(caller, r.token_contract, r.asset_type, v)
        PROVE  EntryStep
    <3>1. counter + 1 \notin DOMAIN asset
      BY <1>0
    <3> QED
      BY <2>1, <3>1, OldEntriesKept DEF RegisterAsset
  <2>2. ASSUME NEW id, DeactivateAsset(caller, id) \/ ReactivateAsset(caller, id)
        PROVE  EntryStep
    <3>1. CASE UNCHANGED bookVars
      BY <3>1, OldEntriesKept DEF bookVars
    <3>2. CASE ~UNCHANGED bookVars
      <4>1. /\ id \in 1..counter
            /\ signer' \in {admin, asset_admin[asset[id].token_contract]}
            /\ \/ asset' = [asset EXCEPT ![id].active = FALSE]
               \/ asset' = [asset EXCEPT ![id].active = TRUE]
        BY <1>0, <2>2, <3>2
        DEF DeactivateAsset, ReactivateAsset, RequireAdminOrAssetAdmin, RequireAuth
      <4>2. DOMAIN asset' = DOMAIN asset
        BY <4>1
      <4>3. ASSUME NEW i \in DOMAIN asset, i # id PROVE asset'[i] = asset[i]
        BY <4>1, <4>3
      <4>4. /\ asset[id] \in Entry
            /\ \/ asset'[id] = [asset[id] EXCEPT !.active = FALSE]
               \/ asset'[id] = [asset[id] EXCEPT !.active = TRUE]
        BY <1>0, <4>1
      <4>5. ASSUME NEW i \in DOMAIN asset
            PROVE  /\ [asset'[i] EXCEPT !.valuation = asset[i].valuation,
                                        !.active = asset[i].active] = asset[i]
                   /\ asset'[i].valuation = asset[i].valuation
                   /\ i # id => asset'[i].active = asset[i].active
        <5>1. CASE i = id
          BY <4>4, <5>1 DEF Entry
        <5>2. CASE i # id
          BY <1>0, <4>3, <5>2 DEF Entry
        <5> QED
          BY <5>1, <5>2
      <4> QED
        BY <4>1, <4>2, <4>5 DEF EntryStep
    <3> QED
      BY <3>1, <3>2
  <2>3. ASSUME NEW id, NEW v, UpdateValuation(caller, id, v) PROVE EntryStep
    <3>1. /\ id \in 1..counter /\ signer' = admin
          /\ asset' = [asset EXCEPT ![id].valuation = v]
      BY <1>0, <2>3 DEF UpdateValuation, RequireAdmin, RequireAuth
    <3>2. DOMAIN asset' = DOMAIN asset
      BY <3>1
    <3>3. ASSUME NEW i \in DOMAIN asset, i # id PROVE asset'[i] = asset[i]
      BY <3>1, <3>3
    <3>4. asset'[id] = [asset[id] EXCEPT !.valuation = v] /\ asset[id] \in Entry
      BY <1>0, <3>1
    <3>5. ASSUME NEW i \in DOMAIN asset
          PROVE  /\ [asset'[i] EXCEPT !.valuation = asset[i].valuation,
                                      !.active = asset[i].active] = asset[i]
                 /\ asset'[i].active = asset[i].active
      <4>1. CASE i = id
        BY <3>4, <4>1 DEF Entry
      <4>2. CASE i # id
        BY <1>0, <3>3, <4>2 DEF Entry
      <4> QED
        BY <4>1, <4>2
    <3> QED
      BY <3>1, <3>2, <3>5 DEF EntryStep
  <2> QED
    BY <1>1, <2>1, <2>2, <2>3 DEF AssetStep
<1>2. ASSUME NEW caller \in Address, AdminStep(caller) PROVE EntryStep
  BY <1>2, OldEntriesKept
  DEF AdminStep, Initialize, ProposeAdmin, CancelAdminProposal, AcceptAdmin, bookVars
<1>3. ASSUME NEW t, NEW a, TokenHandover(t, a) PROVE EntryStep
  BY <1>3, OldEntriesKept DEF TokenHandover, bookVars
<1> QED
  BY <1>1, <1>2, <1>3 DEF Next

\* No call re-appraises or switches an entry unless it is signed by the
\* registry's admin or, for a switch, by the present admin of its token; and
\* no call takes an entry away or changes whose it is.
THEOREM EntriesChangeByRight == Spec => EntriesChangeOnlyByRight
<1>1. Recounted /\ [Next]_vars => [EntryStep]_vars
  BY NextByRight
<1> QED
  BY <1>1, AlwaysRecounted, PTL DEF Spec, EntriesChangeOnlyByRight, EntryStep

-----------------------------------------------------------------------------
(* The indexes. *)

\* The ids a list should have.
IssuedBy(f, a) == {id \in DOMAIN f : f[id].issuer = a}
OfType(f, t) == {id \in DOMAIN f : f[id].asset_type = t}
OfToken(f, t) == {id \in DOMAIN f : f[id].token_contract = t}

\* The indexes follow only in company of the invariant: a new id is last in
\* its lists only because no id on file exceeds the counter.
Indexed == Recounted /\ IndexesMatchEntries

LEMMA NewIdListed ==
  ASSUME NEW n \in Nat, NEW list \in Seq(1..n), NEW ids, ListsInOrder(list, ids)
  PROVE  ListsInOrder(Append(list, n + 1), ids \union {n + 1})
<1> DEFINE more == Append(list, n + 1)
           l == Len(list)
<1>1. l \in Nat /\ DOMAIN list = 1..l /\ \A k \in 1..l : list[k] \in 1..n
  BY LenProperties, ElementOfSeq
<1>2. more \in Seq(Nat) /\ Len(more) = l + 1 /\ more[l + 1] = n + 1
      /\ \A k \in 1..l : more[k] = list[k]
  <2>1. list \in Seq(Nat) /\ n + 1 \in Nat
    BY SeqMonotonic
  <2> QED
    BY <2>1, AppendProperties
<1>3. DOMAIN more = 1..(l + 1)
  BY <1>2, LenProperties
<1>4. 1..(l + 1) = (1..l) \union {l + 1}
  BY <1>1
<1> HIDE DEF more, l
<1>5. /\ {list[k] : k \in 1..l} = ids
      /\ \A k, m \in 1..l : k < m => list[k] < list[m]
  BY <1>1 DEF ListsInOrder
<1>6. {more[k] : k \in 1..(l + 1)} = ids \union {n + 1}
  <2>1. {more[k] : k \in 1..(l + 1)} = {more[k] : k \in 1..l} \union {more[l + 1]}
    BY <1>4
  <2>2. {more[k] : k \in 1..l} = ids /\ more[l + 1] = n + 1
    BY <1>2, <1>5
  <2> QED
    BY <2>1, <2>2
<1>7. ASSUME NEW k \in 1..(l + 1), NEW m \in 1..(l + 1), k < m PROVE more[k] < more[m]
  <2>1. k \in 1..l
    BY <1>1, <1>7
  <2>2. CASE m = l + 1
    BY <1>1, <1>2, <2>1, <2>2
  <2>3. CASE m # l + 1
    <3>1. m \in 1..l
      BY <1>4, <2>3
    <3> QED
      BY <1>2, <1>5, <1>7, <2>1, <3>1
  <2> QED
    BY <2>2, <2>3
<1> QED
  BY <1>3, <1>6, <1>7 DEF ListsInOrder, more

\* A registration enters its id into one list of each kind, and leaves the
\* others as right as they were.
LEMMA RegisterIndexed ==
  ASSUME Indexed, NEW issuer \in Address, NEW token \in TokenContract,
         NEW asset_type, NEW valuation \in I128,
         RegisterAsset(issuer, token, asset_type, valuation)
  PROVE  IndexesMatchEntries'
<1> DEFINE id == counter + 1
<1>1. counter \in Nat /\ asset \in [1..counter -> Entry] /\ DOMAIN asset = 1..counter
  BY BooksInWords DEF Indexed
<1>2. /\ issuer_index \in [Address -> Seq(1..counter)]
      /\ type_index \in [VALID_ASSET_TYPES -> Seq(1..counter)]
      /\ token_index \in [TokenContract -> 0..counter]
  BY DEF Indexed, Recounted, TypeOK
<1>3. /\ DOMAIN asset' = DOMAIN asset \union {id} /\ id \notin DOMAIN asset
      /\ \A i \in DOMAIN asset : asset'[i] = asset[i]
      /\ asset'[id].issuer = issuer /\ asset'[id].asset_type = asset_type
      /\ asset'[id].token_contract = token
  BY <1>1 DEF RegisterAsset
<1>4. asset_type \in VALID_ASSET_TYPES /\ token_index[token] = 0
  BY DEF RegisterAsset, Unregistered
<1>5. /\ issuer_index' = [issuer_index EXCEPT ![issuer] = Append(issuer_index[issuer], id)]
      /\ type_index' = [type_index EXCEPT ![asset_type] = Append(type_index[asset_type], id)]
      /\ token_index' = [token_index EXCEPT ![token] = id]
  BY DEF RegisterAsset
<1>6. ASSUME NEW a \in Address PROVE ListsInOrder(issuer_index'[a], IssuedBy(asset', a))
  <2>1. ListsInOrder(issuer_index[a], IssuedBy(asset, a)) /\ issuer_index[a] \in Seq(1..counter)
    BY <1>2 DEF Indexed, IndexesMatchEntries, IssuedBy
  <2>2. CASE a = issuer
    <3>1. IssuedBy(asset', a) = IssuedBy(asset, a) \union {id}
      BY <1>3, <2>2 DEF IssuedBy
    <3>2. issuer_index'[a] = Append(issuer_index[a], id)
      BY <1>2, <1>5, <2>2
    <3>3. ListsInOrder(Append(issuer_index[a], id), IssuedBy(asset, a) \union {id})
      BY <1>1, <2>1, NewIdListed
    <3> QED
      BY <3>1, <3>2, <3>3
  <2>3. CASE a # issuer
    <3>1. IssuedBy(asset', a) = IssuedBy(asset, a)
      BY <1>3, <2>3 DEF IssuedBy
    <3>2. issuer_index'[a] = issuer_index[a]
      BY <1>2, <1>5, <2>3
    <3> QED
      BY <2>1, <3>1, <3>2
  <2> QED
    BY <2>2, <2>3
<1>7. ASSUME NEW t \in VALID_ASSET_TYPES PROVE ListsInOrder(type_index'[t], OfType(asset', t))
  <2>1. ListsInOrder(type_index[t], OfType(asset, t)) /\ type_index[t] \in Seq(1..counter)
    BY <1>2 DEF Indexed, IndexesMatchEntries, OfType
  <2>2. CASE t = asset_type
    <3>1. OfType(asset', t) = OfType(asset, t) \union {id}
      BY <1>3, <2>2 DEF OfType
    <3>2. type_index'[t] = Append(type_index[t], id)
      BY <1>2, <1>5, <2>2
    <3>3. ListsInOrder(Append(type_index[t], id), OfType(asset, t) \union {id})
      BY <1>1, <2>1, NewIdListed
    <3> QED
      BY <3>1, <3>2, <3>3
  <2>3. CASE t # asset_type
    <3>1. OfType(asset', t) = OfType(asset, t)
      BY <1>3, <2>3 DEF OfType
    <3>2. type_index'[t] = type_index[t]
      BY <1>2, <1>5, <2>3
    <3> QED
      BY <2>1, <3>1, <3>2
  <2> QED
    BY <2>2, <2>3
<1>8. ASSUME NEW t \in TokenContract PROVE OfToken(asset', t) = {token_index'[t]} \ {0}
  <2>1. OfToken(asset, t) = {token_index[t]} \ {0}
    BY DEF Indexed, IndexesMatchEntries, OfToken
  <2>2. CASE t = token
    <3>1. OfToken(asset', t) = OfToken(asset, t) \union {id}
      BY <1>3, <2>2 DEF OfToken
    <3>2. OfToken(asset, t) = {} /\ token_index'[t] = id /\ id # 0
      BY <1>1, <1>2, <1>4, <1>5, <2>1, <2>2
    <3> QED
      BY <3>1, <3>2
  <2>3. CASE t # token
    <3>1. OfToken(asset', t) = OfToken(asset, t)
      BY <1>3, <2>3 DEF OfToken
    <3>2. token_index'[t] = token_index[t]
      BY <1>2, <1>5, <2>3
    <3> QED
      BY <2>1, <3>1, <3>2
  <2> QED
    BY <2>2, <2>3
<1> QED
  BY <1>6, <1>7, <1>8 DEF IndexesMatchEntries, IssuedBy, OfType, OfToken

\* Any other call leaves the lists alone, and who an entry belongs to.
LEMMA SameIndexes ==
  ASSUME Indexed, UNCHANGED <<issuer_index, type_index, token_index>>,
         DOMAIN asset' = DOMAIN asset,
         \A id \in DOMAIN asset : /\ asset'[id].issuer = asset[id].issuer
                                  /\ asset'[id].asset_type = asset[id].asset_type
                                  /\ asset'[id].token_contract = asset[id].token_contract
  PROVE  IndexesMatchEntries'
<1>1. /\ \A a \in Address : IssuedBy(asset', a) = IssuedBy(asset, a)
      /\ \A t \in VALID_ASSET_TYPES : OfType(asset', t) = OfType(asset, t)
      /\ \A t \in TokenContract : OfToken(asset', t) = OfToken(asset, t)
  BY DEF IssuedBy, OfType, OfToken
<1>2. /\ \A a \in Address : ListsInOrder(issuer_index[a], IssuedBy(asset, a))
      /\ \A t \in VALID_ASSET_TYPES : ListsInOrder(type_index[t], OfType(asset, t))
      /\ \A t \in TokenContract : OfToken(asset, t) = {token_index[t]} \ {0}
  BY DEF Indexed, IndexesMatchEntries, IssuedBy, OfType, OfToken
<1>3. /\ \A a \in Address : ListsInOrder(issuer_index'[a], IssuedBy(asset', a))
      /\ \A t \in VALID_ASSET_TYPES : ListsInOrder(type_index'[t], OfType(asset', t))
      /\ \A t \in TokenContract : OfToken(asset', t) = {token_index'[t]} \ {0}
  BY <1>1, <1>2
<1> QED
  BY <1>3 DEF IndexesMatchEntries, IssuedBy, OfType, OfToken

LEMMA EntryStepKeepsIndexes ==
  ASSUME Indexed, EntryStep, DOMAIN asset' = DOMAIN asset,
         UNCHANGED <<issuer_index, type_index, token_index>>
  PROVE  IndexesMatchEntries'
<1>1. asset \in [1..counter -> Entry]
  BY BooksInWords DEF Indexed
<1>2. ASSUME NEW id \in DOMAIN asset
      PROVE  /\ asset'[id].issuer = asset[id].issuer
             /\ asset'[id].asset_type = asset[id].asset_type
             /\ asset'[id].token_contract = asset[id].token_contract
  <2> DEFINE same == [asset'[id] EXCEPT !.valuation = asset[id].valuation,
                                        !.active = asset[id].active]
  <2>1. same = asset[id]
    BY DEF EntryStep
  <2>2. /\ same.issuer = asset'[id].issuer
        /\ same.asset_type = asset'[id].asset_type
        /\ same.token_contract = asset'[id].token_contract
    OBVIOUS
  <2> HIDE DEF same
  <2> QED
    BY <2>1, <2>2
<1> QED
  BY <1>2, SameIndexes

LEMMA InitIndexed == Init => IndexesMatchEntries
<1> SUFFICES ASSUME Init PROVE IndexesMatchEntries
  OBVIOUS
<1>1. DOMAIN asset = {}
  BY DEF Init
<1>2. ListsInOrder(<<>>, {})
  BY DEF ListsInOrder
<1>3. /\ \A a \in Address : issuer_index[a] = <<>>
      /\ \A t \in VALID_ASSET_TYPES : type_index[t] = <<>>
      /\ \A t \in TokenContract : token_index[t] = 0
  BY DEF Init
<1>4. /\ \A a : IssuedBy(asset, a) = {}
      /\ \A t : OfType(asset, t) = {} /\ OfToken(asset, t) = {}
  BY <1>1 DEF IssuedBy, OfType, OfToken
<1> QED
  BY <1>2, <1>3, <1>4 DEF IndexesMatchEntries, IssuedBy, OfType, OfToken

LEMMA NextIndexed == Indexed /\ [Next]_vars => Indexed'
<1> SUFFICES ASSUME Indexed, [Next]_vars PROVE IndexesMatchEntries'
  BY NextRecounted DEF Indexed
<1>1. ASSUME NEW caller \in Address, AssetStep(caller) PROVE IndexesMatchEntries'
  <2>1. ASSUME NEW r \in Registration, NEW v \in Valuation,
               RegisterAsset(caller, r.token_contract, r.asset_type, v)
        PROVE  IndexesMatchEntries'
    <3>1. r.token_contract \in TokenContract /\ v \in I128
      BY ConstantsAssumption
    <3> QED
      BY <2>1, <3>1, RegisterIndexed
  <2>2. CASE DOMAIN asset' = DOMAIN asset /\ UNCHANGED <<issuer_index, type_index, token_index>>
    <3>1. EntryStep \/ UNCHANGED vars
      BY NextByRight DEF Indexed
    <3>2. CASE UNCHANGED vars
      BY <2>2, <3>2, SameIndexes DEF vars, bookVars
    <3> QED
      BY <2>2, <3>1, <3>2, EntryStepKeepsIndexes
  <2>3. ASSUME NEW id, DeactivateAsset(caller, id) \/ ReactivateAsset(caller, id)
        PROVE  DOMAIN asset' = DOMAIN asset /\ UNCHANGED <<issuer_index, type_index, token_index>>
    BY <2>3 DEF DeactivateAsset, ReactivateAsset, bookVars, indexVars
  <2>4. ASSUME NEW id, NEW v, UpdateValuation(caller, id, v)
        PROVE  DOMAIN asset' = DOMAIN asset /\ UNCHANGED <<issuer_index, type_index, token_index>>
    BY <2>4 DEF UpdateValuation, indexVars
  <2> QED
    BY <1>1, <2>1, <2>2, <2>3, <2>4 DEF AssetStep
<1>2. ASSUME UNCHANGED <<asset, issuer_index, type_index, token_index>>
      PROVE  IndexesMatchEntries'
  BY <1>2, SameIndexes
<1>3. ASSUME NEW caller \in Address, AdminStep(caller) PROVE IndexesMatchEntries'
  BY <1>2, <1>3
  DEF AdminStep, Initialize, ProposeAdmin, CancelAdminProposal, AcceptAdmin, bookVars, indexVars
<1>4. ASSUME NEW t, NEW a, TokenHandover(t, a) PROVE IndexesMatchEntries'
  BY <1>2, <1>4 DEF TokenHandover, bookVars, indexVars
<1>5. CASE UNCHANGED vars
  BY <1>2, <1>5 DEF vars, bookVars, indexVars
<1> QED
  BY <1>1, <1>3, <1>4, <1>5 DEF Next

LEMMA AlwaysIndexed == Spec => []Indexed
<1>1. Init => Indexed
  BY InitRecounted, InitIndexed DEF Indexed
<1> QED
  BY <1>1, NextIndexed, PTL DEF Spec

\* Whatever was registered, appraised and switched, the lists by issuer and
\* by type hold every entry once, in order of registration, and the token
\* index leads back to the one entry of each registered token.
THEOREM IndexesAlwaysMatch == Spec => []IndexesMatchEntries
<1>1. Indexed => IndexesMatchEntries
  BY DEF Indexed
<1> QED
  BY <1>1, AlwaysIndexed, PTL

-----------------------------------------------------------------------------
\* The registry implements the abstract two-step admin handover.
THEOREM ImplementsAdminHandover == Spec => AdminRoleHandover
<1>1. Init => Handover!Init
  BY DEF Init, Handover!Init
<1>2. Recounted /\ [Next]_vars => [Handover!Next]_<<admin, pending_admin, signer>>
  <2> SUFFICES ASSUME Recounted, [Next]_vars
               PROVE  [Handover!Next]_<<admin, pending_admin, signer>>
    OBVIOUS
  <2> USE DEF roleVars, RequireAuth, RequireAdmin, Initialized, Handover!Next, Handover!Other
  <2>1. ASSUME NEW caller \in Address, AssetStep(caller) PROVE Handover!Next
    BY <2>1
    DEF AssetStep, RegisterAsset, DeactivateAsset, ReactivateAsset, UpdateValuation,
        RequireAdminOrAssetAdmin
  <2>2. ASSUME NEW caller \in Address, AdminStep(caller) PROVE Handover!Next
    <3>1. ASSUME Initialize(caller) PROVE Handover!Appoint(caller)
      BY <3>1 DEF Initialize, Handover!Appoint
    <3>2. ASSUME NEW a \in Nominee, ProposeAdmin(caller, a) PROVE Handover!Nominate(a)
      BY <3>2 DEF ProposeAdmin, Handover!Nominate
    <3>3. ASSUME CancelAdminProposal(caller) PROVE Handover!Withdraw
      BY <3>3 DEF CancelAdminProposal, Handover!Withdraw
    <3>4. ASSUME AcceptAdmin(caller) PROVE Handover!TakeOver
      BY <3>4 DEF AcceptAdmin, Handover!TakeOver
    <3> QED
      BY <2>2, <3>1, <3>2, <3>3, <3>4, ConstantsAssumption DEF AdminStep
  <2>3. ASSUME NEW t, NEW a, TokenHandover(t, a) PROVE Handover!Next
    BY <2>3 DEF TokenHandover
  <2>4. CASE UNCHANGED vars
    BY <2>4 DEF vars
  <2> QED
    BY <2>1, <2>2, <2>3, <2>4 DEF Next
<1> QED
  BY <1>1, <1>2, AlwaysRecounted, PTL DEF Spec, AdminRoleHandover, Handover!Spec

-----------------------------------------------------------------------------
(* The paged views. *)

\* A view of n entries.
Shown(view, n, f) ==
    Kept([k \in 1..n |-> k], {id \in DOMAIN f : Shows(view, f[id])})

LEMMA ShownRises ==
  ASSUME NEW view, NEW n \in Nat, NEW f \in [1..n -> Entry]
  PROVE  /\ Shown(view, n, f) \in Seq(Nat) /\ Rising(Shown(view, n, f))
         /\ \A x : In(x, Shown(view, n, f)) <=> x \in 1..n /\ Shows(view, f[x])
<1> DEFINE all == Following(0, n)
           keep == {id \in DOMAIN f : Shows(view, f[id])}
<1>1. all = [k \in 1..n |-> k]
  BY DEF Following
<1>2. /\ all \in Seq(Nat) /\ Rising(all)
      /\ \A x : In(x, all) <=> x \in 1..n
  BY AllNumbers
<1>3. \A x : x \in keep <=> x \in 1..n /\ Shows(view, f[x])
  OBVIOUS
<1>4. Shown(view, n, f) = Kept(all, keep)
  BY <1>1 DEF Shown
<1> HIDE DEF all, keep
<1>5. Kept(all, keep) \in Seq(Nat) /\ \A x : In(x, Kept(all, keep)) <=> In(x, all) /\ x \in keep
  BY <1>2, KeptItems
<1>6. Rising(Kept(all, keep))
  BY <1>2, KeptRising
<1> QED
  BY <1>2, <1>3, <1>4, <1>5, <1>6

\* A list of numbers up to n is a list of ids.
LEMMA ListOfIds ==
  ASSUME NEW n, NEW list \in Seq(Nat), \A x : In(x, list) => x \in n
  PROVE  list \in Seq(n)
<1>1. Len(list) \in Nat /\ list \in [1..Len(list) -> Nat]
  BY LenProperties
<1>2. \A k \in 1..Len(list) : list[k] \in n
  BY DEF In
<1>3. list \in [1..Len(list) -> n]
  BY <1>1, <1>2
<1> QED
  BY <1>1, <1>3, IsASeq

\* The ids from one to another: none of them is missing on file.
LEMMA OnFileFollows ==
  ASSUME Recounted, NEW a \in Nat, NEW last \in Int, last <= counter
  PROVE  OnFile(a + 1, last) = Following(a, last - a)
<1>1. counter \in Nat /\ DOMAIN asset = 1..counter
  BY BooksInWords
<1> DEFINE l == Following(a, last - a)
<1>2. [k \in 1..(last - (a + 1) + 1) |-> (a + 1) + k - 1] = l
  <2>1. last - (a + 1) + 1 = last - a
    OBVIOUS
  <2>2. \A k \in 1..(last - a) : (a + 1) + k - 1 = a + k
    OBVIOUS
  <2> QED
    BY <2>1, <2>2 DEF Following
<1>3. last - a \in Int
  OBVIOUS
<1>4. l \in Seq(Nat) /\ Rising(l) /\ \A x : In(x, l) <=> x \in (a + 1)..(a + (last - a))
  BY <1>3, FollowingRises
<1>5. \A x : In(x, l) => x \in DOMAIN asset
  <2>1. (a + 1)..(a + (last - a)) \subseteq 1..counter
    BY <1>1
  <2> QED
    BY <1>1, <1>4, <2>1
<1> HIDE DEF l
<1>6. Kept(l, DOMAIN asset) = l
  BY <1>4, <1>5, KeptRising
<1> QED
  BY <1>2, <1>6 DEF OnFile, l

\* A page of consecutive ids is a slice of the list of all of them.
LEMMA PageOfIds ==
  ASSUME Recounted, NEW a \in Nat, NEW cap \in Nat \ {0}
  PROVE  OnFile(a + 1, Least(a + 1 + cap, counter + 1) - 1) = Slice(Following(0, counter), a, cap)
<1> DEFINE n == counter
           last == Least(a + 1 + cap, n + 1) - 1
           page == Following(a, last - a)
           all == Following(0, n)
<1>1. n \in Nat
  BY BooksInWords
<1>2. /\ last \in Int /\ last <= n /\ last - a \in Int
      /\ SliceLength(n, a, cap) = IF last - a >= 0 THEN last - a ELSE 0
  <2>1. last = IF a + 1 + cap <= n + 1 THEN a + cap ELSE n
    BY <1>1 DEF Least
  <2>2. SliceLength(n, a, cap) = IF a >= n THEN 0 ELSE IF cap <= n - a THEN cap ELSE n - a
    BY DEF SliceLength, Least
  <2> HIDE DEF last, n
  <2> QED
    BY <1>1, <2>1, <2>2
<1>3. OnFile(a + 1, last) = page
  BY <1>2, OnFileFollows
<1> HIDE DEF last
<1>4. /\ page \in Seq(Nat)
      /\ Len(page) = SliceLength(n, a, cap)
      /\ \A k \in 1..(last - a) : page[k] = a + k
  BY <1>2, FollowingRises
<1>5. all \in Seq(Nat) /\ Len(all) = n /\ \A k \in 1..n : all[k] = k
  BY <1>1, AllNumbers
<1> HIDE DEF page, all, n
<1>6. \A i \in 1..Len(page) : i \in 1..(last - a) /\ a + i \in 1..n
  <2>1. Len(page) = IF last - a >= 0 THEN last - a ELSE 0
    BY <1>2, <1>4
  <2>2. last <= n
    BY <1>2 DEF n
  <2> QED
    BY <1>1, <1>2, <2>1, <2>2
<1>7. IsSlice(page, all, a, cap)
  BY <1>4, <1>5, <1>6 DEF IsSlice
<1>8. page = Slice(all, a, cap)
  BY <1>4, <1>5, <1>7, SliceUnique
<1> QED
  BY <1>3, <1>8 DEF page, all, last, n

\* A page of one of the index lists: its ids are all on file.
LEMMA PageOfIndex ==
  ASSUME Recounted, NEW list \in Seq(1..counter), Rising(list),
         NEW offset \in Nat, NEW limit \in Nat
  PROVE  FetchAssetsPage(list, offset, limit) = Slice(list, offset, limit)
<1>1. counter \in Nat /\ DOMAIN asset = 1..counter
  BY BooksInWords
<1>2. list \in Seq(Nat) /\ \A x : In(x, list) => x \in 1..counter
  <2>1. 1..counter \subseteq Nat
    BY <1>1
  <2>2. \A k \in 1..Len(list) : list[k] \in 1..counter
    BY LenProperties, ElementOfSeq
  <2> QED
    BY <2>1, <2>2, SeqMonotonic DEF In
<1> DEFINE page == Slice(list, offset, limit)
<1>3. page \in Seq(Nat) /\ Rising(page) /\ \A x : In(x, page) => In(x, list)
  BY <1>2, SliceRises
<1> HIDE DEF page
<1>4. Kept(page, DOMAIN asset) = page
  BY <1>1, <1>2, <1>3, KeptRising
<1> QED
  BY <1>4 DEF FetchAssetsPage, Slice, page

LEMMA IndexRises ==
  ASSUME NEW n \in Nat, NEW list \in Seq(1..n), NEW ids, ListsInOrder(list, ids)
  PROVE  list \in Seq(Nat) /\ Rising(list) /\ \A x : In(x, list) <=> x \in ids
<1>1. list \in Seq(Nat)
  <2>1. 1..n \subseteq Nat
    OBVIOUS
  <2> QED
    BY <2>1, SeqMonotonic
<1>2. DOMAIN list = 1..Len(list)
  BY LenProperties
<1> QED
  BY <1>1, <1>2 DEF ListsInOrder, Rising, In

\* The index lists are the views by issuer and by type.
LEMMA IndexIsView ==
  ASSUME Indexed
  PROVE  /\ issuer_index[ReadIssuer] \in Seq(1..counter) /\ Rising(issuer_index[ReadIssuer])
         /\ issuer_index[ReadIssuer] = Shown("issuer", counter, asset)
         /\ type_index[ReadType] \in Seq(1..counter) /\ Rising(type_index[ReadType])
         /\ type_index[ReadType] = Shown("type", counter, asset)
<1> DEFINE il == issuer_index[ReadIssuer]
           tl == type_index[ReadType]
           is == Shown("issuer", counter, asset)
           ts == Shown("type", counter, asset)
<1>1. counter \in Nat /\ asset \in [1..counter -> Entry] /\ DOMAIN asset = 1..counter
  BY BooksInWords DEF Indexed
<1>2. il \in Seq(1..counter) /\ tl \in Seq(1..counter)
  BY ReaderAssumption DEF Indexed, Recounted, TypeOK
<1>3. ListsInOrder(il, IssuedBy(asset, ReadIssuer)) /\ ListsInOrder(tl, OfType(asset, ReadType))
  BY ReaderAssumption DEF Indexed, IndexesMatchEntries, IssuedBy, OfType
<1>4. /\ \A x : x \in IssuedBy(asset, ReadIssuer) <=> x \in 1..counter /\ Shows("issuer", asset[x])
      /\ \A x : x \in OfType(asset, ReadType) <=> x \in 1..counter /\ Shows("type", asset[x])
  BY <1>1 DEF IssuedBy, OfType, Shows
<1>5. /\ is \in Seq(Nat) /\ Rising(is)
      /\ \A x : In(x, is) <=> x \in 1..counter /\ Shows("issuer", asset[x])
      /\ ts \in Seq(Nat) /\ Rising(ts)
      /\ \A x : In(x, ts) <=> x \in 1..counter /\ Shows("type", asset[x])
  BY <1>1, ShownRises
<1> HIDE DEF il, tl, is, ts
<1>6. /\ il \in Seq(Nat) /\ Rising(il) /\ \A x : In(x, il) <=> x \in IssuedBy(asset, ReadIssuer)
      /\ tl \in Seq(Nat) /\ Rising(tl) /\ \A x : In(x, tl) <=> x \in OfType(asset, ReadType)
  BY <1>1, <1>2, <1>3, IndexRises
<1>7. il = is
  BY <1>4, <1>5, <1>6, RisingEqual
<1>8. tl = ts
  BY <1>4, <1>5, <1>6, RisingEqual
<1> QED
  BY <1>2, <1>6, <1>7, <1>8 DEF il, tl, is, ts

\* Where the client goes on, and how much it can get.
Paged == {"issuer", "type"}

Cap(view, size) == IF view \in Paged THEN Least(size, MAX_PAGE_SIZE) ELSE
                   IF view = "ids" THEN Least(size, MAX_PAGE_SIZE) ELSE CappedPage(size)

Asked(view, size, walk) ==
    IF view \in Paged THEN walk.replies * Cap(view, size) ELSE Len(walk.seen)

LEMMA CapPositive ==
  ASSUME NEW view, NEW size \in PageSize
  PROVE  Cap(view, size) \in Nat \ {0}
<1>1. size \in Nat \ {0} /\ MAX_PAGE_SIZE \in Nat \ {0}
  BY ReaderAssumption, ConstantsAssumption
<1> QED
  BY <1>1 DEF Cap, Least, CappedPage

LEMMA PublishedView ==
  ASSUME NEW view \in View
  PROVE  Published[view] = Shown(view, counter, asset)
BY DEF Published, Shown

\* All the ids, and none hidden.
LEMMA AllShown ==
  ASSUME Recounted, NEW view \in {"ids", "positions"}
  PROVE  Shown(view, counter, asset) = Following(0, counter)
<1>1. counter \in Nat /\ asset \in [1..counter -> Entry]
  BY BooksInWords
<1>2. /\ Shown(view, counter, asset) \in Seq(Nat) /\ Rising(Shown(view, counter, asset))
      /\ \A x : In(x, Shown(view, counter, asset)) <=> x \in 1..counter /\ Shows(view, asset[x])
  BY <1>1, ShownRises
<1>3. /\ Following(0, counter) \in Seq(Nat) /\ Rising(Following(0, counter))
      /\ \A x : In(x, Following(0, counter)) <=> x \in 1..counter
  BY <1>1, AllNumbers
<1>4. \A x : Shows(view, asset[x])
  BY DEF Shows
<1> QED
  BY <1>2, <1>3, <1>4, RisingEqual

\* The active entries, or the inactive ones, are filtered out of all of them
\* before the page is cut.
LEMMA PageOfFiltered ==
  ASSUME Recounted, NEW flag \in BOOLEAN, NEW view,
         view = IF flag THEN "active" ELSE "inactive",
         NEW offset \in Nat, NEW size \in PageSize
  PROVE  GetActiveAssetsPage(offset, size, flag)
             = Slice(Shown(view, counter, asset), offset, CappedPage(size))
<1>1. counter \in Nat /\ asset \in [1..counter -> Entry] /\ DOMAIN asset = 1..counter
  BY BooksInWords
<1>2. OnFile(1, counter) = [k \in 1..counter |-> k]
  <2>1. 0 \in Nat /\ counter \in Int /\ counter <= counter /\ 0 + 1 = 1 /\ counter - 0 = counter
    BY <1>1
  <2>2. OnFile(0 + 1, counter) = Following(0, counter - 0)
    BY <2>1, OnFileFollows
  <2> QED
    BY <2>1, <2>2 DEF Following
<1>3. {id \in DOMAIN asset : asset[id].active = flag} = {id \in DOMAIN asset : Shows(view, asset[id])}
  <2>1. \A id \in DOMAIN asset : asset[id].active \in BOOLEAN
    BY <1>1 DEF Entry
  <2>2. \A id \in DOMAIN asset : asset[id].active = flag <=> Shows(view, asset[id])
    BY <2>1 DEF Shows
  <2> QED
    BY <2>2
<1>4. Kept(OnFile(1, counter), {id \in DOMAIN asset : asset[id].active = flag})
          = Shown(view, counter, asset)
  BY <1>2, <1>3 DEF Shown
<1> QED
  BY <1>4 DEF GetActiveAssetsPage, Slice

\* Every page is the slice of the view, as it stands, from the position the
\* client asks for.
LEMMA NextPageIsSlice ==
  ASSUME Indexed, NEW view \in View, NEW size \in PageSize, NEW S, NEW walk \in WalkOf(S)
  PROVE  NextPage(view, size, walk)
             = Slice(Published[view], Asked(view, size, walk), Cap(view, size))
<1>0. Recounted
  BY DEF Indexed
<1>1. Len(walk.seen) \in Nat /\ walk.replies \in Nat
  BY LenProperties DEF WalkOf
<1>2. Published[view] = Shown(view, counter, asset)
  BY PublishedView
<1>3. Cap(view, size) \in Nat \ {0}
  BY CapPositive
<1> DEFINE n == Len(walk.seen)
           r == walk.replies
           cap == Cap(view, size)
<1>4. CASE view = "ids"
  <2>1. NextPage(view, size, walk) = OnFile(n + 1, Least(n + 1 + cap, counter + 1) - 1)
    <3>1. ~(n + 1 < 1)
      BY <1>1
    <3> QED
      BY <1>4, <3>1 DEF NextPage, GetAllAssets, Cap, Paged
  <2>2. Asked(view, size, walk) = n
    BY <1>4 DEF Asked, Paged
  <2> HIDE DEF n, cap
  <2> QED
    BY <1>0, <1>1, <1>2, <1>3, <1>4, <2>1, <2>2, AllShown, PageOfIds DEF n, cap
<1>5. CASE view = "positions"
  <2>1. NextPage(view, size, walk) = OnFile(n + 1, Least(n + 1 + cap, counter + 1) - 1)
    BY <1>5 DEF NextPage, GetAssetsPage, Cap, Paged
  <2>2. Asked(view, size, walk) = n
    BY <1>5 DEF Asked, Paged
  <2> HIDE DEF n, cap
  <2> QED
    BY <1>0, <1>1, <1>2, <1>3, <1>5, <2>1, <2>2, AllShown, PageOfIds DEF n, cap
<1>6. CASE view \in {"active", "inactive"}
  <2> DEFINE flag == view = "active"
  <2>1. NextPage(view, size, walk) = GetActiveAssetsPage(n, size, flag)
    BY <1>6 DEF NextPage
  <2>2. Asked(view, size, walk) = n /\ cap = CappedPage(size)
    BY <1>6 DEF Asked, Paged, Cap
  <2>3. flag \in BOOLEAN /\ view = IF flag THEN "active" ELSE "inactive"
    BY <1>6
  <2> HIDE DEF n, cap, flag
  <2>4. GetActiveAssetsPage(n, size, flag)
            = Slice(Shown(view, counter, asset), n, CappedPage(size))
    BY <1>0, <1>1, <2>3, PageOfFiltered DEF n
  <2> QED
    BY <1>2, <2>1, <2>2, <2>4 DEF cap
<1>7. CASE view \in Paged
  <2>1. r * cap \in Nat /\ cap \in Nat
    BY <1>1, <1>3, ProductsNatural
  <2>2. Asked(view, size, walk) = r * cap /\ cap = Least(size, MAX_PAGE_SIZE)
    BY <1>7 DEF Asked, Cap
  <2>3. CASE view = "issuer"
    <3>1. NextPage(view, size, walk) = FetchAssetsPage(issuer_index[ReadIssuer], r * cap, cap)
      BY <2>2, <2>3 DEF NextPage, GetAssetsByIssuerPage
    <3> HIDE DEF r, cap
    <3> QED
      BY <1>0, <1>2, <2>1, <2>2, <2>3, <3>1, IndexIsView, PageOfIndex DEF cap
  <2>4. CASE view = "type"
    <3>1. NextPage(view, size, walk) = FetchAssetsPage(type_index[ReadType], r * cap, cap)
      BY <2>2, <2>4 DEF NextPage, GetAssetsByTypePage
    <3> HIDE DEF r, cap
    <3> QED
      BY <1>0, <1>2, <2>1, <2>2, <2>4, <3>1, IndexIsView, PageOfIndex DEF cap
  <2> QED
    BY <1>7, <2>3, <2>4 DEF Paged
<1> QED
  BY <1>4, <1>5, <1>6, <1>7, ReaderAssumption DEF Paged

-----------------------------------------------------------------------------
(* The reader. *)

Ids == 1..MaxAssets

LEMMA PublishedRises ==
  ASSUME Recounted, NEW view \in View
  PROVE  /\ Published[view] \in Seq(Ids) /\ Published[view] \in Seq(Nat)
         /\ Rising(Published[view]) /\ Distinct(Published[view])
         /\ \A x : In(x, Published[view]) <=> x \in 1..counter /\ Shows(view, asset[x])
         /\ IsFiniteSet(Ids) /\ Cardinality(Ids) = MaxAssets /\ MaxAssets \in Nat
<1> DEFINE list == Shown(view, counter, asset)
<1>1. counter \in Nat /\ asset \in [1..counter -> Entry] /\ 1..counter \subseteq Ids
  <2>1. counter \in 0..MaxAssets /\ MaxAssets \in Nat
    BY ConstantsAssumption DEF Recounted, TypeOK
  <2> QED
    BY <2>1, BooksInWords DEF Ids
<1>2. /\ list \in Seq(Nat) /\ Rising(list)
      /\ \A x : In(x, list) <=> x \in 1..counter /\ Shows(view, asset[x])
  BY <1>1, ShownRises
<1>3. Published[view] = list
  BY PublishedView
<1> HIDE DEF list
<1>4. list \in Seq(Ids)
  BY <1>1, <1>2, ListOfIds
<1>5. IsFiniteSet(Ids) /\ Cardinality(Ids) = MaxAssets /\ MaxAssets \in Nat
  <2>1. MaxAssets \in Nat
    BY ConstantsAssumption
  <2> QED
    BY <2>1, FS_Interval DEF Ids
<1>6. Distinct(list)
  BY <1>2, RisingOrder
<1> QED
  BY <1>2, <1>3, <1>4, <1>5, <1>6

\* What a call does to a view: those of the entries in it before and after
\* keep their order; and unless it is filtered, it only grows at its end.
LEMMA ViewChanges ==
  ASSUME Indexed, [Next]_vars, NEW view \in View
  PROVE  /\ Published'[view] \in Seq(Ids) /\ Distinct(Published'[view])
         /\ SameOrder(Published[view], Published'[view])
         /\ view \notin Filtered => Extends(Published[view], Published'[view])
<1> DEFINE l == Published[view]
           m == Published'[view]
<1>1. Recounted /\ Recounted'
  BY NextRecounted DEF Indexed
<1>2. /\ l \in Seq(Nat) /\ Rising(l)
      /\ \A x : In(x, l) <=> x \in 1..counter /\ Shows(view, asset[x])
  BY <1>1, PublishedRises
<1>3. /\ m \in Seq(Ids) /\ m \in Seq(Nat) /\ Rising(m) /\ Distinct(m)
      /\ \A x : In(x, m) <=> x \in 1..counter' /\ Shows(view, asset'[x])
  <2> DEFINE now == Shown(view, counter', asset')
  <2>1. m = now
    BY DEF Published, Shown
  <2>2. /\ counter' \in Nat /\ asset' \in [1..counter' -> Entry] /\ counter' \in 0..MaxAssets
    <3>1. TypeOK'
      BY <1>1 DEF Recounted
    <3>2. counter' \in 0..MaxAssets /\ asset' \in [1..counter' -> Entry]
      BY <3>1 DEF TypeOK, Entry
    <3> QED
      BY <3>2, ConstantsAssumption
  <2>3. /\ now \in Seq(Nat) /\ Rising(now)
        /\ \A x : In(x, now) <=> x \in 1..counter' /\ Shows(view, asset'[x])
    BY <2>2, ShownRises
  <2> HIDE DEF now
  <2>4. 1..counter' \subseteq Ids
    BY <2>2, ConstantsAssumption DEF Ids
  <2>5. now \in Seq(Ids)
    BY <2>3, <2>4, ListOfIds
  <2>6. Distinct(now)
    BY <2>3, RisingOrder
  <2> QED
    BY <2>1, <2>3, <2>5, <2>6
<1>4. ASSUME view \notin Filtered, NEW x \in 1..counter
      PROVE  x \in 1..counter' /\ (Shows(view, asset'[x]) <=> Shows(view, asset[x]))
  <2>1. asset \in [1..counter -> Entry] /\ asset' \in [1..counter' -> Entry]
    BY <1>1, BooksInWords DEF Recounted, TypeOK, Entry
  <2>2. EntryStep \/ UNCHANGED vars
    BY <1>1, NextByRight
  <2>3. CASE UNCHANGED vars
    BY <2>3 DEF vars, bookVars, indexVars
  <2>4. CASE EntryStep
    <3> DEFINE same == [asset'[x] EXCEPT !.valuation = asset[x].valuation,
                                         !.active = asset[x].active]
    <3>1. x \in DOMAIN asset' /\ same = asset[x]
      BY <2>1, <2>4 DEF EntryStep
    <3>2. same.issuer = asset'[x].issuer /\ same.asset_type = asset'[x].asset_type
      OBVIOUS
    <3> HIDE DEF same
    <3>3. x \in 1..counter' /\ asset'[x].issuer = asset[x].issuer
          /\ asset'[x].asset_type = asset[x].asset_type
      BY <2>1, <3>1, <3>2
    <3> QED
      BY <1>4, <3>3 DEF Shows, Filtered
  <2> QED
    BY <2>2, <2>3, <2>4
<1>5. counter \in Nat /\ counter' \in Nat
  BY <1>1, BooksInWords DEF Recounted, TypeOK
<1> HIDE DEF l, m
<1>6. SameOrder(l, m)
  BY <1>2, <1>3, RisingSameOrder
<1>7. ASSUME view \notin Filtered PROVE Extends(l, m)
  <2>1. \A x : In(x, l) => In(x, m)
    BY <1>2, <1>3, <1>4, <1>7
  <2>2. ASSUME NEW x, NEW y, In(x, m), ~In(x, l), In(y, l) PROVE y < x
    <3>1. x \in 1..counter' /\ x \notin 1..counter /\ y \in 1..counter
      BY <1>2, <1>3, <1>4, <1>7, <2>2
    <3> QED
      BY <1>5, <3>1
  <2> QED
    BY <1>2, <1>3, <2>1, <2>2, RisingExtends
<1> QED
  BY <1>3, <1>6, <1>7 DEF l, m

\* The inductive invariant of a walk.
OnCourse(list, view, size, walk) ==
    /\ walk \in WalkOf(Ids)
    /\ IF view \in Filtered
       THEN IF walk.done THEN Settled(walk) ELSE \E c : CutAt(list, walk, c, MaxAssets)
       ELSE IF walk.done THEN SeenAll(walk) ELSE Follows(list, walk, Asked(view, size, walk))

WalkOnCourse ==
    \/ reader = NoWalk
    \/ /\ reader \in [view : View, size : PageSize, walk : WalkOf(Ids)]
       /\ OnCourse(Published[reader.view], reader.view, reader.size, reader.walk)

ReaderInv == Indexed /\ WalkOnCourse

LEMMA StartOnCourse ==
  ASSUME Recounted, NEW view \in View, NEW size \in PageSize
  PROVE  OnCourse(Published[view], view, size, NewWalk(Published[view]))
<1> DEFINE list == Published[view]
           walk == NewWalk(list)
<1>1. /\ list \in Seq(Ids) /\ IsFiniteSet(Ids) /\ MaxAssets \in Nat
  BY PublishedRises
<1> HIDE DEF list
<1>2. /\ walk \in WalkOf(Ids) /\ ~walk.done
      /\ CutAt(list, walk, 0, MaxAssets)
  BY <1>1, NewWalkCut
<1>3. /\ walk.replies = 0 /\ walk.seen = <<>> /\ Follows(list, walk, 0)
  BY <1>1, NewWalkFollows
<1> HIDE DEF walk
<1>4. Asked(view, size, walk) = 0
  <2>1. Cap(view, size) \in Nat
    BY CapPositive
  <2>2. 0 * Cap(view, size) = 0
    BY <2>1
  <2> QED
    BY <1>3, <2>2, EmptyList DEF Asked
<1> QED
  BY <1>2, <1>3, <1>4 DEF OnCourse, walk, list

LEMMA RequestOnCourse ==
  ASSUME Indexed, NEW view \in View, NEW size \in PageSize, NEW walk,
         OnCourse(Published[view], view, size, walk), ~walk.done
  PROVE  OnCourse(Published[view], view, size, Received(walk, NextPage(view, size, walk)))
<1> DEFINE list == Published[view]
           pos == Asked(view, size, walk)
           cap == Cap(view, size)
           reply == NextPage(view, size, walk)
           after == Received(walk, reply)
<1>0. Recounted
  BY DEF Indexed
<1>1. /\ list \in Seq(Ids) /\ Distinct(list) /\ IsFiniteSet(Ids) /\ MaxAssets \in Nat
      /\ Cardinality(Ids) = MaxAssets
  BY <1>0, PublishedRises
<1>2. walk \in WalkOf(Ids) /\ cap \in Nat \ {0}
  BY CapPositive DEF OnCourse
<1>3. walk.replies \in Nat /\ Len(walk.seen) \in Nat
  BY <1>2, LenProperties DEF WalkOf
<1>4. pos \in Nat
  BY <1>2, <1>3, ProductsNatural DEF Asked
<1>5. reply = Slice(list, pos, cap)
  BY <1>2, NextPageIsSlice
<1> HIDE DEF list, cap, reply
<1>6. CASE view \in Filtered
  <2>1. PICK c : CutAt(list, walk, c, MaxAssets)
    BY <1>6 DEF OnCourse, list
  <2>2. pos = Len(walk.seen)
    BY <1>6 DEF Asked, Paged, Filtered
  <2>3. reply = Slice(list, Len(walk.seen), cap)
    BY <1>5, <2>2
  <2>4. Cardinality(Ids) <= MaxAssets
    BY <1>1
  <2> HIDE DEF pos
  <2>5. /\ after \in WalkOf(Ids)
        /\ after.done => Settled(after)
        /\ ~after.done => \E d : CutAt(list, after, d, MaxAssets)
    <3>1. /\ after \in WalkOf(Ids)
          /\ after.done => Settled(after)
          /\ ~after.done => \E d : /\ CutAt(list, after, d, MaxAssets)
                                   /\ NoneAhead(walk, c) => NoneAhead(after, d)
      BY <1>1, <1>2, <2>1, <2>3, <2>4, CutReceived
    <3> HIDE DEF after
    <3>2. ASSUME ~after.done PROVE \E d : CutAt(list, after, d, MaxAssets)
      <4>1. PICK d : /\ CutAt(list, after, d, MaxAssets)
                     /\ NoneAhead(walk, c) => NoneAhead(after, d)
        BY <3>1, <3>2
      <4> QED
        BY <4>1
    <3> QED
      BY <3>1, <3>2
  <2> HIDE DEF after
  <2>6. OnCourse(list, view, size, after)
    BY <1>6, <2>5 DEF OnCourse
  <2> QED
    BY <2>6 DEF list, after, reply
<1>7. CASE view \notin Filtered
  <2>1. Follows(list, walk, pos)
    BY <1>7 DEF OnCourse, list
  <2> HIDE DEF pos
  <2>2. /\ Adds(after, walk, reply, Ids)
        /\ after.done => SeenAll(after)
        /\ ~after.done => Follows(list, after, pos + Len(reply)) /\ Follows(list, after, pos + cap)
    BY <1>1, <1>2, <1>4, <1>5, <2>1, GrownReceived
  <2> HIDE DEF after
  <2>3. /\ after \in WalkOf(Ids) /\ after.replies = walk.replies + 1
        /\ Len(after.seen) = Len(walk.seen) + Len(reply)
    BY <2>2 DEF Adds
  <2>4. Asked(view, size, after) = pos + Len(reply) \/ Asked(view, size, after) = pos + cap
    <3>1. CASE view \in Paged
      <4>1. (walk.replies + 1) * cap = walk.replies * cap + cap
        BY <1>2, <1>3
      <4> QED
        BY <2>3, <3>1, <4>1 DEF Asked, pos, cap
    <3>2. CASE view \notin Paged
      BY <2>3, <3>2 DEF Asked, pos
    <3> QED
      BY <3>1, <3>2
  <2>5. ~after.done => Follows(list, after, Asked(view, size, after))
    BY <2>2, <2>4
  <2>6. OnCourse(list, view, size, after)
    BY <1>7, <2>2, <2>3, <2>5 DEF OnCourse
  <2> QED
    BY <2>6 DEF list, after, reply
<1> QED
  BY <1>6, <1>7

LEMMA StepOnCourse ==
  ASSUME Indexed, [Next]_vars, NEW view \in View, NEW size, NEW walk,
         OnCourse(Published[view], view, size, walk)
  PROVE  OnCourse(Published'[view], view, size,
                  Overtaken(walk, Published[view], Published'[view], MaxAssets))
<1> DEFINE l == Published[view]
           m == Published'[view]
           after == Overtaken(walk, l, m, MaxAssets)
<1>1. /\ l \in Seq(Ids) /\ Distinct(l) /\ IsFiniteSet(Ids) /\ MaxAssets \in Nat
  BY PublishedRises DEF Indexed
<1>2. /\ m \in Seq(Ids) /\ Distinct(m) /\ SameOrder(l, m)
      /\ view \notin Filtered => Extends(l, m)
  BY ViewChanges
<1> HIDE DEF l, m
<1>3. OnCourse(l, view, size, walk) /\ walk \in WalkOf(Ids)
  BY DEF OnCourse, l
<1>4. CASE walk.done
  <2>1. after = walk
    BY <1>4 DEF Overtaken
  <2>2. OnCourse(m, view, size, walk)
    BY <1>3, <1>4 DEF OnCourse
  <2> QED
    BY <2>1, <2>2 DEF l, m
<1>5. CASE ~walk.done /\ view \in Filtered
  <2>1. PICK c : CutAt(l, walk, c, MaxAssets)
    BY <1>3, <1>5 DEF OnCourse
  <2>2. after \in WalkOf(Ids) /\ ~after.done /\ \E d : CutAt(m, after, d, MaxAssets)
    <3>1. /\ after \in WalkOf(Ids) /\ ~after.done
          /\ \E d : /\ CutAt(m, after, d, MaxAssets)
                    /\ NewLast(l, m) /\ NoneAhead(walk, c) => NoneAhead(after, d)
      BY <1>1, <1>2, <1>3, <1>5, <2>1, CutOvertaken
    <3> HIDE DEF after
    <3>2. PICK d : /\ CutAt(m, after, d, MaxAssets)
                   /\ NewLast(l, m) /\ NoneAhead(walk, c) => NoneAhead(after, d)
      BY <3>1
    <3> QED
      BY <3>1, <3>2
  <2> HIDE DEF after
  <2>3. OnCourse(m, view, size, after)
    BY <1>5, <2>2 DEF OnCourse
  <2> QED
    BY <2>3 DEF l, m, after
<1>6. CASE ~walk.done /\ view \notin Filtered
  <2> DEFINE pos == Asked(view, size, walk)
  <2>1. Follows(l, walk, pos)
    BY <1>3, <1>6 DEF OnCourse
  <2> HIDE DEF pos
  <2>2. /\ after \in WalkOf(Ids) /\ ~after.done
        /\ after.seen = walk.seen /\ after.replies = walk.replies
        /\ Follows(m, after, pos)
    BY <1>1, <1>2, <1>3, <1>6, <2>1, GrowsUnderWalk
  <2> HIDE DEF after
  <2>3. Asked(view, size, after) = pos
    BY <2>2 DEF Asked, pos
  <2>4. OnCourse(m, view, size, after)
    BY <1>6, <2>2, <2>3 DEF OnCourse
  <2> QED
    BY <2>4 DEF l, m, after
<1> QED
  BY <1>4, <1>5, <1>6

LEMMA OnCourseIsWalk ==
  ASSUME NEW list, NEW view, NEW size, NEW walk, OnCourse(list, view, size, walk)
  PROVE  walk \in WalkOf(Ids)
BY DEF OnCourse

LEMMA NextReaderInv == ReaderInv /\ [ReaderNext]_readerVars => ReaderInv'
<1> SUFFICES ASSUME ReaderInv, [ReaderNext]_readerVars PROVE ReaderInv'
  OBVIOUS
<1>0. Indexed /\ Recounted /\ WalkOnCourse
  BY DEF ReaderInv, Indexed
<1>1. "none" \notin View
  BY ReaderAssumption
<1>2. CASE RegistryStep
  <2>1. [Next]_vars /\ Indexed'
    BY <1>0, <1>2, NextIndexed DEF RegistryStep
  <2>2. CASE reader.view = "none"
    <3>1. reader' = reader /\ reader = NoWalk
      BY <1>0, <1>1, <1>2, <2>2 DEF RegistryStep, WalkOnCourse
    <3>2. WalkOnCourse'
      BY <3>1 DEF WalkOnCourse, NoWalk, NewWalk
    <3> QED
      BY <2>1, <3>2 DEF ReaderInv
  <2>3. CASE reader.view # "none"
    <3> DEFINE view == reader.view
               walk == reader.walk
               after == Overtaken(walk, Published[view], Published'[view], MaxAssets)
    <3>1. /\ reader \in [view : View, size : PageSize, walk : WalkOf(Ids)]
          /\ OnCourse(Published[view], view, reader.size, walk)
      BY <1>0, <2>3 DEF WalkOnCourse, NoWalk
    <3>2. reader' = [reader EXCEPT !.walk = after]
      BY <1>2, <2>3 DEF RegistryStep
    <3>3. view \in View
      BY <3>1
    <3>4. OnCourse(Published'[view], view, reader.size, after)
      <4> HIDE DEF view, walk
      <4> QED
        BY <1>0, <2>1, <3>1, <3>3, StepOnCourse DEF walk
    <3>5. after \in WalkOf(Ids)
      BY <3>4, OnCourseIsWalk
    <3> HIDE DEF after
    <3>6. /\ reader' \in [view : View, size : PageSize, walk : WalkOf(Ids)]
          /\ reader'.view = view /\ reader'.size = reader.size /\ reader'.walk = after
      BY <3>1, <3>2, <3>5
    <3>7. WalkOnCourse'
      BY <3>4, <3>6 DEF WalkOnCourse
    <3> QED
      BY <2>1, <3>7 DEF ReaderInv
  <2> QED
    BY <2>2, <2>3
<1>3. ASSUME NEW v \in View, NEW n \in PageSize, StartWalk(v, n) PROVE ReaderInv'
  <2> DEFINE walk == NewWalk(Published[v])
  <2>1. /\ reader' = [view |-> v, size |-> n, walk |-> walk] /\ UNCHANGED vars
    BY <1>3 DEF StartWalk
  <2>2. OnCourse(Published[v], v, n, walk)
    BY <1>0, StartOnCourse
  <2>3. walk \in WalkOf(Ids)
    BY <2>2, OnCourseIsWalk
  <2>4. Indexed' /\ Published' = Published
    BY <1>0, <2>1, NextIndexed DEF vars, bookVars, indexVars, Published
  <2> HIDE DEF walk
  <2>5. /\ reader' \in [view : View, size : PageSize, walk : WalkOf(Ids)]
        /\ reader'.view = v /\ reader'.size = n /\ reader'.walk = walk
    BY <2>1, <2>3
  <2> QED
    BY <2>2, <2>4, <2>5 DEF ReaderInv, WalkOnCourse
<1>4. CASE Request
  <2> DEFINE view == reader.view
             walk == reader.walk
             size == reader.size
             after == Received(walk, NextPage(view, size, walk))
  <2>1. /\ reader.view # "none" /\ ~walk.done /\ UNCHANGED vars
        /\ reader' = [reader EXCEPT !.walk = after]
    BY <1>4 DEF Request
  <2>2. /\ reader \in [view : View, size : PageSize, walk : WalkOf(Ids)]
        /\ OnCourse(Published[view], view, size, walk)
    BY <1>0, <2>1 DEF WalkOnCourse, NoWalk
  <2>3. view \in View /\ size \in PageSize
    BY <2>2
  <2>4. OnCourse(Published[view], view, size, after)
    <3> HIDE DEF view, size, walk
    <3> QED
      BY <1>0, <2>1, <2>2, <2>3, RequestOnCourse
  <2>5. after \in WalkOf(Ids)
    BY <2>4, OnCourseIsWalk
  <2>6. Indexed' /\ Published' = Published
    BY <1>0, <2>1, NextIndexed DEF vars, bookVars, indexVars, Published
  <2> HIDE DEF after
  <2>7. /\ reader' \in [view : View, size : PageSize, walk : WalkOf(Ids)]
        /\ reader'.view = view /\ reader'.size = size /\ reader'.walk = after
    BY <2>1, <2>2, <2>5
  <2> QED
    BY <2>4, <2>6, <2>7 DEF ReaderInv, WalkOnCourse
<1>5. CASE UNCHANGED readerVars
  <2>1. UNCHANGED vars /\ reader' = reader
    BY <1>5 DEF readerVars
  <2>2. Indexed' /\ Published' = Published
    BY <1>0, <2>1, NextIndexed DEF vars, bookVars, indexVars, Published
  <2> QED
    BY <1>0, <2>1, <2>2 DEF ReaderInv, WalkOnCourse, NoWalk, NewWalk
<1> QED
  BY <1>2, <1>3, <1>4, <1>5 DEF ReaderNext

\* Walking the ids, or the assets of one issuer or of one type, a client sees
\* every asset on file when it began, and none twice, however many are
\* registered, re-appraised and switched meanwhile; walking the active or
\* the inactive ones, it misses at most one for every one that left the view
\* under it, and is told twice of at most one for every one that entered.
THEOREM WalksSeeWhatStayed == ReaderSpec => []WalkSeesWhatStayed
<1>1. ReaderInit => ReaderInv
  <2>1. Init => Indexed
    BY InitRecounted, InitIndexed DEF Indexed
  <2> QED
    BY <2>1 DEF ReaderInit, ReaderInv, WalkOnCourse
<1>2. ReaderInv => WalkSeesWhatStayed
  <2> SUFFICES ASSUME ReaderInv PROVE WalkSeesWhatStayed
    OBVIOUS
  <2>1. CASE reader = NoWalk
    <3> DEFINE walk == NewWalk(<<>>)
    <3>1. walk.stayed = {} /\ ~walk.done
      BY DEF NewWalk, Items
    <3> HIDE DEF walk
    <3>2. Missed(walk) = {} /\ Repeated(walk) = {}
      BY <3>1 DEF Missed, Repeated
    <3>3. reader.view \notin Filtered /\ reader.walk = walk
      BY <2>1 DEF NoWalk, Filtered, walk
    <3> QED
      BY <3>2, <3>3 DEF WalkSeesWhatStayed
  <2>2. CASE /\ reader \in [view : View, size : PageSize, walk : WalkOf(Ids)]
             /\ OnCourse(Published[reader.view], reader.view, reader.size, reader.walk)
    <3> DEFINE view == reader.view
               walk == reader.walk
               list == Published[view]
    <3>1. walk \in WalkOf(Ids) /\ OnCourse(list, view, reader.size, walk)
      BY <2>2
    <3>2. MaxAssets \in Nat /\ IsFiniteSet(Ids) /\ Cardinality(Ids) <= MaxAssets
      <4>1. MaxAssets \in Nat
        BY ConstantsAssumption
      <4> QED
        BY <4>1, FS_Interval DEF Ids
    <3> HIDE DEF view, walk, list
    <3>3. CASE view \in Filtered
      <4>1. Settled(walk)
        BY <3>1, <3>2, <3>3, CutSettles DEF OnCourse
      <4> QED
        BY <3>3, <4>1 DEF WalkSeesWhatStayed, Settled, view, walk
    <3>4. CASE view \notin Filtered
      <4>1. SeenAll(walk)
        BY <3>1, <3>4, FollowsSees DEF OnCourse
      <4> QED
        BY <3>4, <4>1 DEF WalkSeesWhatStayed, SeenAll, view, walk
    <3> QED
      BY <3>3, <3>4
  <2> QED
    BY <2>1, <2>2 DEF ReaderInv, WalkOnCourse
<1> QED
  BY <1>1, <1>2, NextReaderInv, PTL DEF ReaderSpec
=============================================================================
