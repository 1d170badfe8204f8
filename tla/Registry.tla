------------------------------ MODULE Registry ------------------------------
(***************************************************************************)
(* The registry contract: an index of the asset tokens of the platform.    *)
(* Issuers register a token under the next id; the registry's admin, or    *)
(* the admin the token itself names, takes it out of and back into the     *)
(* active list; the admin re-appraises it.  Beside the entries the         *)
(* contract stores what it could derive from them: a counter, the number   *)
(* of active entries, the total value locked, and lists of ids by issuer   *)
(* and by type.                                                            *)
(*                                                                         *)
(* One action is one successful invocation; a panicking one is reverted    *)
(* and is a stuttering step.  Names (length checks), created_at, events    *)
(* and TTL extensions are left out.                                        *)
(***************************************************************************)
EXTENDS Lists, Totals

CONSTANTS
    Address, NoAddress,
    TokenContract,
    VALID_ASSET_TYPES,
    MAX_PAGE_SIZE, I128Max,
    \* the inputs a model tries
    Registration,        \* [issuer, token_contract, asset_type]
    Valuation, Nominee,
    AssetAdmin,          \* admins of the tokens at the start, NoAddress for none
    MaxAssets

I128 == (-I128Max - 1)..I128Max

ASSUME ConstantsAssumption ==
    /\ IsFiniteSet(Address)
    /\ NoAddress \notin Address
    /\ MAX_PAGE_SIZE \in Nat \ {0}
    /\ I128Max \in Nat
    /\ \A r \in Registration : r.issuer \in Address /\ r.token_contract \in TokenContract
    /\ Valuation \subseteq I128
    /\ Nominee \subseteq Address
    /\ AssetAdmin \in [TokenContract -> Address \union {NoAddress}]
    /\ MaxAssets \in Nat

VARIABLES
    admin, pending_admin,
    asset,              \* DataKey::Asset, a function of the registered ids
    counter,            \* DataKey::Counter, the last id assigned
    active_count, total_valuation,
    issuer_index, type_index, token_index,
    \* environment
    asset_admin,        \* admin in the metadata of each token, if it has any
    signer

roleVars == <<admin, pending_admin>>
totalVars == <<active_count, total_valuation>>
indexVars == <<counter, issuer_index, type_index, token_index>>
bookVars == <<asset, totalVars, indexVars>>
vars == <<roleVars, bookVars, asset_admin, signer>>

Init ==
    /\ admin = NoAddress
    /\ pending_admin = NoAddress
    /\ asset = [id \in {} |-> {}]
    /\ counter = 0
    /\ active_count = 0
    /\ total_valuation = 0
    /\ issuer_index = [a \in Address |-> <<>>]
    /\ type_index = [t \in VALID_ASSET_TYPES |-> <<>>]
    /\ token_index = [t \in TokenContract |-> 0]
    /\ asset_admin = AssetAdmin
    /\ signer = NoAddress

-----------------------------------------------------------------------------
(* Checks. *)

RequireAuth(a) == signer' = a

Initialized == admin # NoAddress

RequireAdmin(a) == Initialized /\ RequireAuth(a) /\ a = admin

\* Mutant: the issuer on file stands in for the token's present admin.
RequireAdminOrIssuer(a, id) ==
    /\ Initialized
    /\ RequireAuth(a)
    /\ a = admin \/ a = asset[id].issuer

\* The admin of a token is asked of the token itself, at the time of the call.
RequireAdminOrAssetAdmin(a, id) ==
    /\ Initialized
    /\ RequireAuth(a)
    /\ a = admin \/ a = asset_admin[asset[id].token_contract]

\* Mutant: a negative appraisal is accepted.
CheckValuationSigned(valuation) == valuation \in I128

CheckValuation(valuation) == valuation >= 0

-----------------------------------------------------------------------------
(* Queries.  A reply is the sequence of the ids of its entries. *)

\* Entries first..last, those that are on file.
OnFile(first, last) ==
    Kept([k \in 1..(last - first + 1) |-> first + k - 1], DOMAIN asset)

GetAllAssets(start_id, limit) ==
    LET start == IF start_id < 1 THEN 1 ELSE start_id
    IN  OnFile(start, Least(start + Least(limit, MAX_PAGE_SIZE), counter + 1) - 1)

CappedPage(page_size) ==
    IF page_size = 0 \/ page_size > MAX_PAGE_SIZE THEN MAX_PAGE_SIZE ELSE page_size

GetAssetsPage(start_index, page_size) ==
    LET start_id == start_index + 1
    IN  OnFile(start_id, Least(start_id + CappedPage(page_size), counter + 1) - 1)

\* Mutant: the page is cut out of the whole list, then filtered.
GetActiveAssetsPageLate(start_index, page_size, active_only) ==
    Kept(GetAssetsPage(start_index, page_size),
         {id \in DOMAIN asset : asset[id].active = active_only})

\* Positions count in the filtered list.
GetActiveAssetsPage(start_index, page_size, active_only) ==
    LET filtered == Kept(OnFile(1, counter),
                         {id \in DOMAIN asset : asset[id].active = active_only})
    IN  SubSeq(filtered, start_index + 1,
               Least(start_index + CappedPage(page_size), Len(filtered)))

FetchAssetsPage(ids, offset, limit) ==
    Kept(SubSeq(ids, offset + 1, Least(offset + limit, Len(ids))), DOMAIN asset)

GetAssetsByIssuerPage(issuer, page, page_size) ==
    LET capped == Least(page_size, MAX_PAGE_SIZE)
    IN  FetchAssetsPage(issuer_index[issuer], page * capped, capped)

GetAssetsByTypePage(asset_type, page, page_size) ==
    LET capped == Least(page_size, MAX_PAGE_SIZE)
    IN  FetchAssetsPage(type_index[asset_type], page * capped, capped)

-----------------------------------------------------------------------------
Initialize(caller) ==
    /\ ~Initialized
    /\ RequireAuth(caller)
    /\ admin' = caller
    /\ counter' = 0
    /\ active_count' = 0
    /\ total_valuation' = 0
    /\ UNCHANGED <<pending_admin, asset, issuer_index, type_index, token_index, asset_admin>>

\* Mutant: only an active entry stands in the way of a registration.
UnregisteredOrInactive(token) ==
    token_index[token] # 0 => ~asset[token_index[token]].active

Unregistered(token) == token_index[token] = 0

RegisterAsset(issuer, token, asset_type, valuation) ==
    LET id == counter + 1
        entry == [token_contract |-> token, issuer |-> issuer, asset_type |-> asset_type,
                  valuation |-> valuation, active |-> TRUE]
    IN  /\ counter < MaxAssets
        /\ Initialized
        /\ RequireAuth(issuer)
        /\ CheckValuation(valuation)
        /\ asset_type \in VALID_ASSET_TYPES
        /\ Unregistered(token)
        /\ total_valuation + valuation \in I128
        /\ asset' = [i \in DOMAIN asset \union {id} |-> IF i = id THEN entry ELSE asset[i]]
        /\ token_index' = [token_index EXCEPT ![token] = id]
        /\ counter' = id
        /\ active_count' = active_count + 1
        /\ issuer_index' = [issuer_index EXCEPT ![issuer] = Append(@, id)]
        /\ type_index' = [type_index EXCEPT ![asset_type] = Append(@, id)]
        /\ total_valuation' = total_valuation + valuation
        /\ UNCHANGED <<roleVars, asset_admin>>

\* An entry that is inactive already is left alone.
DeactivateAsset(caller, id) ==
    /\ id \in DOMAIN asset
    /\ RequireAdminOrAssetAdmin(caller, id)
    /\ \/ /\ ~asset[id].active
          /\ UNCHANGED bookVars
       \/ /\ asset[id].active
          /\ total_valuation - asset[id].valuation \in I128
          /\ asset' = [asset EXCEPT ![id].active = FALSE]
          /\ active_count' = IF active_count = 0 THEN 0 ELSE active_count - 1
          /\ total_valuation' = total_valuation - asset[id].valuation
          /\ UNCHANGED indexVars
    /\ UNCHANGED <<roleVars, asset_admin>>

\* Mutant: the total follows every re-appraisal, of inactive entries too.
TotalAfterUpdateAlways(id, new_valuation) ==
    total_valuation - asset[id].valuation + new_valuation

TotalAfterUpdate(id, new_valuation) ==
    IF asset[id].active THEN total_valuation - asset[id].valuation + new_valuation
    ELSE total_valuation

UpdateValuation(caller, id, new_valuation) ==
    /\ RequireAdmin(caller)
    /\ CheckValuation(new_valuation)
    /\ id \in DOMAIN asset
    /\ asset[id].active => total_valuation - asset[id].valuation \in I128
    /\ TotalAfterUpdate(id, new_valuation) \in I128
    /\ asset' = [asset EXCEPT ![id].valuation = new_valuation]
    /\ total_valuation' = TotalAfterUpdate(id, new_valuation)
    /\ UNCHANGED <<roleVars, active_count, indexVars, asset_admin>>

ReactivateAsset(caller, id) ==
    /\ id \in DOMAIN asset
    /\ RequireAdminOrAssetAdmin(caller, id)
    /\ \/ /\ asset[id].active
          /\ UNCHANGED bookVars
       \/ /\ ~asset[id].active
          /\ total_valuation + asset[id].valuation \in I128
          /\ asset' = [asset EXCEPT ![id].active = TRUE]
          /\ active_count' = active_count + 1
          /\ total_valuation' = total_valuation + asset[id].valuation
          /\ UNCHANGED indexVars
    /\ UNCHANGED <<roleVars, asset_admin>>

ProposeAdmin(caller, new_admin) ==
    /\ RequireAdmin(caller)
    /\ pending_admin' = new_admin
    /\ UNCHANGED <<admin, bookVars, asset_admin>>

CancelAdminProposal(caller) ==
    /\ RequireAdmin(caller)
    /\ pending_admin # NoAddress
    /\ pending_admin' = NoAddress
    /\ UNCHANGED <<admin, bookVars, asset_admin>>

\* Mutant: the nomination survives its use.
AcceptAdminKeepingPending(new_admin) ==
    /\ RequireAuth(new_admin)
    /\ pending_admin = new_admin
    /\ Initialized
    /\ admin' = new_admin
    /\ UNCHANGED <<pending_admin, bookVars, asset_admin>>

AcceptAdmin(new_admin) ==
    /\ RequireAuth(new_admin)
    /\ pending_admin # NoAddress
    /\ pending_admin = new_admin
    /\ Initialized
    /\ admin' = new_admin
    /\ pending_admin' = NoAddress
    /\ UNCHANGED <<bookVars, asset_admin>>

\* A token's own admin role moves, without a call of the registry.
TokenHandover(token, new_admin) ==
    /\ asset_admin[token] # NoAddress
    /\ asset_admin' = [asset_admin EXCEPT ![token] = new_admin]
    /\ signer' = NoAddress
    /\ UNCHANGED <<roleVars, bookVars>>

-----------------------------------------------------------------------------
AssetStep(caller) ==
    \/ \E r \in Registration, v \in Valuation :
           caller = r.issuer /\ RegisterAsset(caller, r.token_contract, r.asset_type, v)
    \/ \E id \in 1..MaxAssets :
           \/ DeactivateAsset(caller, id)
           \/ ReactivateAsset(caller, id)
           \/ \E v \in Valuation : UpdateValuation(caller, id, v)

AdminStep(caller) ==
    \/ Initialize(caller)
    \/ \E a \in Nominee : ProposeAdmin(caller, a)
    \/ CancelAdminProposal(caller)
    \/ AcceptAdmin(caller)

Next ==
    \/ \E a \in Address : AssetStep(a) \/ AdminStep(a)
    \/ \E t \in TokenContract, a \in Nominee : TokenHandover(t, a)

Spec == Init /\ [][Next]_vars

-----------------------------------------------------------------------------
(* Properties. *)

\* Every variable stays in its type; ids are consecutive from 1.
TypeOK ==
    /\ admin \in Address \union {NoAddress}
    /\ pending_admin \in Address \union {NoAddress}
    /\ counter \in 0..MaxAssets
    /\ asset \in [1..counter -> [token_contract : TokenContract, issuer : Address,
                                 asset_type : VALID_ASSET_TYPES,
                                 valuation : 0..I128Max, active : BOOLEAN]]
    /\ active_count \in 0..MaxAssets
    /\ total_valuation \in 0..I128Max
    /\ issuer_index \in [Address -> Seq(1..counter)]
    /\ type_index \in [VALID_ASSET_TYPES -> Seq(1..counter)]
    /\ token_index \in [TokenContract -> 0..counter]
    /\ asset_admin \in [TokenContract -> Address \union {NoAddress}]
    /\ signer \in Address \union {NoAddress}

Active == {id \in DOMAIN asset : asset[id].active}

LockedValue == [id \in DOMAIN asset |-> IF asset[id].active THEN asset[id].valuation ELSE 0]

\* The running totals are what a recount of the entries would give, after
\* any mix of registrations, re-appraisals of active and inactive entries,
\* and repeated (de)activations; so the saturating decrement and the
\* underflow checks never decide anything.
TotalsMatchEntries ==
    /\ total_valuation = Total(LockedValue)
    /\ active_count = Cardinality(Active)

\* The list has exactly these ids, each once, in rising order.
ListsInOrder(list, ids) ==
    /\ {list[k] : k \in DOMAIN list} = ids
    /\ \A k, m \in DOMAIN list : k < m => list[k] < list[m]

\* Every entry stands once in the list of its issuer and once in the list of
\* its type, in order of registration, and in no other; and the token index
\* points back to it, so that no token is registered, and counted, twice.
IndexesMatchEntries ==
    /\ \A a \in Address :
           ListsInOrder(issuer_index[a], {id \in DOMAIN asset : asset[id].issuer = a})
    /\ \A t \in VALID_ASSET_TYPES :
           ListsInOrder(type_index[t], {id \in DOMAIN asset : asset[id].asset_type = t})
    /\ \A t \in TokenContract :
           {id \in DOMAIN asset : asset[id].token_contract = t} = {token_index[t]} \ {0}

\* An entry never vanishes nor changes hands; it is appraised by the admin
\* only, and switched on or off only by the admin or by whoever administers
\* its token now: not by its issuer, nor by a former admin of either.
EntriesChangeOnlyByRight ==
    [][\A id \in DOMAIN asset :
          /\ id \in DOMAIN asset'
          /\ [asset'[id] EXCEPT !.valuation = asset[id].valuation,
                                !.active = asset[id].active] = asset[id]
          /\ asset'[id].valuation # asset[id].valuation => signer' = admin
          /\ asset'[id].active # asset[id].active =>
                 signer' \in {admin, asset_admin[asset[id].token_contract]}]_vars

\* The admin role follows the two-step handover of AdminHandover.
Handover == INSTANCE AdminHandover
AdminRoleHandover == Handover!Spec
=============================================================================
