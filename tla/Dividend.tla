------------------------------ MODULE Dividend ------------------------------
(***************************************************************************)
(* The dividend contract: an issuer escrows an amount of a payment token   *)
(* together with a frozen list of holders and balances; each holder claims *)
(* its floored share once; the admin may take back what a deadline leaves  *)
(* unclaimed, or cancel before the first claim.  All distributions of one  *)
(* payment token share one account, the contract's own.                    *)
(*                                                                         *)
(* One action is one successful invocation; a panicking one is reverted,   *)
(* payment included, and is a stuttering step.  Events, TTL extensions and *)
(* the created_at field, which nothing reads, are left out.                *)
(***************************************************************************)
EXTENDS Integers, Sequences, Totals

CONSTANTS
    Address, NoAddress,
    Escrow,                     \* the contract's own address
    AssetToken, PaymentToken,
    I128Max,
    \* the inputs a model tries
    TotalAmount, Eligible, Deadline, Nominee, Endowment, Gift,
    MaxDistributions, MaxLedger

ASSUME ConstantsAssumption ==
    /\ IsFiniteSet(Address)
    /\ NoAddress \notin Address
    /\ Escrow \notin Address
    /\ I128Max \in Nat
    /\ TotalAmount \subseteq -I128Max..I128Max
    /\ Eligible \subseteq Seq([holder : Address, balance : -I128Max..I128Max])
    /\ Deadline \subseteq 0..MaxLedger
    /\ Nominee \subseteq Address
    /\ Endowment \in [PaymentToken -> [Address -> 0..I128Max]]
    /\ Gift \subseteq Nat \ {0}
    /\ MaxDistributions \in Nat
    /\ MaxLedger \in Nat

Distribution == [asset_token : AssetToken, payment_token : PaymentToken,
                 total_amount : 1..I128Max, distributed : 0..I128Max,
                 completed : BOOLEAN, deadline : 0..MaxLedger, cancelled : BOOLEAN]

VARIABLES
    admin, pending_admin,
    dist,            \* DataKey::Dist, one entry per id; its length is Counter
    snapshot,        \* DataKey::Snapshot by id, <<>> when absent
    supply,          \* DataKey::Supply by id, 0 when absent
    claimed,         \* the pairs <<id, holder>> with DataKey::Claimed
    asset_ids,       \* DataKey::AssetIds by asset token
    \* environment
    payment,         \* balances of the payment tokens, the escrow's included
    donated,         \* tokens sent to the escrow outside any distribution
    asset_admin, asset_supply,   \* answers of the asset tokens
    ledger, signer,
    funder           \* history: who funded each distribution

roleVars == <<admin, pending_admin>>
bookVars == <<dist, snapshot, supply, claimed, asset_ids, funder>>
moneyVars == <<payment, donated>>
envVars == <<asset_admin, asset_supply, ledger>>
vars == <<roleVars, bookVars, moneyVars, envVars, signer>>

Counter == Len(dist)

Init ==
    /\ admin = NoAddress
    /\ pending_admin = NoAddress
    /\ dist = <<>>
    /\ snapshot = <<>>
    /\ supply = <<>>
    /\ claimed = {}
    /\ asset_ids = [t \in AssetToken |-> <<>>]
    /\ payment = [t \in PaymentToken |->
                     [a \in Address \union {Escrow} |->
                         IF a = Escrow THEN 0 ELSE Endowment[t][a]]]
    /\ donated = [t \in PaymentToken |-> 0]
    /\ asset_admin \in [AssetToken -> Address]
    /\ asset_supply \in [AssetToken -> {0, 1}]
    /\ ledger = 0
    /\ signer = NoAddress
    /\ funder = <<>>

-----------------------------------------------------------------------------
(* Checks and helpers. *)

RequireAuth(a) == signer' = a

Initialized == admin # NoAddress

RequireAdmin(a) == Initialized /\ RequireAuth(a) /\ a = admin

RequireAdminOrAssetAdmin(a, asset) ==
    /\ Initialized
    /\ RequireAuth(a)
    /\ a = admin \/ a = asset_admin[asset]

\* TokenInterface::transfer of the payment token.
Pay(token, from, to, amount) ==
    /\ payment[token][from] >= amount
    /\ payment' = [payment EXCEPT ![token][from] = @ - amount, ![token][to] = @ + amount]
    /\ UNCHANGED donated

SnapshotSupply(eligible) == Total([i \in DOMAIN eligible |-> eligible[i].balance])

\* Mutant: the list is not searched for repeated holders.
ValidEligibleWithRepeats(eligible) ==
    /\ eligible # <<>>
    /\ \A i \in DOMAIN eligible : eligible[i].balance >= 0
    /\ SnapshotSupply(eligible) <= I128Max

\* Mutant: negative balances are added up with the others.
ValidEligibleWithNegatives(eligible) ==
    /\ eligible # <<>>
    /\ \A i, j \in DOMAIN eligible : i # j => eligible[i].holder # eligible[j].holder

ValidEligible(eligible) ==
    /\ eligible # <<>>
    /\ \A i \in DOMAIN eligible : eligible[i].balance >= 0
    /\ \A i, j \in DOMAIN eligible : i # j => eligible[i].holder # eligible[j].holder
    /\ SnapshotSupply(eligible) <= I128Max

SnapshotBalance(id, holder) ==
    LET hits == {i \in DOMAIN snapshot[id] : snapshot[id][i].holder = holder}
    IN  IF hits = {} THEN 0
        ELSE snapshot[id][CHOOSE i \in hits : \A j \in hits : i <= j].balance

HasClaimed(id, holder) == <<id, holder>> \in claimed

\* The product inside claimable is a checked multiplication.
ShareOverflows(id, holder) ==
    dist[id].total_amount * SnapshotBalance(id, holder) > I128Max

\* Mutant: the share is rounded to the nearest unit.
ClaimableRounded(id, holder) ==
    IF HasClaimed(id, holder) \/ supply[id] <= 0 \/ SnapshotBalance(id, holder) <= 0
    THEN 0
    ELSE (2 * dist[id].total_amount * SnapshotBalance(id, holder) + supply[id]) \div (2 * supply[id])

Claimable(id, holder) ==
    IF HasClaimed(id, holder) \/ supply[id] <= 0 \/ SnapshotBalance(id, holder) <= 0
    THEN 0
    ELSE (dist[id].total_amount * SnapshotBalance(id, holder)) \div supply[id]

-----------------------------------------------------------------------------
Initialize(caller) ==
    /\ ~Initialized
    /\ RequireAuth(caller)
    /\ admin' = caller
    /\ UNCHANGED <<pending_admin, bookVars, moneyVars, envVars>>

\* Mutant: the id is taken from the counter before it is advanced.
NextIdStale == Counter

NextId == Counter + 1

CreateDistributionDeadline(caller, asset, token, total, eligible, deadline) ==
    /\ Counter < MaxDistributions
    /\ RequireAdminOrAssetAdmin(caller, asset)
    /\ total > 0
    /\ deadline = 0 \/ deadline >= ledger
    /\ asset_supply[asset] > 0
    /\ ValidEligible(eligible)
    /\ Pay(token, caller, Escrow, total)
    /\ dist' = Append(dist, [asset_token |-> asset, payment_token |-> token,
                             total_amount |-> total, distributed |-> 0,
                             completed |-> FALSE, deadline |-> deadline,
                             cancelled |-> FALSE])
    /\ snapshot' = Append(snapshot, eligible)
    /\ supply' = Append(supply, SnapshotSupply(eligible))
    /\ asset_ids' = [asset_ids EXCEPT ![asset] = Append(@, NextId)]
    /\ funder' = Append(funder, caller)
    /\ UNCHANGED <<roleVars, claimed, envVars>>

CreateDistribution(caller, asset, token, total, eligible) ==
    CreateDistributionDeadline(caller, asset, token, total, eligible, 0)

\* Mutant: the supply of the wrong distribution is removed.
CloseNewest(id) ==
    /\ snapshot' = [snapshot EXCEPT ![id] = <<>>]
    /\ supply' = [supply EXCEPT ![Counter] = 0]

\* The entitlement data of a closed distribution is removed.
Close(id) ==
    /\ snapshot' = [snapshot EXCEPT ![id] = <<>>]
    /\ supply' = [supply EXCEPT ![id] = 0]

ClaimOpen(d) == d.deadline = 0 \/ ledger <= d.deadline

Claim(id, holder) ==
    LET d == dist[id]
        amount == Claimable(id, holder)
        distributed == d.distributed + amount
    IN  /\ RequireAuth(holder)
        /\ ~d.completed
        /\ ClaimOpen(d)
        /\ ~HasClaimed(id, holder)
        /\ ~ShareOverflows(id, holder)
        /\ amount > 0
        /\ claimed' = claimed \union {<<id, holder>>}
        /\ Pay(d.payment_token, Escrow, holder, amount)
        /\ distributed <= d.total_amount
        /\ dist' = [dist EXCEPT ![id].distributed = distributed,
                                ![id].completed = distributed >= d.total_amount]
        /\ IF distributed >= d.total_amount THEN Close(id) ELSE UNCHANGED <<snapshot, supply>>
        /\ UNCHANGED <<roleVars, asset_ids, funder, envVars>>

\* Mutant: the last ledger of the claim window already counts as expired.
ExpiredEarly(d) == d.deadline # 0 /\ ledger >= d.deadline

Expired(d) == d.deadline # 0 /\ ledger > d.deadline

Remaining(d) == d.total_amount - d.distributed

\* Mutant: what holders already claimed is taken out once more.
ReclaimUnclaimedWhole(caller, id) ==
    LET d == dist[id]
    IN  /\ RequireAdmin(caller)
        /\ Expired(d)
        /\ ~d.completed
        /\ Remaining(d) > 0
        /\ Pay(d.payment_token, Escrow, caller, d.total_amount)
        /\ dist' = [dist EXCEPT ![id].distributed = d.total_amount, ![id].completed = TRUE]
        /\ Close(id)
        /\ UNCHANGED <<roleVars, claimed, asset_ids, funder, envVars>>

ReclaimUnclaimed(caller, id) ==
    LET d == dist[id]
        remaining == Remaining(d)
    IN  /\ RequireAdmin(caller)
        /\ Expired(d)
        /\ ~d.completed
        /\ remaining > 0
        /\ Pay(d.payment_token, Escrow, caller, remaining)
        /\ dist' = [dist EXCEPT ![id].distributed = d.total_amount, ![id].completed = TRUE]
        /\ Close(id)
        /\ UNCHANGED <<roleVars, claimed, asset_ids, funder, envVars>>

\* Mutants: an already cancelled, or a partly claimed, distribution qualifies.
CancellableAgain(d) == d.distributed <= 0
CancellableLate(d) == ~d.completed

Cancellable(d) == d.distributed <= 0 /\ ~d.completed

CancelDistribution(caller, id) ==
    LET d == dist[id]
    IN  /\ RequireAdmin(caller)
        /\ Cancellable(d)
        /\ Pay(d.payment_token, Escrow, caller, d.total_amount)
        /\ dist' = [dist EXCEPT ![id].completed = TRUE, ![id].cancelled = TRUE]
        /\ Close(id)
        /\ UNCHANGED <<roleVars, claimed, asset_ids, funder, envVars>>

ProposeAdmin(caller, new_admin) ==
    /\ RequireAdmin(caller)
    /\ pending_admin' = new_admin
    /\ UNCHANGED <<admin, bookVars, moneyVars, envVars>>

CancelAdminProposal(caller) ==
    /\ RequireAdmin(caller)
    /\ pending_admin # NoAddress
    /\ pending_admin' = NoAddress
    /\ UNCHANGED <<admin, bookVars, moneyVars, envVars>>

\* Mutant: the nomination survives its use.
AcceptAdminKeepingPending(new_admin) ==
    /\ RequireAuth(new_admin)
    /\ pending_admin = new_admin
    /\ Initialized
    /\ admin' = new_admin
    /\ UNCHANGED <<pending_admin, bookVars, moneyVars, envVars>>

AcceptAdmin(new_admin) ==
    /\ RequireAuth(new_admin)
    /\ pending_admin # NoAddress
    /\ pending_admin = new_admin
    /\ Initialized
    /\ admin' = new_admin
    /\ pending_admin' = NoAddress
    /\ UNCHANGED <<bookVars, moneyVars, envVars>>

-----------------------------------------------------------------------------
(* The environment: the ledger advances, asset tokens change hands and     *)
(* supply, and payment tokens move without the contract, possibly to it.   *)

CloseLedger ==
    /\ ledger < MaxLedger
    /\ ledger' = ledger + 1
    /\ signer' = NoAddress
    /\ UNCHANGED <<roleVars, bookVars, moneyVars, asset_admin, asset_supply>>

AssetChanges(asset) ==
    /\ \/ /\ asset_admin' \in {[asset_admin EXCEPT ![asset] = a] : a \in Nominee}
          /\ UNCHANGED asset_supply
       \/ /\ asset_supply' = [asset_supply EXCEPT ![asset] = 1 - @]
          /\ UNCHANGED asset_admin
    /\ signer' = NoAddress
    /\ UNCHANGED <<roleVars, bookVars, moneyVars, ledger>>

OutsideTransfer(token, from, to, amount) ==
    /\ from # to
    /\ payment[token][from] >= amount
    /\ payment' = [payment EXCEPT ![token][from] = @ - amount, ![token][to] = @ + amount]
    /\ donated' = [donated EXCEPT ![token] = IF to = Escrow THEN @ + amount ELSE @]
    /\ signer' = from
    /\ UNCHANGED <<roleVars, bookVars, envVars>>

-----------------------------------------------------------------------------
IssuerStep(caller) ==
    \/ Initialize(caller)
    \/ \E asset \in AssetToken, t \in PaymentToken, n \in TotalAmount, e \in Eligible :
           \/ CreateDistribution(caller, asset, t, n, e)
           \/ \E d \in Deadline : CreateDistributionDeadline(caller, asset, t, n, e, d)
    \/ \E id \in DOMAIN dist : ReclaimUnclaimed(caller, id) \/ CancelDistribution(caller, id)
    \/ \E a \in Nominee : ProposeAdmin(caller, a)
    \/ CancelAdminProposal(caller)
    \/ AcceptAdmin(caller)

HolderStep(holder) == \E id \in DOMAIN dist : Claim(id, holder)

EnvironmentStep ==
    \/ CloseLedger
    \/ \E asset \in AssetToken : AssetChanges(asset)
    \/ \E t \in PaymentToken, from \in Address, to \in Address \union {Escrow}, n \in Gift :
           OutsideTransfer(t, from, to, n)

Next ==
    \/ \E a \in Address : IssuerStep(a) \/ HolderStep(a)
    \/ EnvironmentStep

Spec == Init /\ [][Next]_vars

-----------------------------------------------------------------------------
(* Properties. *)

Open(id) == ~dist[id].completed

\* Every variable stays in its type; the books of all distributions have one
\* entry per id.
TypeOK ==
    /\ admin \in Address \union {NoAddress}
    /\ pending_admin \in Address \union {NoAddress}
    /\ dist \in Seq(Distribution)
    /\ snapshot \in Seq(Seq([holder : Address, balance : 0..I128Max]))
    /\ supply \in Seq(0..I128Max)
    /\ funder \in Seq(Address)
    /\ {Len(snapshot), Len(supply), Len(funder)} = {Len(dist)}
    /\ claimed \subseteq (DOMAIN dist) \X Address
    /\ asset_ids \in [AssetToken -> Seq(DOMAIN dist)]
    /\ payment \in [PaymentToken -> [Address \union {Escrow} -> Nat]]
    /\ donated \in [PaymentToken -> Nat]
    /\ asset_admin \in [AssetToken -> Address]
    /\ asset_supply \in [AssetToken -> {0, 1}]
    /\ ledger \in 0..MaxLedger
    /\ signer \in Address \union {NoAddress}

\* What the open distributions of payment token t still owe, per id.
Owed(t) == [id \in DOMAIN dist |->
               IF dist[id].payment_token = t /\ Open(id) THEN Remaining(dist[id]) ELSE 0]

\* The one escrow account of a payment token holds exactly what all open
\* distributions paid in it still owe, plus gifts nobody can withdraw: no
\* claim, cancellation or reclaim is paid out of another distribution's money
\* and none leaves money behind.
EscrowBacksDistributions ==
    \A t \in PaymentToken : payment[t][Escrow] = Total(Owed(t)) + donated[t]

\* The unclaimed shares of an open distribution, by holder.
OpenShares(id) == [h \in Address |-> Claimable(id, h)]

\* While a distribution with a positive snapshot is open, paid and unclaimed
\* shares together never exceed the total (so no order of claims can starve
\* the last claimant) and fall short of it by less than one unit per listed
\* holder (the dust bound).
SharesCoverTotalUpToDust ==
    \A id \in DOMAIN dist :
        (Open(id) /\ supply[id] > 0) =>
            LET covered == dist[id].distributed + Total(OpenShares(id))
            IN  /\ covered <= dist[id].total_amount
                /\ dist[id].total_amount < covered + Len(snapshot[id])

\* A holder with a positive computable share of an open distribution whose
\* window has not passed can claim it now: neither the escrow running dry nor
\* the OverDistributed check ever stands in the way.
EntitledHolderCanClaim ==
    \A id \in DOMAIN dist, h \in Address :
        (/\ Open(id) /\ ClaimOpen(dist[id])
         /\ Claimable(id, h) > 0 /\ ~ShareOverflows(id, h)) => ENABLED Claim(id, h)

\* An unclaimed share of a distribution does not change while it stays open,
\* whatever happens to other distributions, balances or supplies.
EntitlementIsFrozen ==
    [][\A id \in DOMAIN dist, h \in Address :
          (Open(id) /\ Open(id)' /\ <<id, h>> \notin claimed') =>
              Claimable(id, h)' = Claimable(id, h)]_vars

\* A reclaim never takes a share its holder could still have claimed in the
\* same ledger: the claim window and the reclaim window do not overlap.
ReclaimNeverTakesClaimableShare ==
    [][\A id \in DOMAIN dist :
          (dist'[id].distributed > dist[id].distributed /\ claimed' = claimed) =>
              \A h \in Address : ~(ClaimOpen(dist[id]) /\ Claimable(id, h) > 0)]_vars

\* The cancelled flag tells a refunded distribution from a paid one: nobody
\* was ever paid out of a cancelled distribution.
CancelledPaidNobody ==
    \A id \in DOMAIN dist :
        dist[id].cancelled => /\ dist[id].completed
                              /\ dist[id].distributed = 0
                              /\ \A h \in Address : ~HasClaimed(id, h)

\* get_distributions_for_asset lists every distribution of an asset exactly
\* once, in order of creation, and no other.
AssetIndexComplete ==
    \A asset \in AssetToken :
        LET ids == asset_ids[asset]
        IN  /\ {ids[k] : k \in DOMAIN ids} = {id \in DOMAIN dist : dist[id].asset_token = asset}
            /\ \A k, m \in DOMAIN ids : k < m => ids[k] < ids[m]

\* The admin role follows the two-step handover of AdminHandover.
Handover == INSTANCE AdminHandover
AdminRoleHandover == Handover!Spec

\* The refinement mapping: wallets leave the escrow account out, and every
\* distribution is a pot of what it still owes.
Wallets == [t \in PaymentToken |-> [a \in Address |-> payment[t][a]]]

LeftIn(d) == IF d.completed THEN 0 ELSE Remaining(d)

PotOf(d) == [token |-> d.payment_token, left |-> LeftIn(d), open |-> ~d.completed]

PotList == [id \in DOMAIN dist |-> PotOf(dist[id])]

\* Seen from outside, the shared account behaves like isolated pots.
Pots == INSTANCE EscrowPots WITH wallet <- Wallets, pots <- PotList, paid <- claimed
ImplementsIsolatedPots == Pots!Spec

\* Comment of cancel_distribution and docs/dividend.md: escrowed funds go
\* back to the issuer, the party that funded the escrow.
RefundGoesToFunder ==
    [][\A id \in DOMAIN dist, a \in Address :
          (Open(id) /\ ~Open(id)' /\ claimed' = claimed /\
           payment'[dist[id].payment_token][a] > payment[dist[id].payment_token][a])
              => a = funder[id]]_vars
=============================================================================
