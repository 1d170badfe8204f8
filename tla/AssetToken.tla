------------------------------ MODULE AssetToken ------------------------------
(***************************************************************************)
(* The asset-token contract: balances of one tokenised asset whose every   *)
(* movement is gated by a compliance contract, an emergency pause,         *)
(* allowances that expire with the ledger, and a two-step admin role.      *)
(*                                                                         *)
(* One action is one successful invocation.  An invocation that panics is  *)
(* rolled back by the host and changes nothing, so it is a stuttering      *)
(* step: a panic in the code is a guard here.  Names, symbol, description, *)
(* decimals, events and TTL extensions are left out: no control depends on *)
(* them once the length checks of initialize have passed.                  *)
(***************************************************************************)
EXTENDS Integers, Sequences, Totals

CONSTANTS
    Address, NoAddress,
    ComplianceContract,          \* compliance contracts the token may consult
    I128Max,                     \* largest amount a balance can hold
    MAX_VALUATION_CHANGE_BPS, BPS_DENOMINATOR,
    \* the inputs a model tries
    GenesisSupply, Amount, Batch, Valuation, ApprovalPair, Nominee, Guardian,
    MaxLedger                    \* last ledger sequence number modelled

I128 == -I128Max..I128Max

ASSUME ConstantsAssumption ==
    /\ IsFiniteSet(Address)
    /\ NoAddress \notin Address \union ComplianceContract
    /\ I128Max \in Nat
    /\ MaxLedger \in Nat \ {0}
    /\ MAX_VALUATION_CHANGE_BPS \in Nat
    /\ BPS_DENOMINATOR \in Nat
    /\ MAX_VALUATION_CHANGE_BPS < BPS_DENOMINATOR
    /\ GenesisSupply \subseteq I128
    /\ Amount \subseteq I128
    /\ Valuation \subseteq I128
    /\ Batch \subseteq Seq([to : Address, amount : Amount])
    /\ ApprovalPair \subseteq Address \X Address
    /\ Nominee \subseteq Address
    /\ Guardian \subseteq Address

VARIABLES
    \* AssetMetadata (instance storage)
    admin,                \* NoAddress until the contract is initialised
    pending_admin, guardian, compliance_contract, total_supply, valuation, paused,
    \* persistent and temporary storage
    balance, allowance,
    \* environment
    ledger,               \* current ledger sequence number
    allowed,              \* verdicts of each compliance contract's is_allowed
    signer                \* address whose authorisation the last invocation used

roleVars == <<admin, pending_admin>>
controlVars == <<guardian, compliance_contract, valuation, paused>>
fundVars == <<total_supply, balance>>
envVars == <<ledger, allowed>>
vars == <<roleVars, controlVars, fundVars, allowance, envVars, signer>>

NoAllowance == [amount |-> 0, expiration_ledger |-> 0]

Init ==
    /\ admin = NoAddress
    /\ pending_admin = NoAddress
    /\ guardian = NoAddress
    /\ compliance_contract = NoAddress
    /\ total_supply = 0
    /\ valuation = 0
    /\ paused = FALSE
    /\ balance = [a \in Address |-> 0]
    /\ allowance = [p \in Address \X Address |-> NoAllowance]
    /\ ledger = 1
    /\ allowed \in [ComplianceContract -> SUBSET Address]
    /\ signer = NoAddress

-----------------------------------------------------------------------------
(* Checks shared by the entry points. *)

\* The host runs an invocation only with the authorisations it demands.
RequireAuth(a) == signer' = a

Initialized == admin # NoAddress

RequireAdmin(a) == Initialized /\ RequireAuth(a) /\ a = admin

Compliant(compliance, who) == who \in allowed[compliance]

CheckAmount(amount) == amount > 0

\* Mutant: the pause switch is not consulted.
TokensLiveIgnoringPause == Initialized

TokensLive == Initialized /\ ~paused

\* A movement of amount units that the balances bal permit, and its result.
\* A movement to oneself leaves the balance alone.
CanMove(bal, from, to, amount) ==
    /\ bal[from] >= amount
    /\ from # to => bal[to] + amount <= I128Max

\* Mutant: both balances are read before either is written.
MovedFromStaleReads(bal, from, to, amount) ==
    [bal EXCEPT ![from] = @ - amount, ![to] = bal[to] + amount]

Moved(bal, from, to, amount) ==
    IF from = to THEN bal
    ELSE [bal EXCEPT ![from] = @ - amount, ![to] = @ + amount]

-----------------------------------------------------------------------------
(* Lifecycle and token operations. *)

Initialize(caller, supply, compliance, value) ==
    /\ ~Initialized
    /\ RequireAuth(caller)
    /\ supply >= 0
    /\ value >= 0
    /\ Compliant(compliance, caller)
    /\ admin' = caller
    /\ total_supply' = supply
    /\ compliance_contract' = compliance
    /\ valuation' = value
    /\ paused' = FALSE
    /\ guardian' = NoAddress
    /\ pending_admin' = NoAddress
    /\ balance' = [balance EXCEPT ![caller] = supply]
    /\ UNCHANGED <<allowance, envVars>>

Transfer(from, to, amount) ==
    /\ RequireAuth(from)
    /\ CheckAmount(amount)
    /\ TokensLive
    /\ Compliant(compliance_contract, from)
    /\ Compliant(compliance_contract, to)
    /\ CanMove(balance, from, to, amount)
    /\ balance' = Moved(balance, from, to, amount)
    /\ UNCHANGED <<roleVars, controlVars, total_supply, allowance, envVars>>

\* The balances after the first i entries of a batch, for every i.
TransferRun(from, entries) ==
    LET run[i \in 0..Len(entries)] ==
            IF i = 0 THEN balance
            ELSE Moved(run[i - 1], from, entries[i].to, entries[i].amount)
    IN  run

\* Each entry sees the balances its predecessors left; one failing entry
\* reverts the whole batch.
TransferBatch(from, entries) ==
    /\ RequireAuth(from)
    /\ TokensLive
    /\ Compliant(compliance_contract, from)
    /\ LET run == TransferRun(from, entries)
       IN  /\ \A i \in 1..Len(entries) :
                  /\ CheckAmount(entries[i].amount)
                  /\ Compliant(compliance_contract, entries[i].to)
                  /\ CanMove(run[i - 1], from, entries[i].to, entries[i].amount)
           /\ balance' = run[Len(entries)]
    /\ UNCHANGED <<roleVars, controlVars, total_supply, allowance, envVars>>

\* Room for amount new units, in the supply and in one balance.
\* Mutant: only the recipient's balance is checked for overflow.
CanMintIgnoringSupply(supply, bal, to, amount) == bal[to] + amount <= I128Max

CanMint(supply, bal, to, amount) ==
    /\ supply + amount <= I128Max
    /\ bal[to] + amount <= I128Max

Mint(caller, to, amount) ==
    /\ RequireAdmin(caller)
    /\ CheckAmount(amount)
    /\ TokensLive
    /\ Compliant(compliance_contract, to)
    /\ CanMint(total_supply, balance, to, amount)
    /\ balance' = [balance EXCEPT ![to] = @ + amount]
    /\ total_supply' = total_supply + amount
    /\ UNCHANGED <<roleVars, controlVars, allowance, envVars>>

\* Supply and balances after the first i entries of a mint batch.
MintRun(entries) ==
    LET run[i \in 0..Len(entries)] ==
            IF i = 0 THEN [supply |-> total_supply, bal |-> balance]
            ELSE [supply |-> run[i - 1].supply + entries[i].amount,
                  bal |-> [run[i - 1].bal EXCEPT ![entries[i].to] = @ + entries[i].amount]]
    IN  run

MintBatch(caller, entries) ==
    /\ RequireAdmin(caller)
    /\ TokensLive
    /\ LET run == MintRun(entries)
       IN  /\ \A i \in 1..Len(entries) :
                  /\ CheckAmount(entries[i].amount)
                  /\ Compliant(compliance_contract, entries[i].to)
                  /\ CanMint(run[i - 1].supply, run[i - 1].bal, entries[i].to, entries[i].amount)
           /\ balance' = run[Len(entries)].bal
           /\ total_supply' = run[Len(entries)].supply
    /\ UNCHANGED <<roleVars, controlVars, allowance, envVars>>

\* Mutant: burn as the holder guide describes it, without the compliance gate.
BurnUngated(from, amount) ==
    /\ RequireAuth(from)
    /\ CheckAmount(amount)
    /\ TokensLive
    /\ balance[from] >= amount
    /\ balance' = [balance EXCEPT ![from] = @ - amount]
    /\ total_supply' = total_supply - amount
    /\ UNCHANGED <<roleVars, controlVars, allowance, envVars>>

Burn(from, amount) ==
    /\ RequireAuth(from)
    /\ CheckAmount(amount)
    /\ TokensLive
    /\ Compliant(compliance_contract, from)
    /\ balance[from] >= amount
    /\ balance' = [balance EXCEPT ![from] = @ - amount]
    /\ total_supply' = total_supply - amount
    /\ UNCHANGED <<roleVars, controlVars, allowance, envVars>>

-----------------------------------------------------------------------------
(* Allowances. *)

ApprovalBy(caller, from, spender, amount, expiration) ==
    /\ RequireAuth(caller)
    /\ amount >= 0
    /\ TokensLive
    /\ amount > 0 => expiration >= ledger
    /\ allowance' = [allowance EXCEPT
           ![<<from, spender>>] = [amount |-> amount, expiration_ledger |-> expiration]]
    /\ UNCHANGED <<roleVars, controlVars, fundVars, envVars>>

\* Mutant: the wrong party authorises the approval.
ApproveBySpender(from, spender, amount, expiration) ==
    ApprovalBy(spender, from, spender, amount, expiration)

Approve(from, spender, amount, expiration) ==
    ApprovalBy(from, from, spender, amount, expiration)

\* What the allowance query answers: an expired entry is worth nothing.
AllowanceOf(from, spender) ==
    LET v == allowance[<<from, spender>>]
    IN  IF v.expiration_ledger >= ledger THEN v.amount ELSE 0

\* Mutant: the expiration ledger is not compared.
AllowanceCoversExpired(current, amount) == current.amount >= amount

AllowanceCovers(current, amount) ==
    /\ current.expiration_ledger >= ledger
    /\ current.amount >= amount

\* The spender itself is not gated.  from is debited before to is read, so
\* a transfer from an address to itself nets out, but uses up the allowance.
TransferFrom(spender, from, to, amount) ==
    LET current == allowance[<<from, spender>>]
        debited == [balance EXCEPT ![from] = @ - amount]
    IN  /\ RequireAuth(spender)
        /\ CheckAmount(amount)
        /\ TokensLive
        /\ Compliant(compliance_contract, from)
        /\ Compliant(compliance_contract, to)
        /\ AllowanceCovers(current, amount)
        /\ balance[from] >= amount
        /\ debited[to] + amount <= I128Max
        /\ balance' = [debited EXCEPT ![to] = @ + amount]
        /\ allowance' = [allowance EXCEPT ![<<from, spender>>].amount = @ - amount]
        /\ UNCHANGED <<roleVars, controlVars, total_supply, envVars>>

-----------------------------------------------------------------------------
(* Administration. *)

Pause(caller) ==
    /\ RequireAuth(caller)
    /\ Initialized
    /\ caller \in {admin, guardian}
    /\ paused' = TRUE
    /\ UNCHANGED <<roleVars, guardian, compliance_contract, valuation, fundVars, allowance, envVars>>

Unpause(caller) ==
    /\ RequireAdmin(caller)
    /\ paused' = FALSE
    /\ UNCHANGED <<roleVars, guardian, compliance_contract, valuation, fundVars, allowance, envVars>>

SetGuardian(caller, g) ==
    /\ RequireAdmin(caller)
    /\ guardian' = g
    /\ UNCHANGED <<roleVars, compliance_contract, valuation, paused, fundVars, allowance, envVars>>

\* Mutant: the bound is rounded up.
ValuationChangeRoundedUp(old, new) ==
    old > 0 =>
        LET max_change == (old * MAX_VALUATION_CHANGE_BPS + BPS_DENOMINATOR - 1) \div BPS_DENOMINATOR
        IN  new - old <= max_change /\ old - new <= max_change

\* A positive valuation moves by at most the configured share of itself.
\* The product is a checked i128 multiplication, the quotient truncates.
ValuationChangeOK(old, new) ==
    old > 0 =>
        /\ old * MAX_VALUATION_CHANGE_BPS <= I128Max
        /\ LET max_change == (old * MAX_VALUATION_CHANGE_BPS) \div BPS_DENOMINATOR
           IN  new - old <= max_change /\ old - new <= max_change

UpdateValuation(caller, new) ==
    /\ RequireAdmin(caller)
    /\ new >= 0
    /\ ValuationChangeOK(valuation, new)
    /\ valuation' = new
    /\ UNCHANGED <<roleVars, guardian, compliance_contract, paused, fundVars, allowance, envVars>>

\* The new contract must already admit the admin.
SetCompliance(caller, compliance) ==
    /\ RequireAdmin(caller)
    /\ Compliant(compliance, caller)
    /\ compliance_contract' = compliance
    /\ UNCHANGED <<roleVars, guardian, valuation, paused, fundVars, allowance, envVars>>

ProposeAdmin(caller, new_admin) ==
    /\ RequireAdmin(caller)
    /\ pending_admin' = new_admin
    /\ UNCHANGED <<admin, controlVars, fundVars, allowance, envVars>>

CancelAdminProposal(caller) ==
    /\ RequireAdmin(caller)
    /\ pending_admin # NoAddress
    /\ pending_admin' = NoAddress
    /\ UNCHANGED <<admin, controlVars, fundVars, allowance, envVars>>

\* Mutant: the nomination survives its use.
AcceptAdminKeepingPending(new_admin) ==
    /\ RequireAuth(new_admin)
    /\ Initialized
    /\ pending_admin = new_admin
    /\ admin' = new_admin
    /\ UNCHANGED <<pending_admin, controlVars, fundVars, allowance, envVars>>

AcceptAdmin(new_admin) ==
    /\ RequireAuth(new_admin)
    /\ Initialized
    /\ pending_admin # NoAddress
    /\ pending_admin = new_admin
    /\ admin' = new_admin
    /\ pending_admin' = NoAddress
    /\ UNCHANGED <<controlVars, fundVars, allowance, envVars>>

-----------------------------------------------------------------------------
(* The environment: ledgers close and compliance contracts are called, and *)
(* either may change any verdicts; the host drops temporary entries that   *)
(* outlived their use.                                                     *)

VerdictsChange ==
    /\ allowed' \in [ComplianceContract -> SUBSET Address]
    /\ signer' = NoAddress
    /\ UNCHANGED <<roleVars, controlVars, fundVars, allowance>>

CloseLedger ==
    /\ ledger < MaxLedger
    /\ ledger' = ledger + 1
    /\ VerdictsChange

ComplianceCall == VerdictsChange /\ UNCHANGED ledger

DropAllowance(pair) ==
    /\ allowance[pair].expiration_ledger < ledger
    /\ allowance' = [allowance EXCEPT ![pair] = NoAllowance]
    /\ signer' = NoAddress
    /\ UNCHANGED <<roleVars, controlVars, fundVars, envVars>>

-----------------------------------------------------------------------------
TokenStep(caller) ==
    \/ \E c \in ComplianceContract, s \in GenesisSupply, v \in Valuation :
           Initialize(caller, s, c, v)
    \/ \E to \in Address, n \in Amount :
           Transfer(caller, to, n) \/ Mint(caller, to, n)
    \/ \E b \in Batch : TransferBatch(caller, b) \/ MintBatch(caller, b)
    \/ \E n \in Amount : Burn(caller, n)

AllowanceStep(caller) ==
    \/ \E p \in ApprovalPair, n \in Amount, e \in 0..MaxLedger :
           p[1] = caller /\ Approve(caller, p[2], n, e)
    \/ \E from, to \in Address, n \in Amount : TransferFrom(caller, from, to, n)

AdminStep(caller) ==
    \/ Pause(caller)
    \/ Unpause(caller)
    \/ \E g \in Guardian \union {NoAddress} : SetGuardian(caller, g)
    \/ \E v \in Valuation : UpdateValuation(caller, v)
    \/ \E c \in ComplianceContract : SetCompliance(caller, c)
    \/ \E a \in Nominee : ProposeAdmin(caller, a)
    \/ CancelAdminProposal(caller)
    \/ AcceptAdmin(caller)

EnvironmentStep ==
    \/ CloseLedger
    \/ ComplianceCall
    \/ \E p \in ApprovalPair : DropAllowance(p)

Next ==
    \/ \E a \in Address : TokenStep(a) \/ AllowanceStep(a) \/ AdminStep(a)
    \/ EnvironmentStep

Spec == Init /\ [][Next]_vars

-----------------------------------------------------------------------------
(* Properties. *)

\* Every variable stays in its type: in particular no balance, supply or
\* allowance is ever negative or beyond i128.
TypeOK ==
    /\ admin \in Address \union {NoAddress}
    /\ pending_admin \in Address \union {NoAddress}
    /\ guardian \in Address \union {NoAddress}
    /\ compliance_contract \in
           IF Initialized THEN ComplianceContract ELSE {NoAddress}
    /\ total_supply \in 0..I128Max
    /\ valuation \in 0..I128Max
    /\ paused \in BOOLEAN
    /\ balance \in [Address -> 0..I128Max]
    /\ allowance \in [Address \X Address ->
                         [amount : 0..I128Max, expiration_ledger : 0..MaxLedger]]
    /\ ledger \in 0..MaxLedger
    /\ allowed \in [ComplianceContract -> SUBSET Address]
    /\ signer \in Address \union {NoAddress}

\* The supply recorded in the metadata is exactly the sum of all balances,
\* whatever mix of transfers, self-transfers, batches, mints and burns (each
\* of which writes the two sides separately) has been executed.
SupplyConservation == total_supply = Total(balance)

\* The Overflow branches of transfer, transfer_batch and transfer_from are
\* unreachable: the supply check of mint already leaves room for every
\* movement the sender can pay for.
TransferNeverOverflows ==
    \A from, to \in Address :
        from # to => balance[from] + balance[to] <= I128Max

\* A balance changes, up or down, only while the compliance contract in
\* force admits its owner: every path that writes a balance is gated, also
\* for parties named only inside a batch or by a spender.
OnlyCompliantBalancesMove ==
    [][\A a \in Address :
          balance'[a] # balance[a] => a \in allowed[compliance_contract']]_vars

\* While the token is paused no balance and no supply changes and nobody can
\* gain spending power; an approval cannot be staged for the unpause.
PausedFreezesTokens ==
    [][paused => /\ UNCHANGED fundVars
                 /\ \A a, s \in Address : AllowanceOf(a, s)' <= AllowanceOf(a, s)]_vars

\* A balance falls only by its owner's own authorisation or by a spender
\* whose unexpired allowance covers the debit and shrinks by exactly it.
DebitNeedsConsent ==
    [][\A a \in Address :
          balance'[a] < balance[a] =>
             LET debit == balance[a] - balance'[a]
             IN  \/ signer' = a
                 \/ /\ signer' \in Address
                    /\ AllowanceOf(a, signer') >= debit
                    /\ allowance'[<<a, signer'>>].amount =
                           allowance[<<a, signer'>>].amount - debit]_vars

\* What a spender may take never grows unless the owner signs: not by a
\* spend, not by the ledger advancing past an expiration, not by the host
\* dropping the entry.
AllowanceGrowsOnlyByOwner ==
    [][\A a, s \in Address :
          AllowanceOf(a, s)' > AllowanceOf(a, s) => signer' = a]_vars

\* Truncating division makes the bound on a valuation change strict enough
\* that a positive valuation can never be brought down to zero.
PositiveValuationStaysPositive ==
    [][valuation > 0 => valuation' > 0]_vars

\* The admin role follows the two-step handover of AdminHandover.
Handover == INSTANCE AdminHandover
AdminRoleHandover == Handover!Spec
=============================================================================
