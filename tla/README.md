# Formal models of the Stellar RWA contracts

TLA+ models, TLC runs and TLAPS proofs for the four Soroban contracts under
`src/contracts/`: asset token, compliance, dividend, registry. File and line
references are to the repository. `PROJECT.json` maps every definition to the
lines it stands for and lists runs, mutants, findings, hazards and theorems.

## Inventory

| Component | State it keeps | Operations that change it | What makes it correct |
|---|---|---|---|
| **Asset token** (`asset-token/src/lib.rs`) | metadata (admin, pending admin, guardian, compliance contract, supply, valuation, paused), balances, expiring allowances | `initialize`, `transfer`, `transfer_batch`, `transfer_from`, `mint`, `mint_batch`, `burn`, `approve`, `pause`, `unpause`, `set_guardian`, `update_valuation`, `set_compliance`, admin handover | supply equals the sum of balances; nothing moves without compliance, without consent, or while paused |
| **Compliance** (`compliance/src/lib.rs`) | KYC records, allowlist pages with index, cursor and count, blocked jurisdictions (flags and list), holding periods, admin | `add_to_allowlist(_batch)`, `suspend`, `reinstate`, `remove`, `prune_expired`, `block/unblock_jurisdiction`, `set_min_holding_period`, `record_acquisition`, admin handover | five storage entries per member agree; only the admin or the passing of time lets anybody in; pruning decides nothing and ends |
| **Dividend** (`dividend/src/lib.rs`) | distributions, snapshots and their supply, claim flags, index per asset, admin; and the balance of its account in each payment token | `create_distribution(_deadline)`, `claim`, `reclaim_unclaimed`, `cancel_distribution`, admin handover | the shared account backs every open distribution exactly; every share can be claimed once, in any order |
| **Registry** (`registry/src/lib.rs`) | asset entries, indexes by issuer and type, counters, running total value locked, admin | `register_asset`, `update_valuation`, `deactivate_asset`, `reactivate_asset`, admin handover | counters, indexes and total value locked agree with the entries |

How they interact: every movement of an asset token asks `is_allowed` of the
compliance contract stored in its metadata, which the admin may replace. The
dividend contract and the registry ask the asset token for `total_supply` and
`get_metadata`, and give the token's *current* admin rights of its own
(`require_admin_or_asset_admin`). The dividend contract moves payment tokens in
and out of one account per payment token. All calls are synchronous; there are
no callbacks, and the host forbids re-entrance.

What is hard. A transaction is atomic and a panic reverts it, so there is no
interleaving *inside* a call; the hard behaviour is between calls: many signers
in any order, verdicts, admins and supplies of another contract that change
between two calls, ledger numbers that pass expirations and deadlines, derived
data (supply, counts, lists, indexes) kept beside the data it is derived from,
many distributions on one account, truncating and overflowing arithmetic, and
paged lists with holes. `PROJECT.json` lists each such place under `hazards`.

## Modules

Each component module stands alone, with what it reads of other contracts as
environment; `Platform` puts two of them together.

| Module | Role |
|---|---|
| `Lists` | loops over lists that several contracts share |
| `Totals` | the sum of a table of naturals, without recursion, so that it can be proved about |
| `AdminHandover` | abstract: the two-step admin role every contract promises |
| `AssetToken` | the asset token, one action per entry point |
| `MCAssetToken` | small instances of it |
| `TotalsProofs` | facts the proofs share: induction in first-order form, loops, sums, truncating division |
| `AssetTokenProofs` | theorems of the asset token |
| `EscrowPots` | abstract: every distribution is a pot of its own |
| `Dividend`, `MCDividend` | the dividend contract and small instances |
| `DividendProofs` | theorems about the books and the escrow account; `Dividend` implements `EscrowPots` |
| `DividendShareProofs` | the arithmetic of the floored shares |
| `Compliance`, `MCCompliance` | the compliance contract and small instances |
| `ComplianceProofs` | theorems about records, pages, counts, verdicts and page walks, and about the client of `RosterReader` |
| `Registry` | the registry, one action per entry point, one operator per paged query |
| `RegistryProofs` | theorems of the registry and of the client of `RegistryReader` |
| `PageWalk` | what a client that reads a list page by page knows, and what happened to the list meanwhile |
| `PageWalkProofs` | facts about lists, their order and their slices, and about such a client over any list |
| `RegistryReader`, `MCRegistry` | the registry under such a client, and a small instance |
| `RosterReader`, `MCRosterReader` | the compliance contract under such a client, and a small instance |
| `Platform`, `MCPlatform` | an asset token and the compliance contract it consults, by `INSTANCE`, and a small instance |
| `PlatformProofs` | the token of `Platform` implements `AssetToken`; theorems of the composition |

Conventions. A successful invocation is one action; the order of its checks
does not matter, since each of them reverts everything, so panics are guards and
a failing invocation is a stuttering step. `RequireAuth(a)` records `a` in the
variable `signer`; environment steps set it to `NoAddress`. `NoAddress` stands
for an absent address: `admin = NoAddress` is the contract before `initialize`.
Definitions introduced by a comment `Mutant:` are not part of a model: they are
changed versions of the definition below them, each with a plausible bug, that
show that a property can fail.

### AssetToken

`balance` and `allowance` are the persistent and temporary tables, the other
contract variables are the fields of `AssetMetadata`. The code reads absent
entries as zero, and so do the tables. The batches are run entry by entry
(`TransferRun`, `MintRun`): entry *i* sees what entry *i - 1* wrote. A
self-transfer is a no-op in `transfer` and nets out in `transfer_from`, which
re-reads the balance it has just debited; the model keeps both ways of getting
there. The environment is `VerdictsChange` (any compliance contract may change its mind
on anybody between two calls), `CloseLedger` (the ledger advances, and verdicts
that depend on it with it), `ComplianceCall` (a call elsewhere that changes
nothing here) and `DropAllowance` (the host may drop a temporary entry after its
expiration). It is as wide as it is so that a real rule book fits in it, which
`Platform` shows.

### Dividend

`dist`, `snapshot`, `supply`, `funder` have one entry per id; a removed snapshot
is `<<>>`, a removed supply 0, as the code reads them. `payment` holds all
balances of the payment tokens, the escrow account included. The environment
advances the ledger, changes an asset token's admin or its supply between zero
and positive (all that `create_distribution` distinguishes), and moves payment
tokens around, also into the escrow account (`donated`). `funder` is a history
variable. Distributions of different payment tokens, and several of the same
one, are open at once.

### Compliance

`roster` groups the allowlist entries: `pages` (page 1 is the code's page 0),
`page_of`, `page_len` (the append cursor; the current page is the last one) and
`count`. A page is never refilled after a removal. `prune_expired` inspects the
first `max_records` entries of the whole list, so its effect is stated over
`Examined`. Country codes: callers write a `Spelling`; `Canonical` gives what
`normalize_jurisdiction` makes of it, or `Invalid`. `PageStep` is one iteration
of the loop of `get_allowlist_page`, `CappedLimit` its clamp of the limit. The
ledger starts at 1, so 0 can stand for an absent acquisition. Storage entries can be
read at any time, archived or not (see the third finding); `ClockOutlived` is there to
tell when the clock of a holding period is older than the one extension it gets
(`INSTANCE_BUMP_AMOUNT`). `RosterReader` adds
a client that asks for the page after the addresses it has, until an empty reply.

### Registry

`asset` is a function of the ids on file; beside it the contract stores what it
could derive from the entries: `counter`, `active_count`, `total_valuation`, the
lists by issuer and type and the index by token. Queries are operators whose reply
is the sequence of ids of their entries. `asset_admin` is what `get_metadata` of
each registered token would answer, `NoAddress` where there is no such contract
(then only the registry's own admin is let through); `TokenHandover` moves it
without a call of the registry. `RegistryReader` adds a client that walks through
one of six views (`ReaderAssumption` names them): all entries by id or by position,
active or inactive ones by position, those of an issuer or a type by page number. It
stops at an empty reply, and only there (see the last item under Findings). `page * page_size`
saturates at `u32::MAX` in the code; the models stay far below.

### Platform

`Rules` is `Compliance` and `Token` is `AssetToken`, each under its own names for
admin and signer. They share the ledger, and `allowed` of the token is replaced by
`Verdicts`: for the address `RuleBook`, `IsAllowed` of the compliance contract as
it stands; for other contracts a fixed set, so that `set_compliance` can leave the
rule book and come back. A step is a call of one contract or the ledger's;
`is_allowed` is read within the token's call. `acquired` is a history variable:
the ledger of the first recorded acquisition.

## Runs

Safety runs check deadlock as well. All runs bound the ledger (`MaxLedger`).

| Run | Question | Bounds, and why they are enough |
|---|---|---|
| `token_funds` | do balances, supply, allowances and pause stay consistent under every mix of calls and changing verdicts? | 3 addresses (owner, recipient, spender), amounts -1..2 with `I128Max = 3` so that every overflow check and every underflow check decides; batches of up to two entries, also with the same recipient twice and the sender as recipient; one ledger step past an expiration |
| `token_governance` | admin role, guardian, compliance contract, valuation | valuations -1..4 around the bound of half; two compliance contracts; everybody may be nominated; amounts left out, since they are covered above and independent |
| `dividend_claims` | is every distribution paid from its own money, in every order of claims, deadlines, reclaims and cancellations? | two distributions, two payment tokens, totals 0, 1 and 3 over equal, uneven, zero, empty, negative and repeated lists: exact shares, dust, shares of zero and, with `I128Max = 5`, a product that overflows; deadlines none, 0 and 1 with ledgers 0..2: before, at and after |
| `dividend_roles` | ids per asset, asset admins, gifts to the escrow, admin handover | two assets, two distributions, two addresses, one payment token, gifts of one unit |
| `compliance_roster` | do records, pages, index and count agree, is every page walk complete, does pruning leave verdicts alone? | three members on at most three pages of two: full pages, holes, empty pages; a batch naming one person twice; pruning with bounds 0 and 1; ledgers before, at and after expiry |
| `compliance_verdicts` | who can get (back) in, and how? | two spellings of one country and another country; holding periods 0, 1, 2; a change of admin |
| `compliance_reader` | can a client page through a list that changes under it, and does repeated unbounded pruning clear lapsed records? | two members on three pages of one, so that every removal leaves an empty page; pages of one entry requested; liveness under `FairReaderSpec` |
| `registry` | do totals and indexes match the entries, who may touch an entry, and what does a client see of each view? | two tokens, one claimed by two issuers, an unknown type; valuations -1, 1, 2 with `I128Max = 2`, so that registering, re-appraising and reactivating all run into the overflow check; a token without metadata; pages clamped to one entry, and enough entries for walks of several pages |
| `platform` | does the token obey the rule book as it is at the moment of each call? | one unit, issuer and holder, one jurisdiction, approvals for good or until ledger 2, a lock-up of 3 over ledgers 1..4: before, at and after its end, and with entries that live for one ledger also in the time in which the clock has outlived its entry; a second, lenient rule book; batches, allowances and valuations are covered above |
| `*_doc` | runs that are expected to fail, one per finding below | |

`MaxPages` is the only bound that cuts off a counter of the code: adding is
disabled when it would need another page. `MaxDistributions` and `MaxAssets` cap
the ids.

Properties worth naming: `SupplyConservation` and `TransferNeverOverflows` (the
overflow branches of the transfers are dead code because of a check made in
`mint`); `DebitNeedsConsent` and `AllowanceGrowsOnlyByOwner` (across expiry, re-approval
and dropping of entries); `ImplementsIsolatedPots` (refinement of `EscrowPots`);
`SharesCoverTotalUpToDust` (any order of claims is safe, and the dust bound);
`EntitledHolderCanClaim` (the escrow and `OverDistributed` never stand in the
way of a computable share; a share whose product overflows is excluded, see
below); `RosterMatchesRecords`; `PermissionComesFromAdminOrTime`;
`TotalsMatchEntries` (total value locked and active count survive any order of
switching and re-appraising, so the saturating decrement and the underflow checks
never decide); `WalkSeesWhatStayed` and `WalkMissesNoMoreThanLeft` (a client reading
a list that only grows sees all of it once; one reading a list with removals, or a
filtered one, misses at most as many lasting entries as left it meanwhile);
`LockupHolds` (removal, re-approval and repeated acquisitions do not shorten a
lock-up, as seen from the balances of the token).

### Fairness

Nothing in the contracts runs by itself, so the only fairness assumed is what
the documentation asks of the operator: `FairSpec` (and `FairReaderSpec`, the same
with a client reading) lets the admin call
`prune_expired` again and again, with each bound in `PruneBound`. With bound 0
every lapsed record disappears. Ledger progress is not assumed.

### Findings

1. `compliance_pruning_doc`: a bounded `prune_expired` starts at the first entry
   every time; with as many live entries in front as the bound, it never
   advances, although "invoke again until the return value is 0" is documented.
2. `dividend_refund_doc`: a distribution funded by an asset admin is refunded to
   the contract admin.
3. `compliance_archival_doc`: `docs/compliance.md:349-351` says of
   `FirstAcquiredLedger` that "the entry expires about 30 days after the first
   acquisition is recorded, regardless of the holding period. Once archived,
   `is_allowed` sees no record and fails open, so the lock-up is silently lifted".
   The first half is what the code does: the entry is extended once, when it is
   written (`compliance/src/lib.rs:1283-1290`), and lock-ups of 90 to 180 days
   (`docs/compliance.md:266`) outlast it. The second half is not: a persistent entry
   that is archived is not an absent one. The host restores it, with its contents, to
   the call that reads it, or refuses the call; it never answers that nothing is
   there. The repository's own tests rely on it: KYC records are extended nowhere
   (`extend_ttl` stands at `compliance/src/lib.rs:201`, `:1232`, `:1286`, `:1351`, none of
   them for a record) and live until ledger 4095
   (`compliance/test_snapshots/test/test_add_to_allowlist_is_allowed.1.json:197`), yet
   `compliance/src/test.rs:846-877` reads them at ledger 500,000 and `:1005-1019` at
   10,000,000, and expects them to count. So the lock-up goes on, as the trace of
   this run shows, and no call of the contract removes the clock.
   `LockupHolds` and `ServedPeriodIsNotRestarted` are the opposite of the quoted
   claim, and *rest on that behaviour of the host*, which is outside the repository.
   If the documentation were right, both would fail: `LockupHolds` at the first
   transfer after the entry's life (its mutant `StillHoldingWhileLive` is the claim,
   and TLC refutes the property with it), `ServedPeriodIsNotRestarted` because
   `record_acquisition` would find no clock and write a new, later one.

Also seen, without a run of their own:

- `docs/compliance.md:107` says of `get_allowlist_count` that "it always matches
  `get_allowlist().len()`"; `prune_expired` (`compliance/src/lib.rs:989-1003`) takes
  addresses off the list and leaves the count alone, which never recovers.
  `CountCoversRoster` holds instead: the count is never too small;
- `burn` *is* gated (`asset-token/src/lib.rs:598`) while `docs/compliance.md:187` and `:309`
  say it is not (`docs/asset-token.md:240` has it right);
- a token valuation of 1 can never be raised, the allowed change being the
  truncated half of it (`asset-token/src/lib.rs:957`), although larger
  re-appraisals are documented as possible in phases;
- `docs/compliance.md:90` leaves the holding period out of `is_allowed`;
- distributions nobody can claim from are accepted (zero balances, a total too
  small for any share, shares whose product overflows), against the comment at
  `dividend/src/lib.rs:347`: only the live total supply is tested;
- without a deadline, dust is stuck: `withdraw_unclaimed`, named at
  `dividend/src/lib.rs:25-27`, does not exist;
- the registry lets the token's own admin switch an entry (`registry/src/lib.rs:1105`),
  which its doc comments call admin only (`registry/src/lib.rs:485`);
- `docs/registry.md:156-161` says a deactivated asset counts again only when
  registered as a new id; `DuplicateAsset` forbids that, and `reactivate_asset`
  brings it back under its old id;
- `registry/src/lib.rs:443-445` tells clients to go on at `start_id + limit`; where
  the limit was clamped that skips entries. `registry/src/lib.rs:357-358`, `:419-420` and
  `docs/registry.md:41-42` tell clients to go on "until the result is shorter than
  `page_size` (or empty)"; where the size was clamped the first reply already is
  shorter, and the walk ends early. `WalkSeesWhatStayed` is about neither: its client
  goes on after what it received, and stops at an empty reply only.

## Proofs

Every theorem holds for every value of the constants: any number of addresses,
any amounts, lists and batches of any length, any page size, any bound. The only
premises are the modules' `ConstantsAssumption`s, which type the inputs and say
what of the code's constants is used, and the two `ReaderAssumption`s, which type
what a client may ask for.

How the proofs are laid out. Each component has one inductive invariant, one lemma
per action that keeps it, and an `Always...` lemma from which the theorems follow.
The prover has no induction over data; `LeastNatural` (a non-empty set of naturals
has a least element) takes its place: if a loop broke a claim, look at the first
iteration that does. `LoopRuns` and `LoopRunsAgree` turn that into facts about the
recursive functions that model loops: a loop stays in any set its body stays in, and
two loops with the same body agree.

### Asset token (`AssetTokenProofs`)

| Theorem | Property |
|---|---|
| `TypeCorrectness`, `SupplyIsConserved`, `TransfersNeverOverflow` | `TypeOK`, `SupplyConservation`, `TransferNeverOverflows` |
| `BalancesMoveOnlyUnderCompliance` | `OnlyCompliantBalancesMove` |
| `DebitsAreConsented`, `AllowancesGrowOnlyByOwner` | `DebitNeedsConsent`, `AllowanceGrowsOnlyByOwner` |
| `PauseFreezesTokens` | `PausedFreezesTokens` |
| `ValuationStaysPositive` | `PositiveValuationStaysPositive` |
| `ImplementsAdminHandover` | refinement of `AdminHandover` |

The inductive invariant is `Ledgered`: the type invariant, `SupplyConservation` and
`NothingBeforeInitialize` (before `initialize` the balances and the valuation are
zero and the token is not paused, which is needed because `initialize` *sets* all
of them). The type invariant is not inductive alone: that a recipient's balance
stays in range in `transfer_from`, and the supply stays natural in `burn`, follows
from conservation. `TransferNeverOverflows` follows: two balances never exceed the
supply, which `mint` keeps within `I128Max`.

Consent is about what a spender *may take*: the live part of an allowance, which
changes with approvals, debits, the ledger and dropped entries alike. `StepPower` says
what each kind of step does to it; a debit of somebody else's balance is then shown
to shrink it by exactly the debit (`OnlySignerDebited` covers the rest).
`ValuationStaysPositive` is arithmetic: the permitted change is a truncated fraction,
below one, of the valuation. It is the only use of
`MAX_VALUATION_CHANGE_BPS < BPS_DENOMINATOR`, which the constants of the code satisfy
(`asset-token/src/lib.rs:132-133`).

### Dividend (`DividendProofs`, `DividendShareProofs`)

| Theorem | Property |
|---|---|
| `TypeCorrectness`, `EscrowAlwaysBacked` | `TypeOK`, `EscrowBacksDistributions` |
| `CancelledNeverPaid`, `AssetIndexAlwaysComplete` | `CancelledPaidNobody`, `AssetIndexComplete` |
| `EntitlementsFrozen`, `ReclaimTakesNoLiveShare` | `EntitlementIsFrozen`, `ReclaimNeverTakesClaimableShare` |
| `ImplementsPots` | refinement of `EscrowPots` |
| `ImplementsAdminHandover` | refinement of `AdminHandover` |
| `SharesAlwaysCovered` | `SharesCoverTotalUpToDust` |
| `SharesAlwaysFunded` | a claimable share never meets `OverDistributed` nor an empty escrow |

The inductive invariant is `Escrowed`. None of its parts stands alone: the escrow
balance is natural after a payment only because it covers what is owed; what is owed
is natural only because no distribution pays more than its total
(`PaidWithinTotals`); and a cancelled distribution is owed nothing only because it
paid nothing. Claim, reclaim and cancellation are three cases of one thing, a draw
from a distribution (`DrawKeepsEscrow`); creation is the only other step that touches
the escrow (`CreationKeepsEscrow`).

`ImplementsPots` is the refinement step by step: creation fills a pot, a draw pays
from it or hands its rest back, everything outside is spending or a donation, and all
other steps leave pots and wallets alone (`NextPots`). Payment of a share of zero
closes a claim without moving anything; pots do not see it.

`DividendShareProofs` adds the floors. For the first *m* listed holders the shares
computed so far times the supply stay within the balances times the total, and fall
short of it by at most *m* times the supply less one (`SharesAddUp`, by `LeastNatural` on *m*); what remains is
cancelling a positive factor (`ProductCancels`, `Quotient`). A claim then moves a share
from what is claimable to what is claimed (`ClaimCovered`). `SharesAlwaysFunded` is the
core of `EntitledHolderCanClaim` in a form without `ENABLED`: the two checks that follow
the computation of a share never refuse it.

### Compliance (`ComplianceProofs`)

| Theorem | Property |
|---|---|
| `TypeCorrectness`, `RosterAlwaysMatchesRecords`, `CountAlwaysCovers` | `TypeOK`, `RosterMatchesRecords`, `CountCoversRoster` |
| `ListAlwaysExact` | the pages, read from first to last, name every member once and nobody else |
| `PageWalkAlwaysComplete` | `PageWalkIsComplete` |
| `BlockedListAlwaysMatches`, `BlockedJurisdictionNeverAllowed` | `BlockedListMatchesFlags`, `NobodyFromBlockedJurisdiction` |
| `PruningTurnsNoVerdict` | `PruneChangesNoVerdict` |
| `ThoroughPruneIsComplete` | a pruning call that reaches the end of the list leaves nobody lapsed on file |
| `PermissionsGrantedOrServed`, `PeriodsServedOnce` | `PermissionComesFromAdminOrTime`, `ServedPeriodIsNotRestarted` |
| `WalksMissOnlyForLeavers` | `WalkMissesNoMoreThanLeft`, of a client that pages meanwhile |
| `ImplementsAdminHandover` | refinement of `AdminHandover` |

The inductive invariant is `Consistent`; TLC finds it true on the instance of
`compliance_roster` too. Its core is `Filed`: no name stands twice on a page, a
name on page *p* has a record and an index entry that says *p*, every record's index
entry leads to a page with its name, the append cursor is at least the length of the
last page, the count is at least the number of records. The cursor is what makes it
inductive: without it a page could be appended to beyond its size. One lemma per
change of the books: `NewcomerFiled` (with `PageOpened` when the page is full),
`RecordReplaced`, `LeaverFiled`, `PruningFiled`; batches by `LoopRuns` over the set of filed
books. The list operators come with facts of their own: what `FlattenSeq` of the
pages contains (`FlattenedItems`) and in which order (`FlatBefore`).

`ThoroughPruneIsComplete` is the safety half of `LapsedRecordsDisappear`: one call does
all there is to do, because `ListExact` puts everybody with a record within its reach.

`PageWalkAlwaysComplete` is about the loop of `get_allowlist_page`: its state is always
a slice of the flattened list (`IsSlice`), one more page extends the reply
(`PageExtendsReply`), and a slice is determined by its bounds (`SliceUnique`, in `PageWalkProofs`). So a reply is
exactly the slice asked for, holes in the pages or not, for every storage page size
and every clamp, and replies that follow each other join to the whole list.

### Registry (`RegistryProofs`)

| Theorem | Property |
|---|---|
| `TypeCorrectness`, `TotalsAreRecounts` | `TypeOK`, `TotalsMatchEntries` |
| `IndexesAlwaysMatch` | `IndexesMatchEntries` |
| `EntriesChangeByRight` | `EntriesChangeOnlyByRight` |
| `WalksSeeWhatStayed` | `WalkSeesWhatStayed`, of a client that walks meanwhile |
| `ImplementsAdminHandover` | refinement of `AdminHandover` |

The inductive invariant is `Recounted`: types, totals and `NothingBeforeInitialize`
together. The total is natural because it is a sum, not because of the checks in
the code; and `initialize`, which sets the totals to zero, keeps them right because
nothing can be on file before it. `EntryAdded` and `EntryReplaced` say what one
entry does to the sum and the count. The indexes need `Recounted` beside them
(`Indexed`): a new id goes to the end of its lists in rising order only because no id
on file exceeds the counter (`NewIdListed`); the other calls change neither the lists
nor whom an entry belongs to, which is `EntryStep` again.

### Paging clients (`PageWalkProofs`)

A client asks for the page after the items it has, while the list changes. Both
theorems rest on lemmas about any list:

- *Lists that only grow at their end* (`Extends`, `Follows`): of what was there when it
  began, the client has received exactly what stands before a cut, once, and it goes on
  at that cut unless all of it stands before the cut (`GrowsUnderWalk`, `GrownReceived`).
- *Lists with removals and insertions* (`CutAt`): the client's position is a count of what
  it received, and the list slides under it. What stays invariant is that the walk has
  in effect read the list up to *some* cut `c`: nothing that stayed was received from
  behind the cut; and what it skipped before the cut, or received twice, together with
  the distance between the cut and the position the client will ask for, is covered
  by the number of items that left or entered. When the list changes, the cut goes
  to just behind the last item that was before it and stays (`CutMoves`, `CutOvertaken`); a reply
  moves it to the end of the reply, unless it is further on; at an empty reply the
  position is past the end of the list, so that the distance pays for what is behind
  the cut (`CutReceived`).
  The two counts stop at a maximum; `Allows` says that a count there covers anything.

All that is needed of a component is that every step keeps the order of the lasting
items (`SameOrder`) and, for the allowlist, that newcomers come last, so that its
cut never overtakes the position and nothing is received twice (`NoneAhead`). In the
registry every view is in rising order of ids (`KeptRising`); in the compliance contract
removals and prunings leave holes in pages (`HolesKeepOrder`) and batches append to the
list entry by entry (`BatchExtends`, again by `LeastNatural`). The inductive invariant
of each client, `ReaderInv`, is the component's own together with `WalkOnCourse`; TLC
finds both true on the instances of `registry` and `compliance_reader`.

### Platform (`PlatformProofs`)

It rests on the assumptions of both components.

- `TokenImplemented`: every behaviour of the composition is one of `AssetToken`,
  with the live verdicts as its `allowed`: a call of the rule book, or the ledger,
  is a change of verdicts there. All theorems of `AssetTokenProofs` carry over.
- `BarredBalancesAreFrozen`: from `TokenImplemented`, the token's gate and what
  `IsAllowed` requires.
- `LockupsHold`: the inductive invariant is `ClocksKept`: the clock the contract
  keeps for a holder is the ledger of the first recorded acquisition; no call
  loses it, not even `remove`, and none restarts it.

### Only model-checked

- `EntitledHolderCanClaim`, because it speaks of `ENABLED`; `SharesAlwaysFunded` is what
  can be said without it.
- `LapsedRecordsDisappear` and the finding about it: liveness under fairness;
  `ThoroughPruneIsComplete` is its safety half.
- The three findings, which say what the code does *not* promise.

## Plan

Every safety property the runs check, but for the one that speaks of `ENABLED`, is
proved. What remains is the registry and the dividend contract beside a live token in
`Platform`. They read only the token's admin and whether it has supply, which their
modules already let change at any moment.

## Not modelled

Event contents and error numbers; names, symbols, descriptions and length
checks; time-to-live extensions and the archival of entries, which on a host that
restores archived entries change no reply (the third finding says where the
documentation disagrees, and which properties depend on it; `docs/storage-ttl-strategy.md:14-17`
lists further extensions of allowlist entries and records that the code does
not make); `created_at` and `verified_at`, which
nothing reads; `version`; contract upgrade, which does not exist; tests, fuzz
targets, scripts and CI.
