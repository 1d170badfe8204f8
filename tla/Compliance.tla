----------------------------- MODULE Compliance -----------------------------
(***************************************************************************)
(* The compliance contract: KYC records with expiry and suspension, the    *)
(* paged list of their addresses with its cached count, blocked            *)
(* jurisdictions, and minimum holding periods.  is_allowed combines them   *)
(* into the verdict the asset tokens consult.                              *)
(*                                                                         *)
(* One action is one successful invocation; a panicking one is reverted    *)
(* and is a stuttering step.  Pages are numbered from 1, page 0 meaning    *)
(* none.  verified_at, which no operation reads, and events are left out.  *)
(* A read finds a persistent entry also after its time to live: the host   *)
(* archives such an entry and restores it with its contents, as the tests  *)
(* that advance the ledger by months rely on.                              *)
(***************************************************************************)
EXTENDS FiniteSets, Lists

Seqs == INSTANCE SequencesExt

CONSTANTS
    Address, NoAddress,
    Spelling,                \* country codes as callers write them
    Canonical,               \* what normalize_jurisdiction makes of a spelling
    Invalid,                 \* its outcome for a spelling it rejects
    ALLOWLIST_PAGE_SIZE, MAX_ALLOWLIST_PAGE_SIZE,
    INSTANCE_BUMP_AMOUNT,    \* how many ledgers an entry lives once extended
    \* the inputs a model tries
    Subject, Holder,         \* addresses to approve, and to give holding periods
    Blockable, Expiry, Batch, MinLedgers, PruneBound, Nominee,
    MaxPages, MaxLedger

Jurisdiction == {Canonical[s] : s \in Spelling} \ {Invalid}

ASSUME ConstantsAssumption ==
    /\ IsFiniteSet(Address)
    /\ NoAddress \notin Address
    /\ Jurisdiction \subseteq Spelling
    /\ \A j \in Jurisdiction : Canonical[j] = j
    /\ ALLOWLIST_PAGE_SIZE \in Nat \ {0}
    /\ MAX_ALLOWLIST_PAGE_SIZE \in Nat \ {0}
    /\ INSTANCE_BUMP_AMOUNT \in Nat \ {0}
    /\ Expiry \subseteq Nat
    /\ Batch \subseteq Seq([address : Address, spelling : Spelling, expires_at : Expiry])
    /\ MinLedgers \subseteq Nat
    /\ PruneBound \subseteq Nat
    /\ Nominee \union Subject \union Holder \subseteq Address
    /\ Blockable \subseteq Spelling
    /\ MaxPages \in Nat \ {0}
    /\ MaxLedger \in Nat \ {0}

VARIABLES
    admin, pending_admin,
    record,           \* DataKey::Record
    roster,           \* pages, page_of, length of the append page, count
    blocked,          \* jurisdictions with DataKey::Blocked
    blocked_list,     \* DataKey::BlockedList
    min_holding, first_acquired,      \* 0 when absent
    ledger, signer    \* environment

roleVars == <<admin, pending_admin>>
bookVars == <<record, roster>>
blockVars == <<blocked, blocked_list>>
holdingVars == <<min_holding, first_acquired>>
vars == <<roleVars, bookVars, blockVars, holdingVars, ledger, signer>>

KycRecord == [status : {"Approved", "Suspended"}, jurisdiction : Jurisdiction,
              expires_at : Expiry]

NoRecord == [status |-> "None", jurisdiction |-> Invalid, expires_at |-> 0]

Init ==
    /\ admin = NoAddress
    /\ pending_admin = NoAddress
    /\ record = [a \in Address |-> NoRecord]
    /\ roster = [pages |-> << <<>> >>, page_len |-> 0,
                 page_of |-> [a \in Address |-> 0], count |-> 0]
    /\ blocked = {}
    /\ blocked_list = <<>>
    /\ min_holding = [a \in Address |-> 0]
    /\ first_acquired = [a \in Address |-> 0]
    /\ ledger = 1
    /\ signer = NoAddress

-----------------------------------------------------------------------------
(* Checks and queries. *)

RequireAuth(a) == signer' = a

Initialized == admin # NoAddress

RequireAdmin(a) == Initialized /\ RequireAuth(a) /\ a = admin

Recorded(a) == record[a] # NoRecord

Lapsed(r) == r.expires_at # 0 /\ ledger >= r.expires_at

IsJurisdictionBlocked(j) == Canonical[j] \in blocked

\* The entry of the clock is extended when it is written, and never again.
ClockOutlived(a) ==
    first_acquired[a] > 0 /\ ledger > first_acquired[a] + INSTANCE_BUMP_AMOUNT

\* Mutant: a clock that outlived its entry reads as none.
StillHoldingWhileLive(a) ==
    /\ min_holding[a] > 0
    /\ first_acquired[a] > 0
    /\ ledger < first_acquired[a] + min_holding[a]
    /\ ~ClockOutlived(a)

\* No recorded acquisition counts as a period already served.
StillHolding(a) ==
    /\ min_holding[a] > 0
    /\ first_acquired[a] > 0
    /\ ledger < first_acquired[a] + min_holding[a]

\* Mutant: the approval still counts in the ledger it expires at.
IsAllowedThroughExpiry(a) ==
    /\ record[a].status = "Approved"
    /\ record[a].expires_at = 0 \/ ledger <= record[a].expires_at
    /\ ~IsJurisdictionBlocked(record[a].jurisdiction)
    /\ ~StillHolding(a)

IsAllowed(a) ==
    /\ record[a].status = "Approved"
    /\ ~Lapsed(record[a])
    /\ ~IsJurisdictionBlocked(record[a].jurisdiction)
    /\ ~StillHolding(a)

GetAllowlist == Seqs!FlattenSeq(roster.pages)

\* Mutant: every page skips offset entries afresh.
PageStepForgetful(walk, page, offset, limit) ==
    LET skip == Least(offset, Len(page))
        take == Least(limit - Len(walk.result), Len(page) - skip)
    IN  [skipped |-> offset, result |-> walk.result \o SubSeq(page, skip + 1, skip + take)]

\* What one stored page contributes to a reply.
PageStep(walk, page, offset, limit) ==
    LET skip == Least(offset - walk.skipped, Len(page))
        take == Least(limit - Len(walk.result), Len(page) - skip)
    IN  [skipped |-> walk.skipped + skip,
         result |-> walk.result \o SubSeq(page, skip + 1, skip + take)]

CappedLimit(limit) ==
    IF limit = 0 \/ limit > MAX_ALLOWLIST_PAGE_SIZE THEN MAX_ALLOWLIST_PAGE_SIZE ELSE limit

GetAllowlistPage(offset, limit) ==
    LET walk[p \in 0..Len(roster.pages)] ==
            IF p = 0 THEN [skipped |-> 0, result |-> <<>>]
            ELSE PageStep(walk[p - 1], roster.pages[p], offset, CappedLimit(limit))
    IN  walk[Len(roster.pages)].result

-----------------------------------------------------------------------------
(* The roster. *)

\* Mutant: a page takes one address too many.
AppendedOverfull(r, a) ==
    LET full == r.page_len > ALLOWLIST_PAGE_SIZE
        pages == IF full THEN Append(r.pages, <<>>) ELSE r.pages
    IN  [pages |-> [pages EXCEPT ![Len(pages)] = Append(@, a)],
         page_len |-> IF full THEN 1 ELSE r.page_len + 1,
         page_of |-> [r.page_of EXCEPT ![a] = Len(pages)],
         count |-> r.count + 1]

\* Mutant: opening a page forgets to count its first address.
AppendedUncounted(r, a) ==
    LET full == r.page_len >= ALLOWLIST_PAGE_SIZE
        pages == IF full THEN Append(r.pages, <<>>) ELSE r.pages
    IN  [pages |-> [pages EXCEPT ![Len(pages)] = Append(@, a)],
         page_len |-> IF full THEN 1 ELSE r.page_len + 1,
         page_of |-> [r.page_of EXCEPT ![a] = Len(pages)],
         count |-> IF full THEN r.count ELSE r.count + 1]

\* A page once filled is never appended to again, even after removals.
Appended(r, a) ==
    LET full == r.page_len >= ALLOWLIST_PAGE_SIZE
        pages == IF full THEN Append(r.pages, <<>>) ELSE r.pages
    IN  [pages |-> [pages EXCEPT ![Len(pages)] = Append(@, a)],
         page_len |-> IF full THEN 1 ELSE r.page_len + 1,
         page_of |-> [r.page_of EXCEPT ![a] = Len(pages)],
         count |-> r.count + 1]

RemovedFrom(r, a) ==
    IF r.page_of[a] = 0 THEN r
    ELSE [pages |-> [r.pages EXCEPT ![r.page_of[a]] = Without(@, {a})],
          page_len |-> r.page_len,
          page_of |-> [r.page_of EXCEPT ![a] = 0],
          count |-> IF r.count = 0 THEN 0 ELSE r.count - 1]

Approval(entry) == [status |-> "Approved", jurisdiction |-> Canonical[entry.spelling],
                    expires_at |-> entry.expires_at]

ValidEntry(entry) ==
    /\ entry.expires_at = 0 \/ entry.expires_at > ledger
    /\ Canonical[entry.spelling] # Invalid

\* Mutant: who is new is decided from the records before the batch.
EnrolledFromStaleRecord(books, entry) ==
    [record |-> [books.record EXCEPT ![entry.address] = Approval(entry)],
     roster |-> IF Recorded(entry.address) THEN books.roster
                ELSE Appended(books.roster, entry.address)]

\* The record is overwritten whatever its status; only a new address is
\* appended to the roster.
Enrolled(books, entry) ==
    [record |-> [books.record EXCEPT ![entry.address] = Approval(entry)],
     roster |-> IF books.record[entry.address] # NoRecord THEN books.roster
                ELSE Appended(books.roster, entry.address)]

\* Records and roster after the first i entries, for every i.
EnrolmentRun(entries) ==
    LET run[i \in 0..Len(entries)] ==
            IF i = 0 THEN [record |-> record, roster |-> roster]
            ELSE Enrolled(run[i - 1], entries[i])
    IN  run

-----------------------------------------------------------------------------
Initialize(caller) ==
    /\ ~Initialized
    /\ RequireAuth(caller)
    /\ admin' = caller
    /\ UNCHANGED <<pending_admin, bookVars, blockVars, holdingVars, ledger>>

AddToAllowlistBatch(caller, entries) ==
    /\ RequireAdmin(caller)
    /\ \A i \in DOMAIN entries : ValidEntry(entries[i])
    /\ LET books == EnrolmentRun(entries)[Len(entries)]
       IN  /\ Len(books.roster.pages) <= MaxPages
           /\ record' = books.record
           /\ roster' = books.roster
    /\ UNCHANGED <<roleVars, blockVars, holdingVars, ledger>>

AddToAllowlist(caller, address, spelling, expires_at) ==
    AddToAllowlistBatch(caller,
        <<[address |-> address, spelling |-> spelling, expires_at |-> expires_at]>>)

Suspend(caller, address) ==
    /\ RequireAdmin(caller)
    /\ Recorded(address)
    /\ record' = [record EXCEPT ![address].status = "Suspended"]
    /\ UNCHANGED <<roleVars, roster, blockVars, holdingVars, ledger>>

ReinstateBy(caller, address) ==
    /\ RequireAuth(caller)
    /\ Recorded(address)
    /\ record[address].status = "Suspended"
    /\ record' = [record EXCEPT ![address].status = "Approved"]
    /\ UNCHANGED <<roleVars, roster, blockVars, holdingVars, ledger>>

\* Mutant: whoever signs may lift a suspension.
ReinstateByAnyone(caller, address) == Initialized /\ ReinstateBy(caller, address)

Reinstate(caller, address) == RequireAdmin(caller) /\ ReinstateBy(caller, address)

\* Mutant: leaving the allowlist resets the holding clock.
RemoveForgettingClock(caller, address) ==
    /\ RequireAdmin(caller)
    /\ Recorded(address)
    /\ record' = [record EXCEPT ![address] = NoRecord]
    /\ roster' = RemovedFrom(roster, address)
    /\ first_acquired' = [first_acquired EXCEPT ![address] = 0]
    /\ UNCHANGED <<roleVars, blockVars, min_holding, ledger>>

Remove(caller, address) ==
    /\ RequireAdmin(caller)
    /\ Recorded(address)
    /\ record' = [record EXCEPT ![address] = NoRecord]
    /\ roster' = RemovedFrom(roster, address)
    /\ UNCHANGED <<roleVars, blockVars, holdingVars, ledger>>

\* Mutant: the page still being filled is not scanned.
ExaminedOnFullPages(max_records) ==
    LET list == Seqs!FlattenSeq(SubSeq(roster.pages, 1, Len(roster.pages) - 1))
        n == IF max_records = 0 THEN Len(list) ELSE Least(max_records, Len(list))
    IN  {list[k] : k \in 1..n}

\* The entries a pruning call looks at: always the first ones of the list,
\* whether or not an earlier call looked at them already.
Examined(max_records) ==
    LET list == GetAllowlist
        n == IF max_records = 0 THEN Len(list) ELSE Least(max_records, Len(list))
    IN  {list[k] : k \in 1..n}

\* An entry without a record loses its page slot only; the count stays.
PruneExpired(caller, max_records) ==
    LET examined == Examined(max_records)
        lapsed == {a \in examined : Recorded(a) /\ Lapsed(record[a])}
        stray == {a \in examined : ~Recorded(a)}
    IN  /\ RequireAdmin(caller)
        /\ record' = [a \in Address |-> IF a \in lapsed THEN NoRecord ELSE record[a]]
        /\ roster' = [roster EXCEPT
               !.pages = [p \in DOMAIN @ |-> Without(@[p], lapsed \union stray)],
               !.page_of = [a \in Address |-> IF a \in lapsed THEN 0 ELSE @[a]]]
        /\ UNCHANGED <<roleVars, blockVars, holdingVars, ledger>>

\* Mutant: the list grows on every call.
ListedAfterBlockAlways(j) == Append(blocked_list, j)

ListedAfterBlock(j) == IF j \in blocked THEN blocked_list ELSE Append(blocked_list, j)

\* Mutant: the flag and the list keep the code as it was spelled.
BlockJurisdictionAsSpelled(caller, spelling) ==
    /\ RequireAdmin(caller)
    /\ Canonical[spelling] # Invalid
    /\ blocked' = blocked \union {spelling}
    /\ blocked_list' = ListedAfterBlock(spelling)
    /\ UNCHANGED <<roleVars, bookVars, holdingVars, ledger>>

BlockJurisdiction(caller, spelling) ==
    LET j == Canonical[spelling]
    IN  /\ RequireAdmin(caller)
        /\ j # Invalid
        /\ blocked' = blocked \union {j}
        /\ blocked_list' = ListedAfterBlock(j)
        /\ UNCHANGED <<roleVars, bookVars, holdingVars, ledger>>

UnblockJurisdiction(caller, spelling) ==
    LET j == Canonical[spelling]
    IN  /\ RequireAdmin(caller)
        /\ j # Invalid
        /\ blocked' = blocked \ {j}
        /\ blocked_list' = Without(blocked_list, {j})
        /\ UNCHANGED <<roleVars, bookVars, holdingVars, ledger>>

SetMinHoldingPeriod(caller, holder, min_ledgers) ==
    /\ RequireAdmin(caller)
    /\ min_holding' = [min_holding EXCEPT ![holder] = min_ledgers]
    /\ UNCHANGED <<roleVars, bookVars, blockVars, first_acquired, ledger>>

\* Mutant: a later acquisition overwrites the first one.
ClockAfterAcquisitionLatest(holder) == ledger

ClockAfterAcquisition(holder) ==
    IF first_acquired[holder] = 0 THEN ledger ELSE first_acquired[holder]

RecordAcquisition(caller, holder) ==
    /\ RequireAdmin(caller)
    /\ first_acquired' = [first_acquired EXCEPT ![holder] = ClockAfterAcquisition(holder)]
    /\ UNCHANGED <<roleVars, bookVars, blockVars, min_holding, ledger>>

ProposeAdmin(caller, new_admin) ==
    /\ RequireAdmin(caller)
    /\ pending_admin' = new_admin
    /\ UNCHANGED <<admin, bookVars, blockVars, holdingVars, ledger>>

CancelAdminProposal(caller) ==
    /\ RequireAdmin(caller)
    /\ pending_admin # NoAddress
    /\ pending_admin' = NoAddress
    /\ UNCHANGED <<admin, bookVars, blockVars, holdingVars, ledger>>

\* Mutant: the nomination survives its use.
AcceptAdminKeepingPending(new_admin) ==
    /\ RequireAuth(new_admin)
    /\ pending_admin = new_admin
    /\ Initialized
    /\ admin' = new_admin
    /\ UNCHANGED <<pending_admin, bookVars, blockVars, holdingVars, ledger>>

AcceptAdmin(new_admin) ==
    /\ RequireAuth(new_admin)
    /\ pending_admin # NoAddress
    /\ pending_admin = new_admin
    /\ Initialized
    /\ admin' = new_admin
    /\ pending_admin' = NoAddress
    /\ UNCHANGED <<bookVars, blockVars, holdingVars, ledger>>

\* The ledger advances.
CloseLedger ==
    /\ ledger < MaxLedger
    /\ ledger' = ledger + 1
    /\ signer' = NoAddress
    /\ UNCHANGED <<roleVars, bookVars, blockVars, holdingVars>>

-----------------------------------------------------------------------------
RosterStep(caller) ==
    \/ \E a \in Subject, s \in Spelling, e \in Expiry : AddToAllowlist(caller, a, s, e)
    \/ \E entries \in Batch : AddToAllowlistBatch(caller, entries)
    \/ \E a \in Subject : Remove(caller, a)
    \/ \E n \in PruneBound : PruneExpired(caller, n)

VerdictStep(caller) ==
    \/ \E a \in Subject : Suspend(caller, a) \/ Reinstate(caller, a)
    \/ \E s \in Blockable : BlockJurisdiction(caller, s) \/ UnblockJurisdiction(caller, s)
    \/ \E a \in Holder, n \in MinLedgers : SetMinHoldingPeriod(caller, a, n)
    \/ \E a \in Holder : RecordAcquisition(caller, a)

AdminStep(caller) ==
    \/ Initialize(caller)
    \/ \E a \in Nominee : ProposeAdmin(caller, a)
    \/ CancelAdminProposal(caller)
    \/ AcceptAdmin(caller)

Next ==
    \/ \E a \in Address : RosterStep(a) \/ VerdictStep(a) \/ AdminStep(a)
    \/ CloseLedger

Spec == Init /\ [][Next]_vars

\* The admin keeps pruning, with each of the bounds it uses.
FairSpec ==
    /\ Spec
    /\ \A n \in PruneBound : WF_vars(PruneExpired(admin, n))

-----------------------------------------------------------------------------
(* Properties. *)

Occurrences(a) == {o \in (1..MaxPages) \X (1..ALLOWLIST_PAGE_SIZE) :
                      /\ o[1] \in DOMAIN roster.pages
                      /\ o[2] \in DOMAIN roster.pages[o[1]]
                      /\ roster.pages[o[1]][o[2]] = a}

\* Every variable stays in its type.
TypeOK ==
    /\ admin \in Address \union {NoAddress}
    /\ pending_admin \in Address \union {NoAddress}
    /\ record \in [Address -> KycRecord \union {NoRecord}]
    /\ roster \in [pages : Seq(Seq(Address)), page_len : 0..ALLOWLIST_PAGE_SIZE,
                   page_of : [Address -> 0..MaxPages], count : Nat]
    /\ Len(roster.pages) \in 1..MaxPages
    /\ blocked \subseteq Jurisdiction
    /\ blocked_list \in Seq(Jurisdiction)
    /\ min_holding \in [Address -> MinLedgers \union {0}]
    /\ first_acquired \in [Address -> 0..MaxLedger]
    /\ ledger \in 1..MaxLedger
    /\ signer \in Address \union {NoAddress}

\* Records, page slots and the page-of index describe the same people: an
\* address has a record exactly when it stands on one page, once, and the
\* index names that page; no page holds more than its capacity, and the
\* append cursor never understates the page being filled.
RosterMatchesRecords ==
    /\ \A a \in Address :
           IF Recorded(a) THEN /\ Cardinality(Occurrences(a)) = 1
                               /\ \A o \in Occurrences(a) : o[1] = roster.page_of[a]
           ELSE Occurrences(a) = {} /\ roster.page_of[a] = 0
    /\ \A p \in DOMAIN roster.pages : Len(roster.pages[p]) <= ALLOWLIST_PAGE_SIZE
    /\ Len(roster.pages[Len(roster.pages)]) <= roster.page_len

\* The cached count never falls below the list it counts, so its saturating
\* decrement never hides an error.
CountCoversRoster == roster.count >= Len(GetAllowlist)

\* A client that asks for page after page, advancing by what it received,
\* sees the whole list in order, for every page size and holes in the pages.
PageWalkIsComplete ==
    \A limit \in 0..(MAX_ALLOWLIST_PAGE_SIZE + 1) :
        LET list == GetAllowlist
        IN  \A offset \in 0..Len(list) :
                GetAllowlistPage(offset, limit) =
                    SubSeq(list, offset + 1, Least(offset + CappedLimit(limit), Len(list)))

\* Housekeeping decides nothing: no pruning call, whatever its bound, turns
\* the verdict on any address.
PruneChangesNoVerdict ==
    [][(\E n \in PruneBound : PruneExpired(admin, n)) =>
          \A h \in Address : IsAllowed(h)' = IsAllowed(h)]_vars

\* The flags that decide and the list that is published agree, in one order
\* and without repetition, after any series of blocks and unblocks.
BlockedListMatchesFlags ==
    /\ {blocked_list[k] : k \in DOMAIN blocked_list} = blocked
    /\ Len(blocked_list) = Cardinality(blocked)

\* However the code was spelled when the record was approved and when the
\* jurisdiction was blocked, nobody from a published jurisdiction is allowed.
NobodyFromBlockedJurisdiction ==
    \A a \in Address, k \in DOMAIN blocked_list :
        IsAllowed(a) => record[a].jurisdiction # Canonical[blocked_list[k]]

\* Nobody becomes allowed without the administrator, except by serving out a
\* holding period: not by expiry, another holder or an old admin.  (What the
\* administrator's own pruning may do is PruneChangesNoVerdict.)
PermissionComesFromAdminOrTime ==
    [][\A a \in Address :
          (~IsAllowed(a) /\ IsAllowed(a)') =>
              signer' = admin \/ (StillHolding(a) /\ ledger' > ledger)]_vars

\* Repeating record_acquisition, or removing and re-approving a holder, never
\* prolongs a holding period: who has served it is locked again only by a
\* longer one.
ServedPeriodIsNotRestarted ==
    [][\A a \in Address :
          (first_acquired[a] > 0 /\ ~StillHolding(a) /\ StillHolding(a)') =>
              min_holding'[a] > min_holding[a]]_vars

\* While the admin keeps pruning with the bounds it uses, no record stays on
\* file after it lapsed.  The comment of prune_expired promises it for every
\* bound: call again, and a large list is pruned incrementally.
LapsedRecordsDisappear ==
    \A a \in Address :
        (Recorded(a) /\ Lapsed(record[a])) ~> ~(Recorded(a) /\ Lapsed(record[a]))

\* The admin role follows the two-step handover of AdminHandover.
Handover == INSTANCE AdminHandover
AdminRoleHandover == Handover!Spec

\* docs/compliance.md: FirstAcquiredLedger expires about 30 days after the
\* first acquisition, whatever the holding period; once it is archived,
\* is_allowed sees no record and fails open, so the lock-up is lifted.
ArchivedClockFailsOpen ==
    \A a \in Address :
        /\ record[a].status = "Approved"
        /\ ~Lapsed(record[a])
        /\ ~IsJurisdictionBlocked(record[a].jurisdiction)
        /\ ClockOutlived(a)
        => IsAllowed(a)
=============================================================================
