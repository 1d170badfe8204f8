\* Approvals, batches, removals and pruning on small pages.
CONSTANTS
    officer = officer
    alice = alice
    bob = bob
    US = US
    us = us
    KE = KE
    USA = USA
    Invalid = Invalid
    NoAddress = NoAddress
    Address = {officer, alice, bob}
    Spelling = {US, us, USA}
    Canonical <- MCCanonical
    Subject = {officer, alice, bob}
    Holder = {}
    Blockable = {}
    ALLOWLIST_PAGE_SIZE = 2
    MAX_ALLOWLIST_PAGE_SIZE = 2
    INSTANCE_BUMP_AMOUNT = 1
    Expiry = {0, 2}
    Batch <- MCBatch
    MinLedgers = {}
    PruneBound = {0, 1}
    Nominee = {}
    MaxPages = 3
    MaxLedger = 3
SPECIFICATION Spec
INVARIANTS TypeOK RosterMatchesRecords CountCoversRoster PageWalkIsComplete
PROPERTY PruneChangesNoVerdict
