\* Unbounded pruning, repeated, under a client reading the list.
CONSTANTS
    officer = officer
    alice = alice
    US = US
    Invalid = Invalid
    NoAddress = NoAddress
    Address = {officer, alice}
    Spelling = {US}
    Canonical <- MCCanonical
    Subject = {officer, alice}
    Holder = {}
    Blockable = {}
    ALLOWLIST_PAGE_SIZE = 1
    MAX_ALLOWLIST_PAGE_SIZE = 2
    INSTANCE_BUMP_AMOUNT = 1
    Expiry = {0, 2}
    Batch = {}
    MinLedgers = {}
    PruneBound = {0}
    Nominee = {}
    MaxPages = 3
    MaxLedger = 3
    Limit = {1}
SPECIFICATION FairReaderSpec
INVARIANT WalkMissesNoMoreThanLeft
PROPERTY LapsedRecordsDisappear
