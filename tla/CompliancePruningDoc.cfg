\* Pruning with a bound of one entry, repeated.
CONSTANTS
    officer = officer
    alice = alice
    bob = bob
    US = US
    us = us
    KE = KE
    USA = USA
    Invalid = Invalid
    NoAddress = NoAddress
    Address = {officer, alice, bob}
    Spelling = {US}
    Canonical <- MCCanonical
    Subject = {alice, bob}
    Holder = {}
    Blockable = {}
    ALLOWLIST_PAGE_SIZE = 1
    MAX_ALLOWLIST_PAGE_SIZE = 2
    INSTANCE_BUMP_AMOUNT = 1
    Expiry = {0, 2}
    Batch = {}
    MinLedgers = {}
    PruneBound = {1}
    Nominee = {}
    MaxPages = 3
    MaxLedger = 3
SPECIFICATION FairSpec
PROPERTY LapsedRecordsDisappear
