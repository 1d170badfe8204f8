\* A holding period that outlasts the storage entry of its clock.
CONSTANTS
    officer = officer
    alice = alice
    bob = bob
    US = US
    us = us
    KE = KE
    USA = USA
    Invalid = Invalid
    NoAddress = NoAddress
    Address = {officer, alice}
    Spelling = {US}
    Canonical <- MCCanonical
    Subject = {alice}
    Holder = {alice}
    Blockable = {}
    ALLOWLIST_PAGE_SIZE = 2
    MAX_ALLOWLIST_PAGE_SIZE = 2
    INSTANCE_BUMP_AMOUNT = 1
    Expiry = {0}
    Batch = {}
    MinLedgers = {3}
    PruneBound = {0}
    Nominee = {}
    MaxPages = 1
    MaxLedger = 3
SPECIFICATION Spec
INVARIANT ArchivedClockFailsOpen
