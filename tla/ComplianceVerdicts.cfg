\* Suspension, jurisdictions, holding periods and the admin role.
CONSTANTS
    officer = officer
    alice = alice
    bob = bob
    US = US
    us = us
    KE = KE
    USA = USA
    Invalid = Invalid
    NoAddress = NoAddress
    Address = {officer, alice}
    Spelling = {US, us, KE}
    Canonical <- MCCanonical
    Subject = {officer, alice}
    Holder = {alice}
    Blockable = {us, KE}
    ALLOWLIST_PAGE_SIZE = 1
    MAX_ALLOWLIST_PAGE_SIZE = 2
    INSTANCE_BUMP_AMOUNT = 1
    Expiry = {0, 2}
    Batch = {}
    MinLedgers = {0, 1, 2}
    PruneBound = {0}
    Nominee = {alice}
    MaxPages = 2
    MaxLedger = 3
SPECIFICATION Spec
INVARIANTS BlockedListMatchesFlags NobodyFromBlockedJurisdiction
PROPERTIES PermissionComesFromAdminOrTime ServedPeriodIsNotRestarted AdminRoleHandover
