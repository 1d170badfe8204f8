\* The token under a live rule book.
CONSTANTS
    issuer = issuer
    holder = holder
    lenient = lenient
    US = US
    NoAddress = NoAddress
    Invalid = Invalid
    RuleBook = RuleBook
    Address = {issuer, holder}
    Admitted <- MCAdmitted
    I128Max = 1
    MAX_VALUATION_CHANGE_BPS = 1
    BPS_DENOMINATOR = 2
    GenesisSupply = {1}
    Amount = {1}
    TokenBatch = {}
    Valuation = {0}
    ApprovalPair = {}
    Nominee = {}
    Guardian = {}
    Spelling = {US}
    Canonical <- MCCanonical
    ALLOWLIST_PAGE_SIZE = 3
    MAX_ALLOWLIST_PAGE_SIZE = 2
    INSTANCE_BUMP_AMOUNT = 1
    Officer = {issuer}
    Subject = {holder}
    Holder = {holder}
    Blockable = {US}
    Expiry = {0, 2}
    RuleBatch <- MCRuleBatch
    MinLedgers = {3}
    PruneBound = {0}
    Successor = {}
    MaxPages = 1
    MaxLedger = 4
SPECIFICATION Spec
PROPERTIES BarredBalanceIsFrozen LockupHolds
