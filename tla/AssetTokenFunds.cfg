\* Token movements, allowances and the pause under changing verdicts.
CONSTANTS
    issuer = issuer
    holder = holder
    spender = spender
    oldRules = oldRules
    newRules = newRules
    NoAddress = NoAddress
    Address <- MCAddress
    ComplianceContract = {oldRules}
    I128Max = 3
    MAX_VALUATION_CHANGE_BPS = 5000
    BPS_DENOMINATOR = 10000
    GenesisSupply <- MCGenesisSupply
    Amount <- MCAmount
    Batch <- MCBatch
    Valuation = {0}
    ApprovalPair <- MCApprovalPair
    Nominee = {}
    Guardian = {spender}
    MaxLedger = 2
SPECIFICATION Spec
INVARIANTS TypeOK SupplyConservation TransferNeverOverflows
PROPERTIES OnlyCompliantBalancesMove PausedFreezesTokens DebitNeedsConsent AllowanceGrowsOnlyByOwner
