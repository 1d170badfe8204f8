\* Admin role, guardian, compliance contract and valuation.
CONSTANTS
    issuer = issuer
    holder = holder
    spender = spender
    oldRules = oldRules
    newRules = newRules
    NoAddress = NoAddress
    Address <- MCAddress
    ComplianceContract = {oldRules, newRules}
    I128Max = 30000
    MAX_VALUATION_CHANGE_BPS = 5000
    BPS_DENOMINATOR = 10000
    GenesisSupply = {1}
    Amount = {}
    Batch = {}
    Valuation <- MCValuation
    ApprovalPair = {}
    Nominee = {issuer, holder, spender}
    Guardian = {spender}
    MaxLedger = 1
SPECIFICATION Spec
PROPERTIES AdminRoleHandover PositiveValuationStaysPositive
