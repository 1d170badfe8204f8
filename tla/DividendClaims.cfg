\* Two distributions in one payment token: claims, deadlines, refunds.
CONSTANTS
    issuer = issuer
    alice = alice
    bob = bob
    bonds = bonds
    deeds = deeds
    usdc = usdc
    eurc = eurc
    NoAddress = NoAddress
    Escrow = Escrow
    Address = {issuer, alice, bob}
    AssetToken = {bonds}
    PaymentToken = {usdc, eurc}
    I128Max = 5
    TotalAmount = {0, 1, 3}
    Eligible <- MCEligible
    Deadline = {0, 1}
    Nominee = {}
    Endowment <- MCEndowment
    Gift = {}
    MaxDistributions = 2
    MaxLedger = 2
SPECIFICATION Spec
INVARIANTS TypeOK EscrowBacksDistributions SharesCoverTotalUpToDust EntitledHolderCanClaim CancelledPaidNobody
PROPERTIES EntitlementIsFrozen ReclaimNeverTakesClaimableShare ImplementsIsolatedPots
