\* Who receives the money of a cancelled or expired distribution.
CONSTANTS
    issuer = issuer
    alice = alice
    bob = bob
    bonds = bonds
    deeds = deeds
    usdc = usdc
    eurc = eurc
    NoAddress = NoAddress
    Escrow = Escrow
    Address = {issuer, alice, bob}
    AssetToken = {bonds}
    PaymentToken = {usdc}
    I128Max = 5
    TotalAmount = {0, 1, 3}
    Eligible <- MCEligible
    Deadline = {0, 1}
    Nominee = {bob}
    Endowment <- MCEndowment
    Gift = {}
    MaxDistributions = 1
    MaxLedger = 2
SPECIFICATION Spec
PROPERTY RefundGoesToFunder
