\* Several assets and payment tokens, gifts to the escrow, moving roles.
CONSTANTS
    issuer = issuer
    alice = alice
    bob = bob
    bonds = bonds
    deeds = deeds
    usdc = usdc
    eurc = eurc
    NoAddress = NoAddress
    Escrow = Escrow
    Address = {issuer, alice}
    AssetToken = {bonds, deeds}
    PaymentToken = {usdc}
    I128Max = 5
    TotalAmount = {2}
    Eligible <- MCOneList
    Deadline = {0}
    Nominee = {alice}
    Endowment <- MCOnePayer
    Gift = {1}
    MaxDistributions = 2
    MaxLedger = 0
SPECIFICATION Spec
INVARIANTS EscrowBacksDistributions AssetIndexComplete
PROPERTIES AdminRoleHandover
