\* Registrations, re-appraisals and (de)activations, under a client reading a paged view.
CONSTANTS
    officer = officer
    alice = alice
    deeds = deeds
    bonds = bonds
    estate = estate
    debt = debt
    Debt = Debt
    NoAddress = NoAddress
    Address = {officer, alice}
    TokenContract = {deeds, bonds}
    VALID_ASSET_TYPES = {estate, debt}
    MAX_PAGE_SIZE = 1
    I128Max = 2
    Registration <- MCRegistrations
    Valuation <- MCValuation
    Nominee = {alice}
    AssetAdmin <- MCAssetAdmin
    MaxAssets = 3
    View = {"ids", "positions", "active", "inactive", "issuer", "type"}
    ReadIssuer = alice
    ReadType = debt
    PageSize = {2}
SPECIFICATION ReaderSpec
INVARIANTS TypeOK TotalsMatchEntries IndexesMatchEntries WalkSeesWhatStayed
PROPERTIES EntriesChangeOnlyByRight AdminRoleHandover
