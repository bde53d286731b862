SPECIFICATION MigrationSpec
CONSTANTS
    LAMPORTS_PER_DROPLET = 2
    DROPLETS_PER_NFT = 5
    MAX_INTEREST_SCALER = 2
    LIQUIDATION_REWARD_PERCENTAGE = 1
    REDEEM_FEE_BASIS_POINTS = 0
    SWAP_FEE_BASIS_POINTS = 2000
    DISTRIBUTOR_FEE_BASIS_POINTS = 5000
    U64_MAX = 100000
    U16_MAX = 2
    u1 = u1
    n1 = n1
    n2 = n2
    d1 = d1
    d2 = d2
    Users <- MCOneUser
    Nfts <- MCNfts
    Droplets <- MCDroplets
    Banned = {}
    Collections <- MCAll
    SOLVENT_AUTHORITY = SOLVENT_AUTHORITY
    SOLVENT_CORE_TREASURY = SOLVENT_CORE_TREASURY
    SOLVENT_LOCKERS_TREASURY = SOLVENT_LOCKERS_TREASURY
    NoLocker = NoLocker
    MAX_TIME = 1
    Recipients <- MCOneUser
    LockDurations = {0, 1}
    MaxDurations = {1}
    Scalers = {0}
    TransferAmounts = {5}
    SOLVENT_MIGRATION_CRANK = SOLVENT_MIGRATION_CRANK
    OLD_PROGRAM = OLD_PROGRAM
INVARIANTS
    MigrationTypeOK
    Custody
    CountersMatch
    MigrationSolvency
    AllDropletsBacked
    OthersSolvent
SYMMETRY MCSymmetry
