SPECIFICATION FairStakingSpec
CONSTANTS
    LAMPORTS_PER_DROPLET = 2
    DROPLETS_PER_NFT = 5
    MAX_INTEREST_SCALER = 2
    LIQUIDATION_REWARD_PERCENTAGE = 1
    REDEEM_FEE_BASIS_POINTS = 0
    SWAP_FEE_BASIS_POINTS = 2000
    DISTRIBUTOR_FEE_BASIS_POINTS = 5000
    U64_MAX = 100000
    U16_MAX = 1
    u1 = u1
    n1 = n1
    n2 = n2
    d1 = d1
    f1 = f1
    f2 = f2
    Users <- MCOneUser
    Nfts <- MCOneNft
    Droplets <- MCOneDroplet
    Farms <- MCFarms
    FarmConfigs <- MCConfigs
    NoFarm = NoFarm
    MIN_UNSTAKING_FEE = 3
    UNSTAKING_LAMPORTS = 4
    LamportsSent = {0, 1}
    FARMER_REUSABLE = FALSE
    Banned = {}
    Collections <- MCAll
    SOLVENT_AUTHORITY = SOLVENT_AUTHORITY
    SOLVENT_CORE_TREASURY = SOLVENT_CORE_TREASURY
    SOLVENT_LOCKERS_TREASURY = SOLVENT_LOCKERS_TREASURY
    NoLocker = NoLocker
    MAX_TIME = 2
    Recipients <- MCOneUser
    LockDurations = {}
    MaxDurations = {}
    Scalers = {}
    TransferAmounts = {}
INVARIANTS
    FarmCustody
PROPERTIES
    BroughtBack
