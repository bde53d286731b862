SPECIFICATION Spec
CONSTANTS
    LAMPORTS_PER_DROPLET = 2
    DROPLETS_PER_NFT = 5
    MAX_INTEREST_SCALER = 2
    LIQUIDATION_REWARD_PERCENTAGE = 1
    REDEEM_FEE_BASIS_POINTS = 0
    SWAP_FEE_BASIS_POINTS = 2000
    DISTRIBUTOR_FEE_BASIS_POINTS = 5000
    U64_MAX = 100000
    U16_MAX = 2
    u1 = u1
    u2 = u2
    n1 = n1
    n2 = n2
    n3 = n3
    n4 = n4
    d1 = d1
    d2 = d2
    Users <- MCOneUser
    Nfts <- MCThreeNfts
    Droplets <- MCOneDroplet
    Banned = {}
    Collections <- MCAll
    SOLVENT_AUTHORITY = SOLVENT_AUTHORITY
    SOLVENT_CORE_TREASURY = SOLVENT_CORE_TREASURY
    SOLVENT_LOCKERS_TREASURY = SOLVENT_LOCKERS_TREASURY
    NoLocker = NoLocker
    MAX_TIME = 3
    Recipients <- MCOneUser
    LockDurations = {2}
    MaxDurations = {2}
    Scalers = {2, 3}
    TransferAmounts = {}
INVARIANTS
    CountersMatch
    Solvency
    RepaymentBounded
PROPERTIES
    LockerSettledInOneWay
    VaultsImplemented
SYMMETRY MCNftSymmetry
