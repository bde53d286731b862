SPECIFICATION Spec
CONSTANTS
    LAMPORTS_PER_DROPLET = 3
    DROPLETS_PER_NFT = 5
    MAX_INTEREST_SCALER = 3
    LIQUIDATION_REWARD_PERCENTAGE = 1
    REDEEM_FEE_BASIS_POINTS = 0
    SWAP_FEE_BASIS_POINTS = 2000
    DISTRIBUTOR_FEE_BASIS_POINTS = 5000
    U64_MAX = 150000
    U16_MAX = 4
    Durations = {0, 1, 2, 5, 7, 5000, 5001, 40000}
    Counters = {0, 1, 2, 4}
    Scalers = {0, 1, 2, 3}
    ELAPSED_MAX = 7
INVARIANTS
    PrincipalIsReference
    DebtBounded
    RefusedOnlyByOverflow
    InterestProportional
CHECK_DEADLOCK FALSE
