------------------------------ MODULE LoanMath ------------------------------
(***************************************************************************)
(* The arithmetic of the program: the loan terms quoted when an NFT is     *)
(* locked, the interest paid when it is unlocked, the droplets minted when *)
(* a locker is liquidated, and the fees of a redemption or a swap.         *)
(*                                                                         *)
(* The code computes on u64 with checked operations whose failure aborts   *)
(* the instruction.  Here each result is an exact natural number, and a    *)
(* predicate named ...Defined says that no checked operation fails.        *)
(***************************************************************************)
EXTENDS Integers

CONSTANTS
    LAMPORTS_PER_DROPLET,
    DROPLETS_PER_NFT,
    MAX_INTEREST_SCALER,
    LIQUIDATION_REWARD_PERCENTAGE,
    REDEEM_FEE_BASIS_POINTS,
    SWAP_FEE_BASIS_POINTS,
    DISTRIBUTOR_FEE_BASIS_POINTS,
    U64_MAX,     \* largest u64
    U16_MAX      \* largest u16, the width of the NFT counters

\* The basis points in a whole.
MAX_BASIS_POINTS == 10000

\* The droplet lamports that one NFT stands for.
NFT_VALUE == DROPLETS_PER_NFT * LAMPORTS_PER_DROPLET

\* What the arithmetic needs of the constants; constants.rs satisfies all of it.
ASSUME ConstantsAssumption ==
    /\ LAMPORTS_PER_DROPLET \in Nat \ {0}
    /\ DROPLETS_PER_NFT \in Nat \ {0, 1}
    /\ MAX_INTEREST_SCALER \in Nat \ {0}
    \* liquidate_locker divides the percentage by DROPLETS_PER_NFT, not by 100
    /\ LIQUIDATION_REWARD_PERCENTAGE \in 0..DROPLETS_PER_NFT
    /\ REDEEM_FEE_BASIS_POINTS \in 0..MAX_BASIS_POINTS
    /\ SWAP_FEE_BASIS_POINTS \in 0..MAX_BASIS_POINTS
    /\ DISTRIBUTOR_FEE_BASIS_POINTS \in 0..MAX_BASIS_POINTS
    /\ U64_MAX \in Nat
    /\ U16_MAX \in Nat
    /\ NFT_VALUE * MAX_INTEREST_SCALER <= U64_MAX
    /\ NFT_VALUE * DROPLETS_PER_NFT <= U64_MAX
    /\ NFT_VALUE * MAX_BASIS_POINTS <= U64_MAX

-----------------------------------------------------------------------------
(* Loan terms: calculate_loan *)

CalculateLoanArgs ==
    [max_locker_duration : Nat, num_nfts_in_bucket : Nat, num_nfts_in_lockers : Nat,
     interest_scaler : Nat, locker_duration : Nat]

Numerator(a) == a.locker_duration * a.num_nfts_in_lockers * NFT_VALUE

\* Mutant: the NFTs in lockers are left out of the total.
DenominatorBucketOnly(a) == a.max_locker_duration * a.num_nfts_in_bucket

Denominator(a) ==
    a.max_locker_duration * (a.num_nfts_in_bucket + a.num_nfts_in_lockers)

\* Mutant: the quotient rounded down.
RawInterestFloor(a) == Numerator(a) \div Denominator(a)

\* Numerator / Denominator rounded up.
RawInterest(a) == (Numerator(a) + (Denominator(a) - 1)) \div Denominator(a)

\* Mutant: the interest is not scaled down by MAX_INTEREST_SCALER.
ScaledInterestUnscaled(a) == RawInterest(a) * a.interest_scaler

ScaledInterest(a) == (RawInterest(a) * a.interest_scaler) \div MAX_INTEREST_SCALER

\* Mutant: the product duration * y * NFT_VALUE wraps unnoticed.
LoanDefinedUnchecked(a) == Denominator(a) >= 1 /\ RawInterest(a) <= NFT_VALUE

\* No checked operation of calculate_loan fails.  The products of non-negative
\* factors grow to the last one, so bounding the last bounds the earlier ones.
LoanDefined(a) ==
    /\ Numerator(a) <= U64_MAX
    /\ Denominator(a) \in 1..U64_MAX
    /\ Numerator(a) + (Denominator(a) - 1) <= U64_MAX
    /\ RawInterest(a) * a.interest_scaler <= U64_MAX
    /\ RawInterest(a) <= NFT_VALUE

CalculateLoan(a) ==
    [principal_amount     |-> NFT_VALUE - RawInterest(a),
     max_interest_payable |-> ScaledInterest(a)]

-----------------------------------------------------------------------------
(* Repayment: the interest due in unlock_nft, elapsed seconds after locking *)

\* Mutant: divides before it multiplies.
InterestRoundedEarly(max_interest_payable, duration, elapsed) ==
    (max_interest_payable \div duration) * elapsed

Interest(max_interest_payable, duration, elapsed) ==
    (elapsed * max_interest_payable) \div duration

InterestDefined(max_interest_payable, duration, elapsed) ==
    /\ elapsed >= 0
    /\ elapsed * max_interest_payable <= U64_MAX
    /\ duration # 0

-----------------------------------------------------------------------------
(* Liquidation: what liquidate_locker mints on top of the principal *)

DropletsToMint(principal_amount) == NFT_VALUE - principal_amount

LiquidationReward(principal_amount) ==
    (DropletsToMint(principal_amount) * LIQUIDATION_REWARD_PERCENTAGE)
        \div DROPLETS_PER_NFT

\* Mutant: the reward is not taken out of the treasury's share.
ToStoreInVaultWhole(principal_amount) == DropletsToMint(principal_amount)

ToStoreInVault(principal_amount) ==
    DropletsToMint(principal_amount) - LiquidationReward(principal_amount)

\* Mutant: a liquidation without a reward is refused.
LiquidationIfRewarded(principal_amount) ==
    principal_amount <= NFT_VALUE /\ LiquidationReward(principal_amount) > 0

LiquidationDefined(principal_amount) ==
    /\ principal_amount <= NFT_VALUE
    /\ DropletsToMint(principal_amount) * LIQUIDATION_REWARD_PERCENTAGE <= U64_MAX
    /\ LiquidationReward(principal_amount) <= DropletsToMint(principal_amount)

-----------------------------------------------------------------------------
(* Fees of redeem_nft *)

FeeBasisPoints(swap) ==
    IF swap THEN SWAP_FEE_BASIS_POINTS ELSE REDEEM_FEE_BASIS_POINTS

TotalFee(swap) == (NFT_VALUE * FeeBasisPoints(swap)) \div MAX_BASIS_POINTS

DistributorFee(swap) == (TotalFee(swap) * DISTRIBUTOR_FEE_BASIS_POINTS) \div MAX_BASIS_POINTS

TreasuryFee(swap) == TotalFee(swap) - DistributorFee(swap)
=============================================================================
