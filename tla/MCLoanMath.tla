----------------------------- MODULE MCLoanMath -----------------------------
(***************************************************************************)
(* calculate_loan and the arithmetic of a repayment, checked on every loan *)
(* of a grid of arguments, and on every second a loan may run.             *)
(***************************************************************************)
EXTENDS LoanMath

CONSTANTS
    Durations,     \* durations asked for, and maximum durations
    Counters,      \* numbers of NFTs in the bucket and in its lockers
    Scalers,       \* interest scalers
    ELAPSED_MAX    \* bound on the seconds a loan is followed

\* Durations and counters are unsigned; update_locking_params keeps the scaler
\* of a bucket within its range.
ASSUME GridAssumption ==
    /\ Durations \subseteq Nat
    /\ Counters \subseteq Nat
    /\ Scalers \subseteq 0..MAX_INTEREST_SCALER
    /\ ELAPSED_MAX \in Nat

VARIABLES
    args,      \* the arguments of calculate_loan
    elapsed    \* seconds since the NFT was locked

\* The arguments lock_nft can pass: it has checked the duration, and counted
\* the NFT being locked.
Init ==
    /\ args \in [max_locker_duration : Durations, num_nfts_in_bucket : Counters \ {0},
                 num_nfts_in_lockers : Counters \ {0}, interest_scaler : Scalers,
                 locker_duration : Durations]
    /\ args.locker_duration <= args.max_locker_duration
    /\ elapsed = 0

\* The loan runs for one more second.
Next ==
    /\ LoanDefined(args)
    /\ elapsed < args.locker_duration
    /\ elapsed < ELAPSED_MAX
    /\ elapsed' = elapsed + 1
    /\ UNCHANGED args

Spec == Init /\ [][Next]_<<args, elapsed>>

-----------------------------------------------------------------------------
loan == CalculateLoan(args)

\* q lamports are no less of an NFT's value than the duration is of the maximum,
\* times the share of the bucket's NFTs that are locked.
CoversDiscount(q) ==
    q * (args.num_nfts_in_bucket + args.num_nfts_in_lockers) * args.max_locker_duration
        >= NFT_VALUE * args.num_nfts_in_lockers * args.locker_duration

DiscountReference ==
    CHOOSE r \in 0..NFT_VALUE :
        /\ CoversDiscount(r)
        /\ \A s \in 0..NFT_VALUE : CoversDiscount(s) => r <= s

\* The principal of a loan is the value of an NFT less the discount, rounded
\* up, with the shares written out from the arguments and not as the module
\* has them.
PrincipalIsReference ==
    LoanDefined(args) => loan.principal_amount = NFT_VALUE - DiscountReference

\* The interest quoted never exceeds the discount, so principal and interest
\* together never exceed the value of an NFT.
DebtBounded ==
    LoanDefined(args) => loan.principal_amount + loan.max_interest_payable <= NFT_VALUE

\* lock_nft is refused by calculate_loan only for want of a u64: when one of
\* the two products or their sum overflows, or when the maximum duration is 0.
RefusedOnlyByOverflow ==
    \/ LoanDefined(args)
    \/ args.max_locker_duration = 0
    \/ Denominator(args) > U64_MAX
    \/ Numerator(args) + Denominator(args) - 1 > U64_MAX

interest == Interest(loan.max_interest_payable, args.locker_duration, elapsed)

\* The interest due starts from nothing, is never ahead of the time elapsed
\* nor a lamport behind it, and reaches the maximum at expiry.
InterestProportional ==
    LoanDefined(args) /\ args.locker_duration > 0 =>
        /\ interest * args.locker_duration <= elapsed * loan.max_interest_payable
        /\ (interest + 1) * args.locker_duration > elapsed * loan.max_interest_payable
        /\ elapsed = args.locker_duration => interest = loan.max_interest_payable
=============================================================================
