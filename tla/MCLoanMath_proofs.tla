------------------------- MODULE MCLoanMath_proofs -------------------------
(***************************************************************************)
(* The arithmetic of a loan, for all the arguments that lock_nft can pass  *)
(* and every second of the loan, and not only for those of the grid: the   *)
(* sets of the grid are constants, and any set of numbers will do.         *)
(***************************************************************************)
EXTENDS MCLoanMath, Amounts_proofs

\* The first line of lock_nft's checks and the counting of the NFT, kept by
\* every second that passes.
LoanArgs ==
    /\ args \in CalculateLoanArgs
    /\ args.num_nfts_in_bucket >= 1
    /\ args.num_nfts_in_lockers >= 1
    /\ args.interest_scaler <= MAX_INTEREST_SCALER
    /\ args.locker_duration <= args.max_locker_duration
    /\ elapsed \in 0..args.locker_duration

\* Every argument tried is one that lock_nft can pass, at a second of the loan.
LEMMA LoanArgsHold == Spec => []LoanArgs
<1>1. ASSUME Init PROVE LoanArgs
  <2> DEFINE grid == [max_locker_duration : Durations, num_nfts_in_bucket : Counters \ {0},
                      num_nfts_in_lockers : Counters \ {0}, interest_scaler : Scalers,
                      locker_duration : Durations]
  <2>1. args \in grid
    BY <1>1 DEF Init
  <2>2. /\ Durations \subseteq Nat
        /\ Counters \ {0} \subseteq Nat \ {0}
        /\ Scalers \subseteq Nat
        /\ Scalers \subseteq 0..MAX_INTEREST_SCALER
    BY GridAssumption, ConstantsType DEF GridAssumption
  <2>3. /\ args.num_nfts_in_bucket \in Nat \ {0}
        /\ args.num_nfts_in_lockers \in Nat \ {0}
        /\ args.interest_scaler \in 0..MAX_INTEREST_SCALER
    BY <2>1, <2>2
  <2>4. args \in CalculateLoanArgs
    BY <2>1, <2>2 DEF CalculateLoanArgs
  <2>5. args.locker_duration <= args.max_locker_duration /\ elapsed = 0
    BY <1>1 DEF Init
  <2>6. args.locker_duration \in Nat
    BY <2>4 DEF CalculateLoanArgs
  <2> QED
    BY <2>3, <2>4, <2>5, <2>6, ConstantsType DEF LoanArgs
<1>2. ASSUME LoanArgs, [Next]_<<args, elapsed>> PROVE LoanArgs'
  <2>1. CASE UNCHANGED <<args, elapsed>>
    BY <1>2, <2>1 DEF LoanArgs
  <2>2. CASE Next
    <3>1. args' = args /\ elapsed' = elapsed + 1 /\ elapsed < args.locker_duration
      BY <2>2 DEF Next
    <3>2. args.locker_duration \in Nat /\ elapsed \in 0..args.locker_duration
      BY <1>2 DEF LoanArgs, CalculateLoanArgs
    <3>3. elapsed' \in 0..args'.locker_duration
      BY <3>1, <3>2
    <3> QED
      BY <1>2, <3>1, <3>3 DEF LoanArgs
  <2> QED
    BY <1>2, <2>1, <2>2
<1> QED
  BY <1>1, <1>2, PTL DEF Spec

-----------------------------------------------------------------------------
(* Divisions *)

\* The quotient rounded up is the least number whose multiple of d reaches n.
LEMMA RoundedUp ==
    ASSUME NEW n \in Nat, NEW d \in Nat \ {0}
    PROVE  /\ (n + (d - 1)) \div d \in Nat
           /\ ((n + (d - 1)) \div d) * d >= n
           /\ \A s \in Nat : s * d >= n => (n + (d - 1)) \div d <= s
<1> DEFINE r == (n + (d - 1)) \div d
<1>1. n + (d - 1) \in Nat
  OBVIOUS
<1>2. r \in Nat /\ r * d <= n + (d - 1) /\ n + (d - 1) < (r + 1) * d
  BY <1>1, DivBounds
<1> HIDE DEF r
<1>3. r * d \in Nat /\ (r + 1) * d = r * d + d
  BY <1>2
<1>4. r * d >= n
  BY <1>2, <1>3
<1>5. ASSUME NEW s \in Nat, s * d >= n PROVE r <= s
  <2>1. SUFFICES ASSUME s + 1 <= r PROVE FALSE
    BY <1>2
  <2>2. (s + 1) * d <= r * d
    BY <1>2, <2>1, ProductMonotone
  <2>3. s * d \in Nat /\ (s + 1) * d = s * d + d
    OBVIOUS
  <2> QED
    BY <1>2, <1>3, <1>5, <2>2, <2>3
<1> QED
  BY <1>2, <1>4, <1>5 DEF r

\* A multiple of d divides without a remainder.
LEMMA DivExact ==
    ASSUME NEW d \in Nat \ {0}, NEW i \in Nat
    PROVE  (d * i) \div d = i
<1> DEFINE q == (d * i) \div d
<1>1. d * i \in Nat /\ d * i = i * d
  OBVIOUS
<1>2. q \in Nat /\ q * d <= i * d /\ i * d < (q + 1) * d
  BY <1>1, DivBounds
<1> HIDE DEF q
<1>3. q <= i
  <2>1. SUFFICES ASSUME i + 1 <= q PROVE FALSE
    BY <1>2
  <2>2. (i + 1) * d <= q * d
    BY <1>2, <2>1, ProductMonotone
  <2>3. (i + 1) * d = i * d + d /\ i * d \in Nat /\ q * d \in Nat
    BY <1>2
  <2> QED
    BY <1>2, <2>2, <2>3
<1>4. i <= q
  <2>1. SUFFICES ASSUME q + 1 <= i PROVE FALSE
    BY <1>2
  <2>2. (q + 1) * d <= i * d
    BY <1>2, <2>1, ProductMonotone
  <2> QED
    BY <1>1, <1>2, <2>2
<1> QED
  BY <1>2, <1>3, <1>4 DEF q

-----------------------------------------------------------------------------
(* The terms of a loan *)

\* Principal and interest together never exceed the value of an NFT, whatever
\* arguments calculate_loan accepts with a scaler in range.
THEOREM DebtBoundedHolds == Spec => []DebtBounded
<1>1. LoanArgs => DebtBounded
  BY LoanBounded DEF LoanArgs, DebtBounded, loan
<1> QED
  BY <1>1, LoanArgsHold, PTL

\* The two ways to say that q lamports cover the discount agree.
LEMMA CoversDiscountAsQuotient ==
    ASSUME LoanArgs, NEW q \in Nat
    PROVE  CoversDiscount(q) <=> q * Denominator(args) >= Numerator(args)
<1> DEFINE x == args.num_nfts_in_bucket
           y == args.num_nfts_in_lockers
           t == args.locker_duration
           m == args.max_locker_duration
<1>1. x \in Nat /\ y \in Nat /\ t \in Nat /\ m \in Nat /\ NFT_VALUE \in Nat
  BY NftValueType DEF LoanArgs, CalculateLoanArgs
<1>2. CoversDiscount(q) <=> q * (x + y) * m >= NFT_VALUE * y * t
  BY DEF CoversDiscount
<1>3. Denominator(args) = m * (x + y) /\ Numerator(args) = t * y * NFT_VALUE
  BY DEF Denominator, Numerator
<1> HIDE DEF x, y, t, m
<1>4. q * (x + y) * m = q * (m * (x + y))
  BY <1>1
<1>5. NFT_VALUE * y * t = t * y * NFT_VALUE
  BY <1>1
<1> QED
  BY <1>2, <1>3, <1>4, <1>5

\* The principal is the value of an NFT less the least number of lamports not
\* below the exact discount, for all arguments that calculate_loan accepts.
THEOREM PrincipalIsReferenceHolds == Spec => []PrincipalIsReference
<1>1. ASSUME LoanArgs, LoanDefined(args) PROVE DiscountReference = RawInterest(args)
  <2> DEFINE n == Numerator(args)
             d == Denominator(args)
             r == RawInterest(args)
             Least(q) == /\ CoversDiscount(q)
                         /\ \A s \in 0..NFT_VALUE : CoversDiscount(s) => q <= s
  <2>1. n \in Nat /\ d \in Nat \ {0} /\ r <= NFT_VALUE /\ NFT_VALUE \in Nat
    BY <1>1, QuotientType, NftValueType DEF LoanArgs, LoanDefined
  <2>2. r = (n + (d - 1)) \div d
    BY DEF RawInterest
  <2>3. DiscountReference = CHOOSE q \in 0..NFT_VALUE : Least(q)
    BY DEF DiscountReference
  <2>4. \A s \in Nat : CoversDiscount(s) <=> s * d >= n
    BY <1>1, CoversDiscountAsQuotient
  <2> HIDE DEF n, d, r
  <2>5. r \in Nat /\ r * d >= n /\ \A s \in Nat : s * d >= n => r <= s
    BY <2>1, <2>2, RoundedUp
  <2>6. r \in 0..NFT_VALUE /\ Least(r)
    BY <2>1, <2>4, <2>5
  <2>7. \A q \in 0..NFT_VALUE : Least(q) => q = r
    BY <2>5, <2>6
  <2> HIDE DEF Least
  <2>8. (CHOOSE q \in 0..NFT_VALUE : Least(q)) = r
    BY <2>6, <2>7
  <2> QED
    BY <2>3, <2>8 DEF r
<1>2. LoanArgs => PrincipalIsReference
  BY <1>1 DEF PrincipalIsReference, loan, CalculateLoan
<1> QED
  BY <1>2, LoanArgsHold, PTL

\* A loan that is no longer than the maximum is accepted when its products fit
\* in a u64: the share of the duration and the share of the lockers are each at
\* most 1, so the discount is at most the value of an NFT.
LEMMA LoanAccepted ==
    ASSUME NEW a \in CalculateLoanArgs,
           a.num_nfts_in_bucket >= 1, a.num_nfts_in_lockers >= 1,
           a.interest_scaler <= MAX_INTEREST_SCALER,
           a.locker_duration <= a.max_locker_duration, a.max_locker_duration # 0,
           Denominator(a) <= U64_MAX, Numerator(a) + (Denominator(a) - 1) <= U64_MAX
    PROVE  LoanDefined(a)
<1> DEFINE x == a.num_nfts_in_bucket
           y == a.num_nfts_in_lockers
           t == a.locker_duration
           m == a.max_locker_duration
           w == a.interest_scaler
           n == Numerator(a)
           d == Denominator(a)
           r == RawInterest(a)
<1>1. /\ x \in Nat /\ x >= 1 /\ y \in Nat /\ y >= 1
      /\ t \in Nat /\ m \in Nat \ {0} /\ t <= m
      /\ w \in Nat /\ w <= MAX_INTEREST_SCALER
  BY DEF CalculateLoanArgs
<1>2. NFT_VALUE \in Nat /\ MAX_INTEREST_SCALER \in Nat /\ U64_MAX \in Nat
  BY NftValueType, ConstantsType
<1>3. n \in Nat /\ d \in Nat /\ d <= U64_MAX /\ n + (d - 1) <= U64_MAX
  BY QuotientType
<1>4. n = (t * y) * NFT_VALUE /\ d = m * (x + y) /\ r = (n + (d - 1)) \div d
  BY DEF Numerator, Denominator, RawInterest
<1>5. NFT_VALUE * MAX_INTEREST_SCALER <= U64_MAX
  BY ConstantsAssumption, Zenon DEF ConstantsAssumption
<1> HIDE DEF x, y, t, m, w, n, d, r
<1>6. d >= 1
  BY <1>1, <1>4
<1>7. n <= NFT_VALUE * d
  <2>1. t * y <= m * y
    BY <1>1, ProductMonotone
  <2>2. y * m <= (x + y) * m
    BY <1>1, ProductMonotone
  <2>3. t * y \in Nat /\ m * y \in Nat /\ m * y = y * m /\ (x + y) * m = d
    BY <1>1, <1>4
  <2>4. t * y <= d
    BY <1>3, <2>1, <2>2, <2>3
  <2>5. (t * y) * NFT_VALUE <= d * NFT_VALUE
    BY <1>2, <1>3, <2>3, <2>4, ProductMonotone
  <2> QED
    BY <1>2, <1>3, <1>4, <2>5
<1>8. r \in Nat /\ r <= NFT_VALUE
  BY <1>2, <1>3, <1>4, <1>6, <1>7, RoundedUp
<1>9. r * w <= U64_MAX
  <2>1. r * w <= NFT_VALUE * w
    BY <1>1, <1>2, <1>8, ProductMonotone
  <2>2. w * NFT_VALUE <= MAX_INTEREST_SCALER * NFT_VALUE
    BY <1>1, <1>2, ProductMonotone
  <2>3. /\ r * w \in Nat
        /\ NFT_VALUE * w \in Nat /\ NFT_VALUE * w = w * NFT_VALUE
        /\ MAX_INTEREST_SCALER * NFT_VALUE = NFT_VALUE * MAX_INTEREST_SCALER
    BY <1>1, <1>2, <1>8
  <2>4. NFT_VALUE * MAX_INTEREST_SCALER \in Nat
    BY <1>2
  <2> QED
    BY <1>2, <1>5, <2>1, <2>2, <2>3, <2>4
<1>10. n <= U64_MAX
  BY <1>2, <1>3, <1>6
<1> QED
  BY <1>2, <1>3, <1>6, <1>8, <1>9, <1>10 DEF LoanDefined, w, n, d, r

\* No argument that passes the check on the duration is refused for another
\* reason than a u64 that overflows or a maximum duration of 0: in particular
\* not because the discount would exceed the value of an NFT.
THEOREM RefusedOnlyByOverflowHolds == Spec => []RefusedOnlyByOverflow
<1>1. ASSUME LoanArgs, args.max_locker_duration # 0, ~(Denominator(args) > U64_MAX),
             ~(Numerator(args) + Denominator(args) - 1 > U64_MAX)
      PROVE  LoanDefined(args)
  <2>1. Numerator(args) \in Nat /\ Denominator(args) \in Nat /\ U64_MAX \in Nat
    BY <1>1, QuotientType, ConstantsType DEF LoanArgs
  <2>2. /\ Denominator(args) <= U64_MAX
        /\ Numerator(args) + (Denominator(args) - 1) <= U64_MAX
    BY <1>1, <2>1
  <2> QED
    BY <1>1, <2>2, LoanAccepted DEF LoanArgs
<1>2. LoanArgs => RefusedOnlyByOverflow
  BY <1>1 DEF RefusedOnlyByOverflow
<1> QED
  BY <1>2, LoanArgsHold, PTL

\* At every second of a loan the interest due is the share of the maximum that
\* the time elapsed is of the duration, rounded down, and at expiry all of it.
THEOREM InterestProportionalHolds == Spec => []InterestProportional
<1>1. ASSUME LoanArgs, LoanDefined(args), args.locker_duration > 0
      PROVE  /\ interest * args.locker_duration <= elapsed * loan.max_interest_payable
             /\ (interest + 1) * args.locker_duration > elapsed * loan.max_interest_payable
             /\ elapsed = args.locker_duration => interest = loan.max_interest_payable
  <2> DEFINE i == loan.max_interest_payable
             t == args.locker_duration
  <2>1. i \in Nat
    BY <1>1, LoanType DEF LoanArgs, loan
  <2>2. t \in Nat \ {0} /\ elapsed \in Nat
    BY <1>1 DEF LoanArgs, CalculateLoanArgs
  <2>3. interest = (elapsed * i) \div t
    BY DEF interest, Interest
  <2> HIDE DEF i, t
  <2>4. elapsed * i \in Nat
    BY <2>1, <2>2
  <2>5. interest \in Nat /\ interest * t <= elapsed * i /\ elapsed * i < (interest + 1) * t
    BY <2>2, <2>3, <2>4, DivBounds
  <2>6. elapsed = t => interest = i
    BY <2>1, <2>2, <2>3, DivExact
  <2>7. (interest + 1) * t \in Nat
    BY <2>2, <2>5
  <2> QED
    BY <2>4, <2>5, <2>6, <2>7 DEF i, t
<1>2. LoanArgs => InterestProportional
  BY <1>1 DEF InterestProportional
<1> QED
  BY <1>2, LoanArgsHold, PTL
=============================================================================
